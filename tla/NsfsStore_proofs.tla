-------------------------- MODULE NsfsStore_proofs --------------------------
(***************************************************************************)
(* What NsfsJournal promises its callers, proved: a superblock that was    *)
(* acknowledged is never lost, the generation a mount is certain to find   *)
(* never goes back, a superblock marked clean never stands beside a        *)
(* journal to replay, and the journal implements AtomicStore.  The         *)
(* invariant of NsfsJournal_proofs is strengthened by the generations and  *)
(* the states of the superblocks on the medium, and by the home blocks a   *)
(* power cut can no longer change.                                         *)
(***************************************************************************)
EXTENDS NsfsJournal_proofs, WellFoundedInduction

\* The flush that ends an unmount reports no error: the case in which the
\* code leaves a filesystem with clean superblocks mounted for writing.
UnmountFlushReliable == "uflush" \notin Faults

----------------------------------------------------------------------------
\* The inductive invariant.

Supers(m) == m[S0] \cup m[S1]

\* The steps of the ordered commit, up to the commit barrier and after it.
BeforeBarrier == {"images", "imgflush", "header", "commitflush"}
AfterBarrier == {"homes", "homeflush", "clear", "clearflush"}

\* Mounted for writing, between two calls.
Serving == pc \in {"idle", "uflush"} /\ ~poisoned /\ ~ro

\* nsfs_tx_append_super stages s for both copies, block 0 last.
SealedWith(es, s) ==
    /\ Len(es) \in Nat \ {0, 1}
    /\ DOMAIN es = 1..Len(es)
    /\ es[Len(es) - 1].block = S1 /\ es[Len(es)].block = S0
    /\ \A i \in DOMAIN es : es[i].block \in {S0, S1} => es[i].image = s

LastImage(es) == es[Len(es)].image

HeadersSealed ==
    \A h \in hdrM : h.state = "COMMITTED" =>
        /\ SealedWith(h.entries, LastImage(h.entries))
        /\ LastImage(h.entries).state = "DIRTY"

EntriesSealed ==
    pc \in BeforeBarrier \cup {"homes", "homeflush", "clear"}
        => SealedWith(entries, sb) /\ sb.state = "DIRTY"

\* No superblock that may survive is newer than generation g ...
GenBelow(m, g) == \A s \in Supers(m) : s.generation <= g

\* ... and one of the copies is certain to be as new.
GenKept(m, g) == \E b \in {S0, S1} : \A s \in m[b] : s.generation >= g

SuperTop ==
    \/ pc \in {"sb1", "sb1flush", "sb0", "sb0flush"}
    \/ pc \in BeforeBarrier \cup AfterBarrier
    \/ Serving
    => GenBelow(homeM, sb.generation)

OrigTop ==
    pc \in {"staged"} \cup BeforeBarrier =>
        /\ GenBelow(homeM, orig.generation) /\ GenKept(homeM, orig.generation)
        /\ pc = "staged" => sb.generation = orig.generation

\* Without a record to replay, a read returns the newest of the values that
\* may survive.
ReadTop ==
    hdr.state = "EMPTY" =>
        \A b \in {S0, S1} : \A s \in homeM[b] : s.generation <= home[b].generation

PairWritten ==
    /\ pc \in {"sb1flush", "sb0", "sb0flush"} => home[S1] = sb
    /\ pc = "sb0flush" => home[S0] = sb

HomesPlaced ==
    /\ pc \in {"homeflush", "rflush", "clear", "rclear"} =>
         \A i \in DOMAIN entries : home[entries[i].block] = entries[i].image
    /\ pc \in {"clear", "rclear"} => \A b \in Target : homeM[b] = {home[b]}

Acked ==
    pc \in {"clear", "clearflush"} \/ Serving => GenKept(homeM, sb.generation)

GInv == /\ HeadersSealed /\ EntriesSealed /\ SuperTop /\ OrigTop /\ ReadTop
        /\ PairWritten /\ HomesPlaced /\ Acked

\* Home blocks that a power cut cannot change: all of them when the journal
\* may be found empty, those that no record mentions otherwise.
HomeSettled == MayBeEmpty => \A b \in Home : homeM[b] = {home[b]}

OthersSettled ==
    \A h \in hdrM : h.state = "COMMITTED" =>
        \A b \in Home : (\A i \in DOMAIN h.entries : h.entries[i].block # b)
                            => homeM[b] = {home[b]}

\* A record that was cleared but may still be found repeats what is in place.
ClearedInstalled ==
    hdr.state = "EMPTY" =>
        \A h \in hdrM : h.state = "COMMITTED" =>
            \A i \in DOMAIN h.entries :
                h.entries[i].block \in Home
                    => home[h.entries[i].block] = h.entries[i].image

RInv == HomeSettled /\ OthersSettled /\ ClearedInstalled

\* Superblocks on the medium are dirty while a record may have to be replayed
\* or a transaction may start.
NeedsDirty ==
    \/ \E h \in hdrM : h.state = "COMMITTED"
    \/ pc \in {"staged"} \cup BeforeBarrier \cup AfterBarrier
    \/ pc = "idle" /\ ~poisoned /\ ~ro

DirtyWhileNeeded == NeedsDirty => \A s \in Supers(homeM) : s.state = "DIRTY"

PairGoal ==
    pc \in {"sb1", "sb1flush", "sb0", "sb0flush"} =>
        /\ goal = "unmount" => \A h \in hdrM : h.state = "EMPTY"
        /\ goal = "mount" => sb.state = "DIRTY"

DInv == DirtyWhileNeeded /\ PairGoal

----------------------------------------------------------------------------
\* What a step does to the home blocks and to the header.

Rests == UNCHANGED <<home, homeM, hdr, hdrM>>

Commits == pc = "header" /\ pc' = "commitflush" /\ WriteHeader(CommitHeader)

Clears(t) == pc \in {"clear", "rclear"} /\ WriteHeader(EmptyHeader(t))

Installs(k) == pc \in {"homes", "rhomes"} /\ WriteHomes(entries, k)

Marks(b) ==
    /\ pc = (IF b = S1 THEN "sb1" ELSE "sb0")
    /\ WriteSuper(b, sb)

LEMMA DeviceSteps ==
    ASSUME CommitRecordReliable, Next
    PROVE  \/ Flush \/ Crash \/ Commits
           \/ /\ pc' \notin {"clear", "rclear"}
              /\ \/ Rests
                 \/ \E b \in {S0, S1} : Marks(b)
                 \/ \E t : Clears(t)
                 \/ \E k \in 0..Len(entries) : Installs(k)
  <1> USE DEF Rests, Commits, Clears, Installs, Marks
  <1>1. CASE CommitStep
    BY <1>1 DEF CommitStep, nsfs_tx_commit, nsfs_tx_write_images,
       nsfs_tx_flush_images, nsfs_tx_write_commit, nsfs_tx_flush_commit,
       nsfs_tx_write_homes, nsfs_tx_flush_homes, nsfs_clear_journal_write,
       nsfs_clear_journal_flush, WriteSlots, device
  <1>2. CASE MountStep
    BY <1>2 DEF MountStep, nsfs_recover_write_homes, nsfs_recover_flush,
       nsfs_recover_clear_write, nsfs_recover_clear_flush, nsfs_mount_finish, device
  <1>3. CASE PairStep \/ nsfs_unmount_flush
    BY <1>3, BlockAssumption DEF PairStep, nsfs_write_super_pair_write,
       nsfs_write_super_pair_flush1, nsfs_write_super_pair_flush0,
       nsfs_unmount_flush, device
  <1>4. CASE Call
    <2>1. Flush \/ (UNCHANGED device /\ pc' \notin {"clear", "rclear"})
      BY <1>4 DEF Call, nsfs_mount, nsfs_tx_begin, nsfs_tx_abort, nsfs_tx_release,
         nsfs_sync, nsfs_unmount, nsfs_abandon
    <2> QED
      BY <2>1 DEF device
  <1>5. CASE DeviceError
    <2>1. pc' \in {"idle", "off"}
      BY <1>5 DEF DeviceError, nsfs_tx_failed_before_commit, nsfs_tx_release,
         nsfs_tx_failed_after_commit, nsfs_recover_fail, nsfs_write_super_pair_fail
    <2>2. CASE nsfs_tx_failed_before_commit
      BY <2>1, <2>2 DEF nsfs_tx_failed_before_commit, Fault, WriteSlots, device,
         CommitRecordReliable
    <2>3. CASE nsfs_tx_failed_after_commit
      BY <2>1, <2>3 DEF nsfs_tx_failed_after_commit, device
    <2>4. CASE nsfs_recover_fail
      BY <2>1, <2>4 DEF nsfs_recover_fail, device
    <2>5. CASE nsfs_write_super_pair_fail
      BY <2>1, <2>5, BlockAssumption DEF nsfs_write_super_pair_fail, device
    <2> QED
      BY <1>5, <2>2, <2>3, <2>4, <2>5 DEF DeviceError
  <1>6. CASE Crash
    BY <1>6
  <1> QED
    BY <1>1, <1>2, <1>3, <1>4, <1>5, <1>6 DEF Next

\* A barrier or a power cut leaves nothing undecided.
LEMMA Decided == Flush \/ Crash => (DevType' => ReadTop') /\ RInv'
  <1>1. ASSUME Flush \/ Crash
        PROVE  /\ \A b \in Target : homeM'[b] = {home'[b]}
               /\ hdrM' = {hdr'}
    BY <1>1 DEF Flush, Crash
  <1>2. {S0, S1} \subseteq Target /\ Home \subseteq Target
    BY DEF Target
  <1>3. ASSUME Flush \/ Crash, DevType'
        PROVE  ReadTop'
    <2>1. \A b \in {S0, S1} : homeM'[b] = {home'[b]}
                              /\ home'[b].generation \in Nat
      BY <1>1, <1>2, <1>3 DEF DevType, Superblock
    <2> QED
      BY <2>1 DEF ReadTop
  <1> QED
    BY <1>1, <1>2, <1>3 DEF RInv, HomeSettled, OthersSettled, ClearedInstalled

LEMMA RInit == Init => RInv
  <1> SUFFICES ASSUME Init PROVE RInv
    OBVIOUS
  <1>1. \A b \in Home : homeM[b] = {home[b]}
    BY DEF Init, nsfs_format, Target
  <1>2. hdrM = {hdr} /\ hdr.state = "EMPTY"
    BY DEF Init, nsfs_format, EmptyHeader
  <1> QED
    BY <1>1, <1>2 DEF RInv, HomeSettled, OthersSettled, ClearedInstalled

LEMMA RNext ==
    ASSUME CommitRecordReliable, IInv, GInv, RInv, Next
    PROVE  RInv'
  <1>0. DevType /\ MemType /\ ReadSurvives /\ HeaderQuiet /\ HomesPlaced
    BY TypeParts DEF IInv, JInv, GInv
  <1>a. HomeSettled /\ OthersSettled /\ ClearedInstalled
    BY DEF RInv
  <1>b. S0 \notin Home /\ S1 \notin Home /\ Home \subseteq Target
    BY BlockAssumption DEF Target
  <1>1. CASE Flush \/ Crash
    BY <1>1, Decided
  <1>2. CASE Commits
    <2>1. /\ hdrM' = hdrM \cup {CommitHeader} /\ hdr' = CommitHeader
          /\ home' = home /\ homeM' = homeM
      BY <1>2 DEF Commits, WriteHeader
    <2>2. MayBeEmpty
      BY <1>0, <1>2 DEF Commits, HeaderQuiet, Quiet, ReadSurvives, MayBeEmpty
    <2>3. \A b \in Home : homeM[b] = {home[b]}
      BY <1>a, <2>2 DEF HomeSettled
    <2>4. hdr'.state = "COMMITTED"
      BY <2>1 DEF CommitHeader
    <2> QED
      BY <2>1, <2>3, <2>4 DEF RInv, HomeSettled, OthersSettled, ClearedInstalled
  <1>3. CASE Rests /\ pc' \notin {"clear", "rclear"}
    <2>1. MayBeEmpty' => MayBeEmpty
      BY <1>3 DEF Rests, MayBeEmpty
    <2> QED
      BY <1>3, <1>a, <2>1 DEF Rests, RInv, HomeSettled, OthersSettled, ClearedInstalled
  <1>4. ASSUME NEW b \in {S0, S1}, Marks(b), pc' \notin {"clear", "rclear"}
        PROVE  RInv'
    <2>1. /\ \A c \in Home : home'[c] = home[c] /\ homeM'[c] = homeM[c]
          /\ hdr' = hdr /\ hdrM' = hdrM
      BY <1>0, <1>b, <1>4 DEF Marks, WriteSuper, DevType
    <2>2. MayBeEmpty' => MayBeEmpty
      BY <1>4, <2>1 DEF MayBeEmpty
    <2> QED
      BY <1>a, <2>1, <2>2 DEF RInv, HomeSettled, OthersSettled, ClearedInstalled
  <1>5. ASSUME NEW t, Clears(t) PROVE RInv'
    <2>1. /\ hdrM' = hdrM \cup {EmptyHeader(t)} /\ hdr' = EmptyHeader(t)
          /\ home' = home /\ homeM' = homeM /\ EmptyHeader(t).state = "EMPTY"
      BY <1>5 DEF Clears, WriteHeader, EmptyHeader
    <2>2. /\ hdrM = {hdr} /\ entries = hdr.entries
          /\ \A i \in DOMAIN entries : home[entries[i].block] = entries[i].image
          /\ \A c \in Home : homeM[c] = {home[c]}
      BY <1>0, <1>b, <1>5 DEF Clears, HeaderQuiet, HomesPlaced
    <2>3. HomeSettled' /\ OthersSettled'
      BY <2>1, <2>2 DEF HomeSettled, OthersSettled
    <2>4. ClearedInstalled'
      BY <2>1, <2>2 DEF ClearedInstalled
    <2> QED
      BY <2>3, <2>4 DEF RInv
  <1>6. ASSUME NEW k \in 0..Len(entries), Installs(k), pc' \notin {"clear", "rclear"}
        PROVE  RInv'
    <2>1. /\ hdrM' = {hdr} /\ hdr' = hdr /\ hdr.state = "COMMITTED"
          /\ entries = hdr.entries
      BY <1>0, <1>6 DEF Installs, WriteHomes, HeaderQuiet, ReadSurvives
    <2>2. ASSUME NEW c \in Home, \A i \in DOMAIN entries : entries[i].block # c
          PROVE  home'[c] = home[c] /\ homeM'[c] = homeM[c]
      <3>1. 1..k \subseteq DOMAIN entries
        BY <1>0 DEF MemType
      <3>2. Written(entries, k, c) = {}
        BY <2>2, <3>1 DEF Written
      <3> QED
        BY <1>b, <1>6, <3>2 DEF Installs, WriteHomes
    <2>3. OthersSettled'
      BY <1>0, <1>a, <2>1, <2>2 DEF OthersSettled, ReadSurvives
    <2>4. ~MayBeEmpty'
      BY <1>6, <2>1 DEF MayBeEmpty
    <2> QED
      BY <2>1, <2>3, <2>4 DEF RInv, HomeSettled, ClearedInstalled
  <1> QED
    BY <1>1, <1>2, <1>3, <1>4, <1>5, <1>6, DeviceSteps

----------------------------------------------------------------------------
\* Generations.

LEMMA ShrinkGens ==
    ASSUME NEW m, NEW n, Shrinks(m, n)
    PROVE  \A g : /\ GenBelow(m, g) => GenBelow(n, g)
                  /\ GenKept(m, g) => GenKept(n, g)
  <1>1. n[S0] \subseteq m[S0] /\ n[S1] \subseteq m[S1]
    BY DEF Shrinks
  <1> QED
    BY <1>1 DEF GenBelow, GenKept, Supers

LEMMA SuperTypes ==
    /\ DevType => \A b \in {S0, S1} :
         /\ \A s \in homeM[b] : s.generation \in Nat
         /\ home[b].generation \in Nat
    /\ MemType => sb.generation \in Nat /\ orig.generation \in Nat
  BY DEF DevType, MemType, Superblock

LEMMA GInit == Init => GInv
  <1> SUFFICES ASSUME Init PROVE GInv
    OBVIOUS
  <1>1. \A b \in {S0, S1} : home[b] = FormatSuper /\ homeM[b] = {FormatSuper}
    BY BlockAssumption DEF Init, nsfs_format, Target
  <1>2. ReadTop
    BY <1>1 DEF ReadTop, FormatSuper
  <1>3. \A h \in hdrM : h.state # "COMMITTED"
    BY DEF Init, nsfs_format, EmptyHeader
  <1> QED
    BY <1>2, <1>3 DEF Init, GInv, HeadersSealed, EntriesSealed, SuperTop, OrigTop,
       PairWritten, HomesPlaced, Acked, Serving, BeforeBarrier, AfterBarrier

\* What is written to a superblock by the images of a sealed transaction.
LEMMA SealedWrites ==
    ASSUME NEW es \in Seq(Entry), NEW k \in 0..Len(es), NEW s, SealedWith(es, s),
           NEW b \in {S0, S1}
    PROVE  Written(es, k, b) \subseteq {s}
  <1>1. 1..k \subseteq DOMAIN es
    OBVIOUS
  <1> QED
    BY <1>1 DEF Written, SealedWith

LEMMA GHeaders ==
    ASSUME CommitRecordReliable, IInv, GInv, Next, DevType'
    PROVE  HeadersSealed' /\ ReadTop'
  <1>0. DevType /\ MemType /\ ReadSurvives /\ HeaderQuiet
    BY TypeParts DEF IInv, JInv
  <1>a. HeadersSealed /\ EntriesSealed /\ ReadTop /\ SuperTop /\ HomesPlaced
    BY DEF GInv
  <1>b. S0 \in Target /\ S1 \in Target
    BY DEF Target
  <1>1. CASE Flush \/ Crash
    <2>1. hdrM' \subseteq hdrM
      BY <1>0, <1>1 DEF Flush, Crash, ReadSurvives
    <2> QED
      BY <1>1, <1>a, <2>1, Decided DEF HeadersSealed
  <1>2. CASE Commits
    <2>1. hdrM' = hdrM \cup {CommitHeader} /\ hdr' = CommitHeader
      BY <1>2 DEF Commits, WriteHeader
    <2>2. SealedWith(entries, sb) /\ sb.state = "DIRTY"
      BY <1>2, <1>a DEF Commits, EntriesSealed, BeforeBarrier
    <2>3. CommitHeader.entries = entries /\ CommitHeader.state = "COMMITTED"
      BY DEF CommitHeader
    <2>4. LastImage(entries) = sb
      BY <2>2 DEF SealedWith, LastImage
    <2> QED
      BY <1>a, <2>1, <2>2, <2>3, <2>4 DEF HeadersSealed, ReadTop
  <1>3. CASE Rests
    BY <1>3, <1>a DEF Rests, HeadersSealed, ReadTop
  <1>4. ASSUME NEW b \in {S0, S1}, Marks(b) PROVE HeadersSealed' /\ ReadTop'
    <2>1. /\ hdrM' = hdrM /\ hdr' = hdr
          /\ home' = [home EXCEPT ![b] = sb]
          /\ homeM' = [homeM EXCEPT ![b] = @ \cup {sb}]
      BY <1>4 DEF Marks, WriteSuper
    <2>2. GenBelow(homeM, sb.generation)
      BY <1>4, <1>a DEF Marks, SuperTop
    <2>3. \A s \in homeM[b] : s.generation <= sb.generation
      BY <2>2 DEF GenBelow, Supers
    <2>4. sb.generation \in Nat
      BY <1>0, SuperTypes
    <2>5. ASSUME hdr.state = "EMPTY", NEW c \in {S0, S1}, NEW s \in homeM'[c]
          PROVE  s.generation <= home'[c].generation
      <3>1. CASE c = b
        BY <1>0, <1>b, <2>1, <2>3, <2>4, <2>5, <3>1 DEF DevType
      <3>2. CASE c # b
        BY <1>0, <1>a, <1>b, <2>1, <2>5, <3>2 DEF DevType, ReadTop
      <3> QED
        BY <3>1, <3>2
    <2> QED
      BY <1>a, <2>1, <2>5 DEF HeadersSealed, ReadTop
  <1>5. ASSUME NEW t, Clears(t) PROVE HeadersSealed' /\ ReadTop'
    <2>1. /\ hdrM' = hdrM \cup {EmptyHeader(t)} /\ home' = home /\ homeM' = homeM
          /\ EmptyHeader(t).state # "COMMITTED"
      BY <1>5 DEF Clears, WriteHeader, EmptyHeader
    <2>2. \A b \in {S0, S1} : homeM[b] = {home[b]} /\ home[b].generation \in Nat
      BY <1>0, <1>5, <1>a, <1>b, SuperTypes DEF Clears, HomesPlaced
    <2> QED
      BY <1>a, <2>1, <2>2 DEF HeadersSealed, ReadTop
  <1>6. ASSUME NEW k \in 0..Len(entries), Installs(k) PROVE HeadersSealed' /\ ReadTop'
    <2>1. hdrM' = hdrM /\ hdr' = hdr /\ hdr.state = "COMMITTED"
      BY <1>0, <1>6 DEF Installs, WriteHomes, HeaderQuiet, ReadSurvives
    <2> QED
      BY <1>a, <2>1 DEF HeadersSealed, ReadTop
  <1> QED
    BY <1>1, <1>2, <1>3, <1>4, <1>5, <1>6, DeviceSteps

\* The parts of the invariant that depend on the step the filesystem is at.
GMem == EntriesSealed /\ SuperTop /\ OrigTop /\ PairWritten /\ HomesPlaced /\ Acked

\* Sealing a staged transaction appends the superblock twice.
LEMMA SealEntries ==
    ASSUME IInv, nsfs_tx_commit
    PROVE  SealedWith(entries', sb') /\ sb'.state = "DIRTY"
  <1>1. MemType /\ StagedSound /\ pc = "staged"
    BY TypeParts DEF IInv, JInv, CInv, nsfs_tx_commit
  <1> DEFINE n == Len(entries)
  <1>2. /\ n \in Nat /\ DOMAIN entries = 1..n /\ DOMAIN entries' = 1..(n + 2)
        /\ Len(entries') = n + 2
        /\ \A i \in 1..n : entries'[i] = entries[i]
        /\ entries'[n + 1] = [block |-> S1, image |-> sb']
        /\ entries'[n + 2] = [block |-> S0, image |-> sb']
    BY <1>1 DEF nsfs_tx_commit, MemType
  <1>3. \A i \in 1..n : entries'[i].block \in Home
    BY <1>1, <1>2 DEF StagedSound
  <1>4. \A i \in 1..(n + 2) : i \in 1..n \/ i = n + 1 \/ i = n + 2
    BY <1>2
  <1>5. \A i \in 1..(n + 2) : entries'[i].block \in {S0, S1} => entries'[i].image = sb'
    BY <1>2, <1>3, <1>4, BlockAssumption
  <1>6. Len(entries') - 1 = n + 1 /\ Len(entries') \in Nat \ {0, 1}
    BY <1>2
  <1> QED
    BY <1>2, <1>5, <1>6 DEF SealedWith, nsfs_tx_commit

LEMMA GCommitStep == IInv /\ GInv /\ CommitStep => GMem'
  <1> SUFFICES ASSUME IInv, GInv, CommitStep PROVE GMem'
    OBVIOUS
  <1>0. DevType /\ MemType /\ ReadSurvives /\ HeaderQuiet /\ CInv
    BY TypeParts DEF IInv, JInv
  <1>a. /\ EntriesSealed /\ SuperTop /\ OrigTop /\ PairWritten /\ HomesPlaced
        /\ Acked
    BY DEF GInv
  <1>b. entries \in Seq(Entry) /\ Len(entries) \in 0..Len(entries)
    BY <1>0 DEF MemType
  <1>c. sb.generation \in Nat /\ orig.generation \in Nat
    BY <1>0, SuperTypes
  <1> USE DEF GMem, EntriesSealed, SuperTop, OrigTop, PairWritten, HomesPlaced,
              Acked, Serving, BeforeBarrier, AfterBarrier
  <1>1. CASE nsfs_tx_commit
    <2>1. /\ homeM' = homeM /\ orig' = orig /\ pc = "staged" /\ pc' = "images"
          /\ sb'.generation = sb.generation + 1
      BY <1>1 DEF nsfs_tx_commit, device
    <2>2. SealedWith(entries', sb') /\ sb'.state = "DIRTY"
      BY <1>1, SealEntries
    <2>3. GenBelow(homeM, sb'.generation)
      BY <1>0, <1>a, <1>c, <2>1, SuperTypes DEF GenBelow, Supers
    <2> QED
      BY <1>a, <2>1, <2>2, <2>3
  <1>2. CASE nsfs_tx_write_images
    <2>1. /\ homeM' = homeM /\ UNCHANGED <<orig, sb, entries>>
          /\ pc = "images" /\ pc' = "imgflush"
      BY <1>2 DEF nsfs_tx_write_images, WriteSlots, fs
    <2> QED
      BY <1>a, <2>1
  <1>3. CASE nsfs_tx_flush_images
    <2>1. /\ Flush /\ UNCHANGED <<orig, sb, entries>>
          /\ pc = "imgflush" /\ pc' = "header"
      BY <1>3 DEF nsfs_tx_flush_images, fs
    <2>2. Shrinks(homeM, homeM')
      BY <1>0, <2>1, DeviceShrinks
    <2> QED
      BY <1>a, <2>1, <2>2, ShrinkGens
  <1>4. CASE nsfs_tx_write_commit
    <2>1. /\ homeM' = homeM /\ UNCHANGED <<orig, sb, entries>>
          /\ pc = "header" /\ pc' = "commitflush"
      BY <1>4 DEF nsfs_tx_write_commit, WriteHeader, fs
    <2> QED
      BY <1>a, <2>1
  <1>5. CASE nsfs_tx_flush_commit
    <2>1. /\ Flush /\ UNCHANGED <<orig, sb, entries>>
          /\ pc = "commitflush" /\ pc' = "homes"
      BY <1>5 DEF nsfs_tx_flush_commit, fs
    <2>2. Shrinks(homeM, homeM')
      BY <1>0, <2>1, DeviceShrinks
    <2> QED
      BY <1>a, <2>1, <2>2, ShrinkGens
  <1>6. CASE nsfs_tx_write_homes
    <2>1. /\ WriteHomes(entries, Len(entries)) /\ UNCHANGED <<orig, sb, entries>>
          /\ pc = "homes" /\ pc' = "homeflush"
      BY <1>6 DEF nsfs_tx_write_homes, fs
    <2>2. SealedWith(entries, sb) /\ Redo(homeM, entries, sb.stamp)
      BY <1>0, <1>a, <2>1 DEF CInv, SealedSound
    <2>3. \A b \in {S0, S1} : b \in Target /\ b \notin Home
      BY BlockAssumption DEF Target
    <2>4. \A b \in {S0, S1} : homeM'[b] \subseteq homeM[b] \cup {sb}
      BY <1>b, <2>1, <2>2, <2>3, SealedWrites DEF WriteHomes
    <2>5. GenBelow(homeM', sb.generation)
      BY <1>a, <1>c, <2>1, <2>4 DEF GenBelow, Supers
    <2>6. \A i \in DOMAIN entries : home'[entries[i].block] = entries[i].image
      BY <1>b, <2>1, <2>2, HomesInstalled DEF Redo
    <2> QED
      BY <1>a, <2>1, <2>5, <2>6
  <1>7. CASE nsfs_tx_flush_homes
    <2>1. /\ Flush /\ UNCHANGED <<orig, sb, entries>>
          /\ pc = "homeflush" /\ pc' = "clear"
      BY <1>7 DEF nsfs_tx_flush_homes, fs
    <2>2. Shrinks(homeM, homeM')
      BY <1>0, <2>1, DeviceShrinks
    <2>3. home' = home /\ \A b \in Target : homeM'[b] = {home'[b]}
      BY <2>1 DEF Flush
    <2>4. home[S0] = sb /\ S0 \in Target
      BY <1>a, <2>1 DEF SealedWith, Target
    <2>5. GenKept(homeM', sb.generation)
      BY <1>c, <2>3, <2>4 DEF GenKept
    <2> QED
      BY <1>a, <2>1, <2>2, <2>3, <2>5, ShrinkGens
  <1>8. CASE nsfs_clear_journal_write
    <2>1. /\ homeM' = homeM /\ UNCHANGED <<orig, sb, entries>>
          /\ pc = "clear" /\ pc' = "clearflush"
      BY <1>8 DEF nsfs_clear_journal_write, WriteHeader, fs
    <2> QED
      BY <1>a, <2>1
  <1>9. CASE nsfs_clear_journal_flush
    <2>1. /\ Flush /\ UNCHANGED <<orig, sb>>
          /\ pc = "clearflush" /\ pc' = "idle"
      BY <1>9 DEF nsfs_clear_journal_flush
    <2>2. Shrinks(homeM, homeM')
      BY <1>0, <2>1, DeviceShrinks
    <2> QED
      BY <1>a, <2>1, <2>2, ShrinkGens
  <1> QED
    BY <1>1, <1>2, <1>3, <1>4, <1>5, <1>6, <1>7, <1>8, <1>9 DEF CommitStep

LEMMA GMountStep == IInv /\ GInv /\ MountStep => GMem'
  <1> SUFFICES ASSUME IInv, GInv, MountStep PROVE GMem'
    OBVIOUS
  <1>0. DevType /\ MemType /\ ReadSurvives /\ HeaderQuiet /\ CInv
    BY TypeParts DEF IInv, JInv
  <1>a. HomesPlaced /\ ReadTop
    BY DEF GInv
  <1>b. entries \in Seq(Entry) /\ Len(entries) \in 0..Len(entries)
    BY <1>0 DEF MemType
  <1> USE DEF GMem, EntriesSealed, SuperTop, OrigTop, PairWritten, HomesPlaced,
              Acked, Serving, BeforeBarrier, AfterBarrier
  <1>1. CASE nsfs_recover_write_homes
    <2>1. /\ WriteHomes(entries, Len(entries)) /\ entries' = entries
          /\ pc = "rhomes" /\ pc' = "rflush"
      BY <1>1 DEF nsfs_recover_write_homes, fs
    <2>2. /\ \A h \in hdrM : h.state = "COMMITTED" /\ h.entries = entries
          /\ hdr \in hdrM
      BY <1>0, <2>1 DEF HeaderQuiet, ReadSurvives
    <2>3. PICK x \in Nat : Redo(homeM, entries, x)
      BY <1>0, <2>2 DEF CInv, CommittedRedoable, Redoable
    <2>4. \A i \in DOMAIN entries : home'[entries[i].block] = entries[i].image
      BY <1>b, <2>1, <2>3, HomesInstalled DEF Redo
    <2> QED
      BY <2>1, <2>4
  <1>2. CASE nsfs_recover_flush
    <2>1. /\ Flush /\ entries' = entries /\ pc = "rflush" /\ pc' = "rclear"
      BY <1>2 DEF nsfs_recover_flush, fs
    <2>2. home' = home /\ \A b \in Target : homeM'[b] = {home'[b]}
      BY <2>1 DEF Flush
    <2> QED
      BY <1>a, <2>1, <2>2
  <1>3. CASE nsfs_recover_clear_write
    BY <1>3 DEF nsfs_recover_clear_write
  <1>4. CASE nsfs_recover_clear_flush
    BY <1>4 DEF nsfs_recover_clear_flush
  <1>5. CASE nsfs_mount_finish
    <2>1. homeM' = homeM /\ ro' = ro /\ hdr.state = "EMPTY"
      BY <1>0, <1>5 DEF nsfs_mount_finish, device, HeaderQuiet
    <2>2. \/ pc' = "off"
          \/ pc' = "idle" /\ ro
          \/ pc' = "sb1" /\ sb' = SealPair(nsfs_read_superblocks, "DIRTY")
      BY <1>5 DEF nsfs_mount_finish
    <2>3. \A b \in {S0, S1} : home[b].generation <= nsfs_read_superblocks.generation
                              /\ nsfs_read_superblocks.generation \in Nat
      BY <1>0, SuperTypes DEF nsfs_read_superblocks
    <2>4. SealPair(nsfs_read_superblocks, "DIRTY").generation
            = nsfs_read_superblocks.generation + 1
      BY DEF SealPair
    <2>5. \A b \in {S0, S1} : \A s \in homeM[b] :
             /\ s.generation \in Nat /\ home[b].generation \in Nat
             /\ s.generation <= home[b].generation
      BY <1>0, <1>a, <2>1, SuperTypes DEF ReadTop
    <2>6. pc' = "sb1" => GenBelow(homeM', sb'.generation)
      BY <2>1, <2>2, <2>3, <2>4, <2>5 DEF GenBelow, Supers
    <2> QED
      BY <2>1, <2>2, <2>6
  <1> QED
    BY <1>1, <1>2, <1>3, <1>4, <1>5 DEF MountStep

LEMMA GPairStep == IInv /\ GInv /\ (PairStep \/ nsfs_unmount_flush) => GMem'
  <1> SUFFICES ASSUME IInv, GInv, PairStep \/ nsfs_unmount_flush PROVE GMem'
    OBVIOUS
  <1>0. DevType /\ MemType /\ ReadSurvives /\ HeaderQuiet
    BY TypeParts DEF IInv, JInv
  <1>a. SuperTop /\ PairWritten /\ Acked
    BY DEF GInv
  <1>b. sb.generation \in Nat /\ S0 \in Target /\ S1 \in Target /\ S0 # S1
    BY <1>0, SuperTypes, BlockAssumption DEF Target
  <1>c. ASSUME NEW b \in {S0, S1}, WriteSuper(b, sb), GenBelow(homeM, sb.generation)
        PROVE  /\ GenBelow(homeM', sb.generation) /\ home'[b] = sb
               /\ \A c \in {S0, S1} \ {b} : home'[c] = home[c]
    <2>1. \A c \in {S0, S1} : homeM'[c] \subseteq homeM[c] \cup {sb}
      BY <1>0, <1>b, <1>c DEF WriteSuper, DevType
    <2> QED
      BY <1>0, <1>b, <1>c, <2>1 DEF GenBelow, Supers, WriteSuper, DevType
  <1> USE DEF GMem, EntriesSealed, SuperTop, OrigTop, PairWritten, HomesPlaced,
              Acked, Serving, BeforeBarrier, AfterBarrier
  <1>1. CASE nsfs_write_super_pair_write(S1, "sb1", "sb1flush")
    <2>1. WriteSuper(S1, sb) /\ sb' = sb /\ pc = "sb1" /\ pc' = "sb1flush"
      BY <1>1 DEF nsfs_write_super_pair_write, fs
    <2> QED
      BY <1>a, <1>c, <2>1
  <1>2. CASE nsfs_write_super_pair_write(S0, "sb0", "sb0flush")
    <2>1. WriteSuper(S0, sb) /\ sb' = sb /\ pc = "sb0" /\ pc' = "sb0flush"
      BY <1>2 DEF nsfs_write_super_pair_write, fs
    <2> QED
      BY <1>a, <1>b, <1>c, <2>1
  <1>3. CASE nsfs_write_super_pair_flush1
    <2>1. Flush /\ home' = home /\ sb' = sb /\ pc = "sb1flush" /\ pc' = "sb0"
      BY <1>3 DEF nsfs_write_super_pair_flush1, Flush, fs
    <2>2. Shrinks(homeM, homeM')
      BY <1>0, <2>1, DeviceShrinks
    <2> QED
      BY <1>a, <2>1, <2>2, ShrinkGens
  <1>4. CASE nsfs_write_super_pair_flush0
    <2>1. /\ Flush /\ home' = home /\ sb' = sb
          /\ pc = "sb0flush" /\ pc' \in {"idle", "uflush"}
      BY <1>4 DEF nsfs_write_super_pair_flush0, Flush
    <2>2. Shrinks(homeM, homeM')
      BY <1>0, <2>1, DeviceShrinks
    <2>3. homeM'[S0] = {sb}
      BY <1>a, <1>b, <2>1 DEF Flush
    <2>4. GenKept(homeM', sb.generation)
      BY <1>b, <2>3 DEF GenKept
    <2> QED
      BY <1>a, <2>1, <2>2, <2>4, ShrinkGens
  <1>5. CASE nsfs_unmount_flush
    <2>1. /\ pc = "uflush" /\ pc' \in {"off", "idle"}
          /\ UNCHANGED <<ro, sb, poisoned>>
          /\ Flush \/ UNCHANGED device
      BY <1>5 DEF nsfs_unmount_flush, fs
    <2>2. Shrinks(homeM, homeM')
      BY <1>0, <2>1, DeviceShrinks DEF device
    <2> QED
      BY <1>a, <2>1, <2>2, ShrinkGens
  <1> QED
    BY <1>1, <1>2, <1>3, <1>4, <1>5 DEF PairStep

LEMMA GCall == IInv /\ GInv /\ Call => GMem'
  <1> SUFFICES ASSUME IInv, GInv, Call PROVE GMem'
    OBVIOUS
  <1>0. DevType /\ MemType /\ ReadSurvives
    BY TypeParts DEF IInv, JInv
  <1>a. SuperTop /\ OrigTop /\ Acked
    BY DEF GInv
  <1>b. sb.generation \in Nat /\ orig.generation \in Nat
    BY <1>0, SuperTypes
  <1> USE DEF GMem, EntriesSealed, SuperTop, OrigTop, PairWritten, HomesPlaced,
              Acked, Serving, BeforeBarrier, AfterBarrier
  <1>1. ASSUME NEW r \in BOOLEAN, NEW c \in BOOLEAN, nsfs_mount(r, c)
        PROVE  GMem'
    <2>1. pc' \in {"off", "reread", "rhomes"}
      BY <1>1 DEF nsfs_mount
    <2> QED
      BY <2>1
  <1>2. ASSUME NEW blocks \in Footprint, nsfs_tx_begin(blocks)
        PROVE  GMem'
    <2>1. /\ homeM' = homeM /\ orig' = sb /\ pc = "idle" /\ ~poisoned /\ ~ro
          /\ pc' = "staged"
      BY <1>2 DEF nsfs_tx_begin, device
    <2>2. sb'.generation = sb.generation
      BY <1>0, <1>2 DEF nsfs_tx_begin, MemType, Superblock
    <2> QED
      BY <1>a, <2>1, <2>2
  <1>3. CASE nsfs_tx_abort
    <2>1. homeM' = homeM /\ sb' = orig /\ pc = "staged" /\ pc' = "idle"
      BY <1>3 DEF nsfs_tx_abort, nsfs_tx_release, device
    <2> QED
      BY <1>a, <2>1
  <1>4. CASE nsfs_sync
    <2>1. /\ pc = "idle" /\ pc' = "idle" /\ UNCHANGED <<ro, sb, poisoned>>
          /\ Flush \/ UNCHANGED device
      BY <1>4 DEF nsfs_sync, fs
    <2>2. Shrinks(homeM, homeM')
      BY <1>0, <2>1, DeviceShrinks DEF device
    <2> QED
      BY <1>a, <2>1, <2>2, ShrinkGens
  <1>5. CASE nsfs_unmount
    <2>1. /\ homeM' = homeM /\ pc = "idle" /\ ~poisoned /\ UNCHANGED <<ro, poisoned>>
          /\ \/ ro /\ pc' = "uflush"
             \/ ~ro /\ pc' = "sb1" /\ sb'.generation = sb.generation + 1
      BY <1>5 DEF nsfs_unmount, device, SealPair
    <2>2. ~ro => GenBelow(homeM, sb.generation + 1)
      BY <1>0, <1>a, <1>b, <2>1, SuperTypes DEF GenBelow, Supers
    <2> QED
      BY <2>1, <2>2
  <1>6. CASE nsfs_abandon
    BY <1>6 DEF nsfs_abandon
  <1> QED
    BY <1>1, <1>2, <1>3, <1>4, <1>5, <1>6 DEF Call

LEMMA GDeviceError ==
    ASSUME CommitRecordReliable
    PROVE  IInv /\ GInv /\ DeviceError => GMem'
  <1> SUFFICES ASSUME IInv, GInv, DeviceError PROVE GMem'
    OBVIOUS
  <1>a. OrigTop
    BY DEF GInv
  <1> USE DEF GMem, EntriesSealed, SuperTop, OrigTop, PairWritten, HomesPlaced,
              Acked, Serving, BeforeBarrier, AfterBarrier
  <1>1. CASE nsfs_tx_failed_before_commit
    <2>1. /\ pc \in {"images", "imgflush", "header"} /\ pc' = "idle"
          /\ homeM' = homeM /\ sb' = orig
      BY <1>1 DEF nsfs_tx_failed_before_commit, nsfs_tx_release, Fault,
         CommitRecordReliable, device, WriteSlots
    <2> QED
      BY <1>a, <2>1
  <1>2. CASE nsfs_tx_failed_after_commit
    BY <1>2 DEF nsfs_tx_failed_after_commit
  <1>3. CASE nsfs_recover_fail
    BY <1>3 DEF nsfs_recover_fail
  <1>4. CASE nsfs_write_super_pair_fail
    <2>1. pc' \in {"off", "idle"} /\ poisoned' = TRUE
      BY <1>4 DEF nsfs_write_super_pair_fail
    <2> QED
      BY <2>1
  <1> QED
    BY <1>1, <1>2, <1>3, <1>4 DEF DeviceError

\* Everything an implementation of the store rests on.
SInv == IInv /\ GInv /\ RInv

LEMMA SNext ==
    ASSUME CommitRecordReliable
    PROVE  SInv /\ [Next]_vars => SInv'
  <1>1. ASSUME SInv, UNCHANGED vars PROVE GInv' /\ RInv'
    <2>1. UNCHANGED <<home, homeM, hdr, hdrM, pc, ro, sb, orig, entries, poisoned>>
      BY <1>1 DEF vars, device, fs
    <2>2. GInv /\ RInv
      BY <1>1 DEF SInv
    <2>3. GInv'
      BY <2>1, <2>2 DEF GInv, HeadersSealed, EntriesSealed, SuperTop, OrigTop,
         ReadTop, PairWritten, HomesPlaced, Acked, Serving
    <2>4. RInv'
      BY <2>1, <2>2 DEF RInv, HomeSettled, OthersSettled, ClearedInstalled, MayBeEmpty
    <2> QED
      BY <2>3, <2>4
  <1>2. ASSUME SInv, Next PROVE SInv'
    <2>1. IInv'
      BY <1>2, CNext DEF SInv
    <2>2. DevType'
      BY <2>1, TypePartsNext DEF IInv, JInv
    <2>3. pc' = "off" => GMem'
      BY DEF GMem, EntriesSealed, SuperTop, OrigTop, PairWritten, HomesPlaced,
         Acked, Serving, BeforeBarrier, AfterBarrier
    <2>4. GMem'
      BY <1>2, <2>3, GCommitStep, GMountStep, GPairStep, GCall, GDeviceError
         DEF SInv, Next, Crash
    <2>5. HeadersSealed' /\ ReadTop'
      BY <1>2, <2>2, GHeaders DEF SInv
    <2>6. RInv'
      BY <1>2, RNext DEF SInv
    <2> QED
      BY <2>1, <2>4, <2>5, <2>6 DEF SInv, GInv, GMem
  <1> QED
    BY <1>1, <1>2, CNext DEF SInv

LEMMA SCorrect ==
    ASSUME CommitRecordReliable
    PROVE  Spec => []SInv
  <1>1. Init => SInv
    BY JInit, CInit, GInit, RInit DEF SInv, IInv
  <1> QED
    BY <1>1, SNext, PTL DEF Spec

----------------------------------------------------------------------------
\* The generation that a mount is certain to find.

Least(S) == CHOOSE g \in S : \A x \in S : g <= x

CopyGen(m, b) == Least({s.generation : s \in m[b]})

FoundGen(m, h) ==
    IF h.state = "COMMITTED" THEN LastImage(h.entries).generation
    ELSE IF CopyGen(m, S0) >= CopyGen(m, S1) THEN CopyGen(m, S0)
    ELSE CopyGen(m, S1)

CertainOf(m, H) == Least({FoundGen(m, h) : h \in H})

\* Every header that may survive leads a mount to generation g or a later one.
Assured(m, H, g) ==
    \A h \in H : IF h.state = "COMMITTED" THEN LastImage(h.entries).generation >= g
                 ELSE GenKept(m, g)

LEMMA CertainIs ==
    /\ CertainGeneration = CertainOf(homeM, hdrM)
    /\ CertainGeneration' = CertainOf(homeM', hdrM')
  BY DEF CertainGeneration, CertainOf, FoundGen, CopyGen, Least, LastImage

\* A set of natural numbers has a least element, which Least chooses.
LEMMA LeastExists ==
    ASSUME NEW S, S \subseteq Nat, S # {}
    PROVE  Least(S) \in S /\ \A x \in S : Least(S) <= x
  <1> DEFINE R == {p \in Nat \X Nat : p[1] < p[2]}
  <1>1. IsWellFoundedOn(R, Nat)
    BY NatLessThanWellFounded DEF OpToRel
  <1>2. \A x, g \in Nat : x < g => <<x, g>> \in R
    OBVIOUS
  <1> HIDE DEF R
  <1>3. PICK g \in S : \A x \in S : ~(<<x, g>> \in R)
    BY <1>1, WFMin
  <1>4. \A x \in S : ~(x < g)
    BY <1>2, <1>3
  <1>5. \A x \in S : g <= x
    BY <1>4
  <1> QED
    BY <1>5 DEF Least

LEMMA LeastAbove ==
    ASSUME NEW S, S \subseteq Nat, S # {}, NEW g \in Nat
    PROVE  Least(S) \in Nat /\ (Least(S) >= g <=> \A x \in S : x >= g)
  <1>1. Least(S) \in S /\ \A x \in S : Least(S) <= x
    BY LeastExists
  <1>2. Least(S) \in Nat
    BY <1>1
  <1>3. \A x \in S : x \in Nat
    OBVIOUS
  <1> QED
    BY <1>1, <1>2, <1>3

LEMMA CertainMeans ==
    ASSUME NEW m, NEW H, H # {},
           \A b \in {S0, S1} : m[b] # {} /\ \A s \in m[b] : s.generation \in Nat,
           \A h \in H : h.state = "COMMITTED" => LastImage(h.entries).generation \in Nat,
           NEW g \in Nat
    PROVE  CertainOf(m, H) \in Nat /\ (CertainOf(m, H) >= g <=> Assured(m, H, g))
  <1>1. ASSUME NEW b \in {S0, S1}
        PROVE  /\ CopyGen(m, b) \in Nat
               /\ CopyGen(m, b) >= g <=> \A s \in m[b] : s.generation >= g
    <2> DEFINE G == {s.generation : s \in m[b]}
    <2>1. G \subseteq Nat /\ G # {}
      OBVIOUS
    <2>2. Least(G) \in Nat /\ (Least(G) >= g <=> \A x \in G : x >= g)
      BY <2>1, LeastAbove
    <2> QED
      BY <2>2 DEF CopyGen
  <1>2. ASSUME NEW h \in H
        PROVE  /\ FoundGen(m, h) \in Nat
               /\ FoundGen(m, h) >= g <=>
                    IF h.state = "COMMITTED" THEN LastImage(h.entries).generation >= g
                    ELSE GenKept(m, g)
    <2>1. GenKept(m, g) <=> CopyGen(m, S0) >= g \/ CopyGen(m, S1) >= g
      BY <1>1 DEF GenKept
    <2>2. CopyGen(m, S0) \in Nat /\ CopyGen(m, S1) \in Nat
      BY <1>1
    <2> QED
      BY <2>1, <2>2 DEF FoundGen
  <1> DEFINE F == {FoundGen(m, h) : h \in H}
  <1>3. F \subseteq Nat /\ F # {}
    BY <1>2
  <1>4. Least(F) \in Nat /\ (Least(F) >= g <=> \A x \in F : x >= g)
    BY <1>3, LeastAbove
  <1> QED
    BY <1>2, <1>4 DEF CertainOf, Assured

\* The facts CertainMeans needs hold in every reachable state.
MediaTyped ==
    /\ hdrM # {}
    /\ \A b \in {S0, S1} : homeM[b] # {} /\ \A s \in homeM[b] : s.generation \in Nat
    /\ \A h \in hdrM : h.state = "COMMITTED" => LastImage(h.entries).generation \in Nat

LEMMA MediaTypes == JInv /\ HeadersSealed => MediaTyped
  <1> SUFFICES ASSUME JInv, HeadersSealed PROVE MediaTyped
    OBVIOUS
  <1>1. DevType /\ ReadSurvives
    BY TypeParts DEF JInv
  <1>2. ASSUME NEW h \in hdrM, h.state = "COMMITTED"
        PROVE  LastImage(h.entries).generation \in Nat
    <2>1. SealedWith(h.entries, LastImage(h.entries))
      BY <1>2 DEF HeadersSealed
    <2>2. Len(h.entries) \in DOMAIN h.entries /\ h.entries[Len(h.entries)].block = S0
      BY <2>1 DEF SealedWith
    <2>3. h.entries[Len(h.entries)] \in Entry
      BY <1>1, <1>2, <2>2, EntryIsSlot
    <2>4. LastImage(h.entries) \in Superblock
      BY <2>2, <2>3, ImageTypes DEF LastImage
    <2> QED
      BY <2>4 DEF Superblock
  <1>3. S0 \in Target /\ S1 \in Target
    BY DEF Target
  <1> QED
    BY <1>1, <1>2, <1>3, SuperTypes DEF ReadSurvives, MediaTyped

LEMMA MediaTypesNext == JInv' /\ HeadersSealed' => MediaTyped'
  BY MediaTypes, PTL

LEMMA AckedIsCertain == SInv => AcknowledgedIsDurable
  <1> SUFFICES ASSUME SInv, pc \in {"idle", "uflush"}, ~poisoned, ~ro
               PROVE  CertainGeneration >= sb.generation
    BY DEF AcknowledgedIsDurable
  <1>1. MemType /\ JInv /\ HeadersSealed /\ HeaderQuiet /\ Acked
    BY TypeParts DEF SInv, IInv, JInv, GInv
  <1>2. GenKept(homeM, sb.generation)
    BY <1>1 DEF Acked, Serving
  <1>3. \A h \in hdrM : h.state = "EMPTY"
    BY <1>1 DEF HeaderQuiet, Quiet
  <1>4. Assured(homeM, hdrM, sb.generation)
    BY <1>2, <1>3 DEF Assured
  <1>5. sb.generation \in Nat
    BY <1>1, SuperTypes
  <1> QED
    BY <1>1, <1>4, <1>5, MediaTypes, CertainIs, CertainMeans DEF MediaTyped

\* What nsfs_tx_commit, nsfs_mount or nsfs_unmount reported as done survives:
\* between calls, no power cut and no replay of an older record can bring back
\* an older superblock than the one in memory, for every size of the journal
\* and every set of device errors that spares the commit record.
THEOREM AcknowledgedSurvives ==
    ASSUME CommitRecordReliable
    PROVE  Spec => []AcknowledgedIsDurable
  BY SCorrect, AckedIsCertain, PTL

\* No step gives up a generation that was certain.
LEMMA AssuredKept ==
    ASSUME CommitRecordReliable, SInv, Next, NEW g \in Nat,
           Assured(homeM, hdrM, g)
    PROVE  Assured(homeM', hdrM', g)
  <1>0. DevType /\ MemType /\ JInv /\ ReadSurvives /\ HeaderQuiet
    BY TypeParts DEF SInv, IInv, JInv
  <1>a. HeadersSealed /\ EntriesSealed /\ SuperTop /\ HomesPlaced
    BY DEF SInv, GInv
  <1>b. MediaTyped /\ sb.generation \in Nat
    BY <1>0, <1>a, MediaTypes, SuperTypes
  <1>c. S0 \in Target /\ S1 \in Target
    BY DEF Target
  <1>1. CASE Flush \/ Crash
    <2>1. hdrM' \subseteq hdrM
      BY <1>0, <1>1 DEF Flush, Crash, ReadSurvives
    <2>2. Shrinks(homeM, homeM')
      BY <1>0, <1>1, DeviceShrinks
    <2> QED
      BY <2>1, <2>2, ShrinkGens DEF Assured
  <1>2. CASE Commits
    <2>1. hdrM' = hdrM \cup {CommitHeader} /\ homeM' = homeM
      BY <1>2 DEF Commits, WriteHeader
    <2>2. GenKept(homeM, g)
      BY <1>0, <1>2 DEF Commits, HeaderQuiet, Quiet, ReadSurvives, Assured
    <2>3. GenBelow(homeM, sb.generation) /\ SealedWith(entries, sb)
      BY <1>2, <1>a DEF Commits, SuperTop, EntriesSealed, BeforeBarrier
    <2>4. sb.generation >= g
      BY <1>b, <2>2, <2>3 DEF GenKept, GenBelow, Supers, MediaTyped
    <2>5. /\ CommitHeader.entries = entries /\ CommitHeader.state = "COMMITTED"
          /\ LastImage(entries) = sb
      BY <2>3 DEF CommitHeader, SealedWith, LastImage
    <2> QED
      BY <2>1, <2>4, <2>5 DEF Assured
  <1>3. CASE Rests
    BY <1>3 DEF Rests
  <1>4. ASSUME NEW b \in {S0, S1}, Marks(b) PROVE Assured(homeM', hdrM', g)
    <2>1. hdrM' = hdrM /\ homeM' = [homeM EXCEPT ![b] = @ \cup {sb}]
      BY <1>4 DEF Marks, WriteSuper
    <2>2. \A c \in {S0, S1} : homeM'[c] \subseteq homeM[c] \cup {sb}
                              /\ (c # b => homeM'[c] = homeM[c])
      BY <1>0, <1>c, <2>1 DEF DevType
    <2>3. GenBelow(homeM, sb.generation)
      BY <1>4, <1>a DEF Marks, SuperTop
    <2>4. ASSUME GenKept(homeM, g) PROVE GenKept(homeM', g)
      <3>1. PICK c \in {S0, S1} : \A s \in homeM[c] : s.generation >= g
        BY <2>4 DEF GenKept
      <3>2. sb.generation >= g
        BY <1>b, <2>3, <3>1 DEF GenBelow, Supers, MediaTyped
      <3> QED
        BY <2>2, <3>1, <3>2 DEF GenKept
    <2> QED
      BY <2>1, <2>4 DEF Assured
  <1>5. ASSUME NEW t, Clears(t) PROVE Assured(homeM', hdrM', g)
    <2>1. hdrM' = hdrM \cup {EmptyHeader(t)} /\ homeM' = homeM
      BY <1>5 DEF Clears, WriteHeader
    <2>2. /\ hdrM = {hdr} /\ hdr.state = "COMMITTED" /\ entries = hdr.entries
          /\ homeM[S0] = {home[S0]}
          /\ \A i \in DOMAIN entries : home[entries[i].block] = entries[i].image
      BY <1>0, <1>a, <1>c, <1>5 DEF Clears, HeaderQuiet, HomesPlaced, ReadSurvives
    <2>3. home[S0] = LastImage(entries)
      BY <1>a, <2>2 DEF HeadersSealed, SealedWith, LastImage
    <2>4. LastImage(entries).generation >= g
      BY <2>2 DEF Assured
    <2>5. GenKept(homeM, g)
      BY <2>2, <2>3, <2>4 DEF GenKept
    <2> QED
      BY <2>1, <2>5 DEF Assured, EmptyHeader
  <1>6. ASSUME NEW k \in 0..Len(entries), Installs(k)
        PROVE  Assured(homeM', hdrM', g)
    <2>1. hdrM' = hdrM /\ \A h \in hdrM : h.state = "COMMITTED"
      BY <1>0, <1>6 DEF Installs, WriteHomes, HeaderQuiet
    <2> QED
      BY <2>1 DEF Assured
  <1> QED
    BY <1>1, <1>2, <1>3, <1>4, <1>5, <1>6, DeviceSteps

LEMMA CertainStep ==
    ASSUME CommitRecordReliable
    PROVE  SInv /\ [Next]_vars => CertainGeneration' >= CertainGeneration
  <1> SUFFICES ASSUME SInv, [Next]_vars
               PROVE  CertainGeneration' >= CertainGeneration
    OBVIOUS
  <1>1. MediaTyped /\ MediaTyped'
    BY MediaTypes, MediaTypesNext, SNext DEF SInv, IInv, GInv
  <1> DEFINE g == CertainOf(homeM, hdrM)
  <1>2. g \in Nat
    BY <1>1, CertainMeans DEF MediaTyped
  <1>3. Assured(homeM, hdrM, g)
    BY <1>1, <1>2, CertainMeans DEF MediaTyped
  <1>4. Assured(homeM', hdrM', g)
    <2>1. CASE Next
      BY <1>2, <1>3, <2>1, AssuredKept
    <2>2. CASE UNCHANGED vars
      BY <1>3, <2>2 DEF vars, device
    <2> QED
      BY <2>1, <2>2
  <1>5. CertainOf(homeM', hdrM') >= g
    BY <1>1, <1>2, <1>4, CertainMeans DEF MediaTyped
  <1> QED
    BY <1>5, CertainIs

\* The superblock generation a mount is certain to arrive at never goes back,
\* whatever step of a commit, a mount, a replay, an unmount or a failure is
\* taken: the pair is written one copy at a time, and a record is cleared only
\* over home blocks that hold what it would install.
THEOREM CertainGenerationGrows ==
    ASSUME CommitRecordReliable
    PROVE  Spec => GenerationNeverRegresses
  <1>1. SInv /\ [Next]_vars => [CertainGeneration' >= CertainGeneration]_vars
    BY CertainStep
  <1> QED
    BY <1>1, SCorrect, PTL DEF Spec, GenerationNeverRegresses

----------------------------------------------------------------------------
\* Clean superblocks.

LEMMA ShrinkDirty ==
    ASSUME NEW m, NEW n, Shrinks(m, n), \A s \in Supers(m) : s.state = "DIRTY"
    PROVE  \A s \in Supers(n) : s.state = "DIRTY"
  BY DEF Shrinks, Supers

LEMMA DInit == Init => DInv
  BY DEF Init, nsfs_format, EmptyHeader, DInv, DirtyWhileNeeded, NeedsDirty,
     PairGoal, BeforeBarrier, AfterBarrier

\* A barrier, or a step that leaves the device alone, needs no new superblock
\* to be dirty unless the filesystem starts to serve.
LEMMA DirtyShrinks ==
    ASSUME DirtyWhileNeeded, Shrinks(homeM, homeM'), NeedsDirty' => NeedsDirty
    PROVE  DirtyWhileNeeded'
  BY ShrinkDirty DEF DirtyWhileNeeded

LEMMA DCommitStep == SInv /\ DInv /\ CommitStep => DInv'
  <1> SUFFICES ASSUME SInv, DInv, CommitStep PROVE DInv'
    OBVIOUS
  <1>0. DevType /\ MemType /\ ReadSurvives /\ HeaderQuiet /\ EntriesSealed
        /\ DirtyWhileNeeded
    BY TypeParts DEF SInv, IInv, JInv, GInv, DInv
  <1>1. NeedsDirty
    BY DEF CommitStep, NeedsDirty, BeforeBarrier, AfterBarrier, nsfs_tx_commit,
       nsfs_tx_write_images, nsfs_tx_flush_images, nsfs_tx_write_commit,
       nsfs_tx_flush_commit, nsfs_tx_write_homes, nsfs_tx_flush_homes,
       nsfs_clear_journal_write, nsfs_clear_journal_flush
  <1>2. PairGoal'
    BY DEF CommitStep, PairGoal, nsfs_tx_commit,
       nsfs_tx_write_images, nsfs_tx_flush_images, nsfs_tx_write_commit,
       nsfs_tx_flush_commit, nsfs_tx_write_homes, nsfs_tx_flush_homes,
       nsfs_clear_journal_write, nsfs_clear_journal_flush
  <1>3. CASE nsfs_tx_write_homes
    <2>1. SealedWith(entries, sb) /\ sb.state = "DIRTY"
          /\ WriteHomes(entries, Len(entries))
      BY <1>0, <1>3 DEF nsfs_tx_write_homes, EntriesSealed
    <2>2. entries \in Seq(Entry) /\ Len(entries) \in 0..Len(entries)
      BY <1>0 DEF MemType
    <2>3. \A b \in {S0, S1} : b \in Target /\ b \notin Home
      BY BlockAssumption DEF Target
    <2>4. \A b \in {S0, S1} : homeM'[b] \subseteq homeM[b] \cup {sb}
      BY <2>1, <2>2, <2>3, SealedWrites DEF WriteHomes
    <2> QED
      BY <1>0, <1>1, <1>2, <2>1, <2>4 DEF DInv, DirtyWhileNeeded, Supers
  <1>4. CASE ~nsfs_tx_write_homes
    <2>1. Flush \/ homeM' = homeM
      BY <1>4 DEF CommitStep, nsfs_tx_commit,
         nsfs_tx_write_images, nsfs_tx_flush_images, nsfs_tx_write_commit,
         nsfs_tx_flush_commit, nsfs_tx_flush_homes,
         nsfs_clear_journal_write, nsfs_clear_journal_flush, device, WriteSlots,
         WriteHeader
    <2>2. Shrinks(homeM, homeM')
      BY <1>0, <2>1, DeviceShrinks
    <2> QED
      BY <1>0, <1>1, <1>2, <2>2, DirtyShrinks DEF DInv
  <1> QED
    BY <1>3, <1>4

LEMMA DMountStep == SInv /\ DInv /\ MountStep => DInv'
  <1> SUFFICES ASSUME SInv, DInv, MountStep PROVE DInv'
    OBVIOUS
  <1>0. DevType /\ MemType /\ ReadSurvives /\ HeaderQuiet /\ HeadersSealed
        /\ DirtyWhileNeeded
    BY TypeParts DEF SInv, IInv, JInv, GInv, DInv
  <1>1. CASE nsfs_recover_write_homes
    <2>1. /\ WriteHomes(entries, Len(entries)) /\ hdrM' = hdrM
          /\ pc = "rhomes" /\ pc' = "rflush"
      BY <1>1 DEF nsfs_recover_write_homes, WriteHomes
    <2>2. /\ hdr \in hdrM /\ hdr.state = "COMMITTED" /\ entries = hdr.entries
      BY <1>0, <2>1 DEF HeaderQuiet, ReadSurvives
    <2>3. /\ SealedWith(entries, LastImage(entries))
          /\ LastImage(entries).state = "DIRTY"
      BY <1>0, <2>2 DEF HeadersSealed
    <2>4. entries \in Seq(Entry) /\ Len(entries) \in 0..Len(entries)
      BY <1>0 DEF MemType
    <2>5. \A b \in {S0, S1} : b \in Target /\ b \notin Home
      BY BlockAssumption DEF Target
    <2>6. \A b \in {S0, S1} : homeM'[b] \subseteq homeM[b] \cup {LastImage(entries)}
      BY <2>1, <2>3, <2>4, <2>5, SealedWrites DEF WriteHomes
    <2>7. NeedsDirty
      BY <2>2 DEF NeedsDirty
    <2> QED
      BY <1>0, <2>1, <2>3, <2>6, <2>7 DEF DInv, DirtyWhileNeeded, PairGoal, Supers
  <1>2. CASE nsfs_recover_flush \/ nsfs_recover_clear_flush
    <2>1. Flush /\ pc' \in {"rclear", "reread"} /\ hdrM' \subseteq hdrM
      BY <1>0, <1>2 DEF nsfs_recover_flush, nsfs_recover_clear_flush, Flush, ReadSurvives
    <2>2. Shrinks(homeM, homeM')
      BY <1>0, <2>1, DeviceShrinks
    <2>3. NeedsDirty' => NeedsDirty
      BY <2>1 DEF NeedsDirty, BeforeBarrier, AfterBarrier
    <2> QED
      BY <1>0, <2>1, <2>2, <2>3, DirtyShrinks DEF DInv, PairGoal
  <1>3. CASE nsfs_recover_clear_write
    <2>1. /\ homeM' = homeM /\ hdrM' = hdrM \cup {EmptyHeader(hdr.txid)}
          /\ EmptyHeader(hdr.txid).state # "COMMITTED" /\ pc' = "rclearflush"
      BY <1>3 DEF nsfs_recover_clear_write, WriteHeader, EmptyHeader
    <2>2. Shrinks(homeM, homeM')
      BY <1>0, <2>1, DeviceShrinks
    <2>3. NeedsDirty' => NeedsDirty
      BY <2>1 DEF NeedsDirty, BeforeBarrier, AfterBarrier
    <2> QED
      BY <1>0, <2>1, <2>2, <2>3, DirtyShrinks DEF DInv, PairGoal
  <1>4. CASE nsfs_mount_finish
    <2>1. /\ homeM' = homeM /\ hdrM' = hdrM /\ ro' = ro
          /\ \/ pc' = "off"
             \/ pc' = "idle" /\ ro
             \/ pc' = "sb1" /\ sb'.state = "DIRTY" /\ goal' = "mount"
      BY <1>4 DEF nsfs_mount_finish, device, SealPair
    <2>2. Shrinks(homeM, homeM')
      BY <1>0, <2>1, DeviceShrinks
    <2>3. NeedsDirty' => NeedsDirty
      BY <2>1 DEF NeedsDirty, BeforeBarrier, AfterBarrier
    <2> QED
      BY <1>0, <2>1, <2>2, <2>3, DirtyShrinks DEF DInv, PairGoal
  <1> QED
    BY <1>1, <1>2, <1>3, <1>4 DEF MountStep

\* Marking a superblock while a pair is written.
LEMMA MarkDirty ==
    ASSUME SInv, DInv, NEW b \in {S0, S1}, Marks(b), NeedsDirty' => NeedsDirty,
           goal = "unmount" => ~NeedsDirty'
    PROVE  DirtyWhileNeeded'
  <1>1. DevType /\ MemType /\ DirtyWhileNeeded /\ PairGoal
    BY TypeParts DEF SInv, IInv, JInv, DInv
  <1>2. S0 \in Target /\ S1 \in Target
    BY DEF Target
  <1>3. \A c \in {S0, S1} : homeM'[c] \subseteq homeM[c] \cup {sb}
    BY <1>1, <1>2 DEF Marks, WriteSuper, DevType
  <1>4. goal = "mount" => sb.state = "DIRTY"
    BY <1>1 DEF Marks, PairGoal
  <1>5. goal \in {"mount", "unmount"}
    BY <1>1 DEF MemType
  <1> QED
    BY <1>1, <1>3, <1>4, <1>5 DEF DirtyWhileNeeded, Supers

LEMMA DPairStep ==
    ASSUME UnmountFlushReliable
    PROVE  SInv /\ DInv /\ (PairStep \/ nsfs_unmount_flush) => DInv'
  <1> SUFFICES ASSUME SInv, DInv, PairStep \/ nsfs_unmount_flush PROVE DInv'
    OBVIOUS
  <1>0. DevType /\ MemType /\ ReadSurvives /\ HeaderQuiet /\ PairWritten
        /\ DirtyWhileNeeded /\ PairGoal
    BY TypeParts DEF SInv, IInv, JInv, GInv, DInv
  <1> USE DEF BeforeBarrier, AfterBarrier
  <1>1. ASSUME NEW b \in {S0, S1}, NEW from, NEW to,
               from = (IF b = S1 THEN "sb1" ELSE "sb0"),
               to \in {"sb1flush", "sb0flush"},
               nsfs_write_super_pair_write(b, from, to)
        PROVE  DInv'
    <2>1. /\ Marks(b) /\ hdrM' = hdrM /\ pc' \in {"sb1flush", "sb0flush"}
          /\ pc \in {"sb1", "sb0"} /\ UNCHANGED <<sb, goal>>
      BY <1>1 DEF nsfs_write_super_pair_write, Marks, WriteSuper, fs
    <2>2. NeedsDirty' => NeedsDirty
      BY <2>1 DEF NeedsDirty
    <2>3. goal = "unmount" => ~NeedsDirty'
      BY <1>0, <2>1 DEF NeedsDirty, PairGoal
    <2>4. PairGoal'
      BY <1>0, <2>1 DEF PairGoal
    <2> QED
      BY <2>1, <2>2, <2>3, <2>4, MarkDirty DEF DInv
  <1>2. CASE nsfs_write_super_pair_write(S1, "sb1", "sb1flush")
    BY <1>1, <1>2
  <1>3. CASE nsfs_write_super_pair_write(S0, "sb0", "sb0flush")
    BY <1>1, <1>3, BlockAssumption
  <1>4. CASE nsfs_write_super_pair_flush1
    <2>1. /\ Flush /\ pc = "sb1flush" /\ pc' = "sb0" /\ hdrM' \subseteq hdrM
          /\ UNCHANGED <<sb, goal>>
      BY <1>0, <1>4 DEF nsfs_write_super_pair_flush1, Flush, ReadSurvives, fs
    <2>2. Shrinks(homeM, homeM')
      BY <1>0, <2>1, DeviceShrinks
    <2>3. NeedsDirty' => NeedsDirty
      BY <2>1 DEF NeedsDirty
    <2>4. PairGoal'
      BY <1>0, <2>1 DEF PairGoal
    <2> QED
      BY <1>0, <2>2, <2>3, <2>4, DirtyShrinks DEF DInv
  <1>5. CASE nsfs_write_super_pair_flush0
    <2>1. /\ Flush /\ pc = "sb0flush" /\ hdrM' \subseteq hdrM
          /\ pc' = IF goal = "mount" THEN "idle" ELSE "uflush"
      BY <1>0, <1>5 DEF nsfs_write_super_pair_flush0, Flush, ReadSurvives
    <2>2. \A h \in hdrM : h.state # "COMMITTED"
      BY <1>0, <2>1 DEF HeaderQuiet, Quiet
    <2>3. \A b \in {S0, S1} : homeM'[b] = {sb}
      BY <1>0, <2>1 DEF Flush, PairWritten, Target
    <2>4. goal = "mount" => sb.state = "DIRTY"
      BY <1>0, <2>1 DEF PairGoal
    <2>5. NeedsDirty' => goal = "mount"
      BY <2>1, <2>2 DEF NeedsDirty
    <2>6. DirtyWhileNeeded'
      BY <2>3, <2>4, <2>5 DEF DirtyWhileNeeded, Supers
    <2> QED
      BY <2>1, <2>6 DEF DInv, PairGoal
  <1>6. CASE nsfs_unmount_flush
    <2>1. Flush /\ pc' = "off" /\ hdrM' \subseteq hdrM
      BY <1>0, <1>6 DEF nsfs_unmount_flush, Fault, UnmountFlushReliable, Flush, ReadSurvives
    <2>2. Shrinks(homeM, homeM')
      BY <1>0, <2>1, DeviceShrinks
    <2>3. NeedsDirty' => NeedsDirty
      BY <2>1 DEF NeedsDirty
    <2> QED
      BY <1>0, <2>1, <2>2, <2>3, DirtyShrinks DEF DInv, PairGoal
  <1> QED
    BY <1>2, <1>3, <1>4, <1>5, <1>6 DEF PairStep

LEMMA DCall == SInv /\ DInv /\ Call => DInv'
  <1> SUFFICES ASSUME SInv, DInv, Call PROVE DInv'
    OBVIOUS
  <1>0. MemType /\ ReadSurvives /\ HeaderQuiet /\ DirtyWhileNeeded
    BY TypeParts DEF SInv, IInv, JInv, DInv
  <1> USE DEF BeforeBarrier, AfterBarrier
  <1>1. ASSUME NEW r \in BOOLEAN, NEW c \in BOOLEAN, nsfs_mount(r, c)
        PROVE  DInv'
    <2>1. homeM' = homeM /\ hdrM' = hdrM /\ pc' \in {"off", "reread", "rhomes"}
      BY <1>1 DEF nsfs_mount, device
    <2>2. Shrinks(homeM, homeM')
      BY <1>0, <2>1, DeviceShrinks
    <2>3. NeedsDirty' => NeedsDirty
      BY <2>1 DEF NeedsDirty
    <2> QED
      BY <1>0, <2>1, <2>2, <2>3, DirtyShrinks DEF DInv, PairGoal
  <1>2. ASSUME NEW blocks \in Footprint, nsfs_tx_begin(blocks)
        PROVE  DInv'
    <2>1. /\ homeM' = homeM /\ hdrM' = hdrM /\ pc' = "staged"
          /\ pc = "idle" /\ ~poisoned /\ ~ro
      BY <1>2 DEF nsfs_tx_begin, device
    <2>2. Shrinks(homeM, homeM') /\ NeedsDirty
      BY <1>0, <2>1, DeviceShrinks DEF NeedsDirty
    <2> QED
      BY <1>0, <2>1, <2>2, DirtyShrinks DEF DInv, PairGoal
  <1>3. CASE nsfs_tx_abort
    <2>1. homeM' = homeM /\ pc = "staged" /\ pc' = "idle"
      BY <1>3 DEF nsfs_tx_abort, nsfs_tx_release, device
    <2>2. Shrinks(homeM, homeM') /\ NeedsDirty
      BY <1>0, <2>1, DeviceShrinks DEF NeedsDirty
    <2> QED
      BY <1>0, <2>1, <2>2, DirtyShrinks DEF DInv, PairGoal
  <1>4. CASE nsfs_sync
    <2>1. /\ pc = "idle" /\ pc' = "idle" /\ UNCHANGED <<ro, poisoned>>
          /\ Flush \/ UNCHANGED device
      BY <1>4 DEF nsfs_sync, fs
    <2>2. Shrinks(homeM, homeM') /\ hdrM' \subseteq hdrM
      BY <1>0, <2>1, DeviceShrinks DEF device, Flush, ReadSurvives
    <2>3. NeedsDirty' => NeedsDirty
      BY <2>1, <2>2 DEF NeedsDirty
    <2> QED
      BY <1>0, <2>1, <2>2, <2>3, DirtyShrinks DEF DInv, PairGoal
  <1>5. CASE nsfs_unmount
    <2>1. /\ homeM' = homeM /\ hdrM' = hdrM
          /\ pc = "idle" /\ ~poisoned
          /\ \/ pc' = "uflush"
             \/ ~ro /\ pc' = "sb1" /\ goal' = "unmount"
      BY <1>5 DEF nsfs_unmount, device
    <2>2. Shrinks(homeM, homeM')
      BY <1>0, <2>1, DeviceShrinks
    <2>3. NeedsDirty' => NeedsDirty
      BY <2>1 DEF NeedsDirty
    <2>4. PairGoal'
      BY <1>0, <2>1 DEF PairGoal, HeaderQuiet, Quiet
    <2> QED
      BY <1>0, <2>2, <2>3, <2>4, DirtyShrinks DEF DInv
  <1>6. CASE nsfs_abandon
    <2>1. homeM' = homeM /\ hdrM' = hdrM /\ pc' = "off"
      BY <1>6 DEF nsfs_abandon, device
    <2>2. Shrinks(homeM, homeM')
      BY <1>0, <2>1, DeviceShrinks
    <2>3. NeedsDirty' => NeedsDirty
      BY <2>1 DEF NeedsDirty
    <2> QED
      BY <1>0, <2>1, <2>2, <2>3, DirtyShrinks DEF DInv, PairGoal
  <1> QED
    BY <1>1, <1>2, <1>3, <1>4, <1>5, <1>6 DEF Call

\* An error while the images of a record are written to their homes.
LEMMA InstallDirty ==
    ASSUME SInv, DInv, NEW k \in 0..Len(entries), Installs(k)
    PROVE  DirtyWhileNeeded'
  <1>0. DevType /\ MemType /\ ReadSurvives /\ HeaderQuiet /\ HeadersSealed
        /\ DirtyWhileNeeded
    BY TypeParts DEF SInv, IInv, JInv, GInv, DInv
  <1>1. hdr \in hdrM /\ hdr.state = "COMMITTED" /\ entries = hdr.entries
    BY <1>0 DEF Installs, HeaderQuiet, ReadSurvives
  <1>2. SealedWith(entries, LastImage(entries)) /\ LastImage(entries).state = "DIRTY"
    BY <1>0, <1>1 DEF HeadersSealed
  <1>3. \A b \in {S0, S1} : b \in Target /\ b \notin Home
    BY BlockAssumption DEF Target
  <1>4. \A b \in {S0, S1} : homeM'[b] \subseteq homeM[b] \cup {LastImage(entries)}
    BY <1>0, <1>2, <1>3, SealedWrites DEF Installs, WriteHomes, MemType
  <1>5. NeedsDirty
    BY <1>1 DEF NeedsDirty
  <1> QED
    BY <1>0, <1>2, <1>4, <1>5 DEF DirtyWhileNeeded, Supers

LEMMA DDeviceError ==
    ASSUME CommitRecordReliable
    PROVE  SInv /\ DInv /\ DeviceError => DInv'
  <1> SUFFICES ASSUME SInv, DInv, DeviceError PROVE DInv'
    OBVIOUS
  <1>0. MemType /\ ReadSurvives /\ HeaderQuiet /\ DirtyWhileNeeded /\ PairGoal
    BY TypeParts DEF SInv, IInv, JInv, DInv
  <1>a. pc' \in {"off", "idle"}
    BY DEF DeviceError, nsfs_tx_failed_before_commit, nsfs_tx_release,
       nsfs_tx_failed_after_commit, nsfs_recover_fail, nsfs_write_super_pair_fail
  <1>b. PairGoal'
    BY <1>a DEF PairGoal
  <1>c. ASSUME homeM' = homeM, NeedsDirty' => NeedsDirty PROVE DInv'
    BY <1>0, <1>b, <1>c, DeviceShrinks, DirtyShrinks DEF DInv
  <1> USE DEF BeforeBarrier, AfterBarrier
  <1>1. CASE nsfs_tx_failed_before_commit
    <2>1. pc \in {"images", "imgflush", "header"} /\ homeM' = homeM
      BY <1>1 DEF nsfs_tx_failed_before_commit, Fault, CommitRecordReliable,
         device, WriteSlots
    <2> QED
      BY <1>c, <2>1 DEF NeedsDirty
  <1>2. CASE nsfs_tx_failed_after_commit
    <2>1. /\ pc \in AfterBarrier
          /\ \/ homeM' = homeM
             \/ \E k \in 0..Len(entries) : Installs(k)
      BY <1>2 DEF nsfs_tx_failed_after_commit, device, WriteHeader, Installs
    <2> QED
      BY <1>b, <1>c, <2>1, InstallDirty DEF NeedsDirty, DInv
  <1>3. CASE nsfs_recover_fail
    <2>1. /\ pc' = "off"
          /\ \/ homeM' = homeM /\ hdrM' = hdrM
             \/ /\ homeM' = homeM /\ hdrM' = hdrM \cup {EmptyHeader(hdr.txid)}
             \/ \E k \in 0..Len(entries) : Installs(k)
      BY <1>3 DEF nsfs_recover_fail, device, WriteHeader, Installs
    <2>2. EmptyHeader(hdr.txid).state # "COMMITTED"
      BY DEF EmptyHeader
    <2> QED
      BY <1>b, <1>c, <2>1, <2>2, InstallDirty DEF NeedsDirty, DInv
  <1>4. CASE nsfs_write_super_pair_fail
    <2>1. /\ pc \in {"sb1", "sb1flush", "sb0", "sb0flush"} /\ poisoned' = TRUE
          /\ hdrM' = hdrM
          /\ homeM' = homeM \/ \E b \in {S0, S1} : Marks(b)
      BY <1>4, BlockAssumption
         DEF nsfs_write_super_pair_fail, device, WriteSuper, Marks
    <2>2. NeedsDirty' => NeedsDirty
      BY <1>a, <2>1 DEF NeedsDirty
    <2>3. goal = "unmount" => ~NeedsDirty'
      BY <1>0, <1>a, <2>1 DEF NeedsDirty, PairGoal
    <2> QED
      BY <1>b, <1>c, <2>1, <2>2, <2>3, MarkDirty DEF DInv
  <1> QED
    BY <1>1, <1>2, <1>3, <1>4 DEF DeviceError

LEMMA DNext ==
    ASSUME CommitRecordReliable, UnmountFlushReliable
    PROVE  SInv /\ DInv /\ [Next]_vars => DInv'
  <1> SUFFICES ASSUME SInv, DInv, [Next]_vars PROVE DInv'
    OBVIOUS
  <1>0. ReadSurvives /\ DirtyWhileNeeded
    BY DEF SInv, IInv, JInv, DInv
  <1>1. CASE Crash
    <2>1. hdrM' \subseteq hdrM /\ pc' = "off"
      BY <1>1 DEF Crash
    <2>2. Shrinks(homeM, homeM')
      BY <1>0, <1>1, DeviceShrinks
    <2>3. NeedsDirty' => NeedsDirty
      BY <2>1 DEF NeedsDirty, BeforeBarrier, AfterBarrier
    <2> QED
      BY <1>0, <2>1, <2>2, <2>3, DirtyShrinks DEF DInv, PairGoal
  <1>2. CASE UNCHANGED vars
    <2>1. UNCHANGED <<homeM, hdrM, pc, ro, sb, goal, poisoned>>
      BY <1>2 DEF vars, device, fs
    <2> QED
      BY <2>1 DEF DInv, DirtyWhileNeeded, NeedsDirty, PairGoal
  <1> QED
    BY <1>1, <1>2, DCommitStep, DMountStep, DPairStep, DCall, DDeviceError DEF Next

\* A superblock marked clean never stands beside a journal to replay, so a
\* read-only mount of a cleanly unmounted filesystem is not refused with
\* EROFS.  Besides the commit record, the last flush of nsfs_unmount has to be
\* free of errors: the run nsfs_journal_unmount_fault shows the case.
THEOREM CleanIsClean ==
    ASSUME CommitRecordReliable, UnmountFlushReliable
    PROVE  Spec => []CleanNeedsNoReplay
  <1>1. Init => SInv /\ DInv
    BY JInit, CInit, GInit, RInit, DInit DEF SInv, IInv
  <1>2. SInv /\ DInv /\ [Next]_vars => SInv' /\ DInv'
    BY SNext, DNext
  <1>3. Spec => [](SInv /\ DInv)
    BY <1>1, <1>2, PTL DEF Spec
  <1>4. SInv /\ DInv => CleanNeedsNoReplay
    <2> SUFFICES ASSUME SInv, DInv, nsfs_read_superblocks.state = "CLEAN"
                 PROVE  hdr.state = "EMPTY"
      BY DEF CleanNeedsNoReplay
    <2>1. DevType /\ ReadSurvives /\ DirtyWhileNeeded
      BY TypeParts DEF SInv, IInv, JInv, DInv
    <2>2. home[S0] \in homeM[S0] /\ home[S1] \in homeM[S1] /\ hdr \in hdrM
      BY <2>1 DEF ReadSurvives, Target
    <2>3. ~NeedsDirty
      BY <2>1, <2>2 DEF DirtyWhileNeeded, Supers, nsfs_read_superblocks
    <2> QED
      BY <2>1, <2>2, <2>3 DEF NeedsDirty, DevType, JournalHeader
  <1> QED
    BY <1>3, <1>4, PTL

----------------------------------------------------------------------------
\* The refinement of AtomicStore.

\* A commit record that a mount would replay.
Pending == hdr.state = "COMMITTED" /\ pc # "commitflush"

\* The home blocks of d with the images of es in their places.
Over(es, d) ==
    [b \in Home |->
        IF \E i \in DOMAIN es : es[i].block = b
        THEN es[CHOOSE i \in DOMAIN es : es[i].block = b].image
        ELSE d[b]]

Plain(d) == [b \in Home |-> d[b]]

LEMMA ContentsIs ==
    /\ Pending => Contents = Over(hdr.entries, home)
    /\ ~Pending => Contents = Plain(home)
  BY DEF Contents, Over, Plain, Pending

LEMMA ContentsIsNext ==
    /\ Pending' => Contents' = Over(hdr'.entries, home')
    /\ ~Pending' => Contents' = Plain(home')
  BY DEF Contents, Over, Plain, Pending

\* The images of es hide the blocks they replace ...
LEMMA OverHides ==
    ASSUME NEW es, NEW d, NEW e,
           \A b \in Home : (\A i \in DOMAIN es : es[i].block # b) => e[b] = d[b]
    PROVE  Over(es, e) = Over(es, d)
  <1>1. ASSUME NEW b \in Home
        PROVE  (IF \E i \in DOMAIN es : es[i].block = b
                THEN es[CHOOSE i \in DOMAIN es : es[i].block = b].image ELSE e[b])
             = (IF \E i \in DOMAIN es : es[i].block = b
                THEN es[CHOOSE i \in DOMAIN es : es[i].block = b].image ELSE d[b])
    OBVIOUS
  <1> QED
    BY <1>1 DEF Over

\* ... and change nothing once they are in place.
LEMMA OverPlaced ==
    ASSUME NEW es, NEW d,
           \A i \in DOMAIN es : es[i].block \in Home => d[es[i].block] = es[i].image
    PROVE  Over(es, d) = Plain(d)
  <1>1. ASSUME NEW b \in Home, \E i \in DOMAIN es : es[i].block = b
        PROVE  es[CHOOSE i \in DOMAIN es : es[i].block = b].image = d[b]
    <2>1. PICK i \in DOMAIN es : i = CHOOSE j \in DOMAIN es : es[j].block = b
      BY <1>1
    <2>2. es[i].block = b
      BY <1>1, <2>1
    <2> QED
      BY <2>1, <2>2
  <1> QED
    BY <1>1 DEF Over, Plain

\* The entries that concern home blocks, as an update of the store.
AtHome(es) == {es[i] : i \in {j \in DOMAIN es : es[j].block \in Home}}

LEMMA OverApplies ==
    ASSUME NEW es, NEW d, Distinct(es)
    PROVE  Store!Applied(Plain(d), AtHome(es)) = Over(es, d)
  <1>1. ASSUME NEW b \in Home
        PROVE  (\E e \in AtHome(es) : e.block = b)
                  <=> \E i \in DOMAIN es : es[i].block = b
    BY <1>1 DEF AtHome
  <1>2. ASSUME NEW b \in Home, \E i \in DOMAIN es : es[i].block = b
        PROVE  (CHOOSE e \in AtHome(es) : e.block = b)
                 = es[CHOOSE i \in DOMAIN es : es[i].block = b]
    <2>1. PICK i : i = (CHOOSE j \in DOMAIN es : es[j].block = b)
                   /\ i \in DOMAIN es /\ es[i].block = b
      BY <1>2
    <2>2. PICK e : e = (CHOOSE x \in AtHome(es) : x.block = b)
                   /\ e \in AtHome(es) /\ e.block = b
      BY <1>1, <1>2
    <2>3. PICK j \in DOMAIN es : e = es[j]
      BY <2>2 DEF AtHome
    <2>4. i = j
      BY <2>1, <2>2, <2>3 DEF Distinct
    <2> QED
      BY <2>1, <2>2, <2>3, <2>4
  <1> QED
    BY <1>1, <1>2 DEF Store!Applied, Over, Plain

LEMMA ContentsKept ==
    ASSUME CommitRecordReliable, SInv, Next, ~Crash, pc # "commitflush"
    PROVE  Contents' = Contents
  <1>0. DevType /\ MemType /\ ReadSurvives /\ HeaderQuiet /\ HomesPlaced
    BY TypeParts DEF SInv, IInv, JInv, GInv
  <1>b. S0 \notin Home /\ S1 \notin Home /\ Home \subseteq Target
    BY BlockAssumption DEF Target
  <1>c. pc' = "commitflush" => Commits
    BY DEF Next, CommitStep, MountStep, PairStep, Call, DeviceError, Commits,
       nsfs_tx_commit, nsfs_tx_write_images, nsfs_tx_flush_images,
       nsfs_tx_write_commit, nsfs_tx_flush_commit, nsfs_tx_write_homes,
       nsfs_tx_flush_homes, nsfs_clear_journal_write, nsfs_clear_journal_flush,
       nsfs_recover_write_homes, nsfs_recover_flush, nsfs_recover_clear_write,
       nsfs_recover_clear_flush, nsfs_mount_finish, nsfs_write_super_pair_write,
       nsfs_write_super_pair_flush1, nsfs_write_super_pair_flush0,
       nsfs_unmount_flush, nsfs_mount, nsfs_tx_begin, nsfs_tx_abort,
       nsfs_tx_release, nsfs_sync, nsfs_unmount, nsfs_abandon,
       nsfs_tx_failed_before_commit, nsfs_tx_failed_after_commit,
       nsfs_recover_fail, nsfs_write_super_pair_fail
  <1>1. ASSUME hdr' = hdr, pc' # "commitflush",
               \A b \in Home :
                  \/ home'[b] = home[b]
                  \/ Pending /\ \E i \in DOMAIN hdr.entries : hdr.entries[i].block = b
        PROVE  Contents' = Contents
    <2>1. Pending' <=> Pending
      BY <1>1 DEF Pending
    <2>2. CASE Pending
      <3>1. Over(hdr.entries, home') = Over(hdr.entries, home)
        BY <1>1, <2>2, OverHides
      <3> QED
        BY <1>1, <2>1, <2>2, <3>1, ContentsIs, ContentsIsNext
    <2>3. CASE ~Pending
      BY <1>1, <2>1, <2>3, ContentsIs, ContentsIsNext DEF Plain
    <2> QED
      BY <2>2, <2>3
  <1>2. CASE Commits
    <2>1. ~Pending /\ ~Pending' /\ home' = home
      BY <1>0, <1>2 DEF Commits, Pending, HeaderQuiet, Quiet, ReadSurvives, WriteHeader
    <2> QED
      BY <2>1, ContentsIs, ContentsIsNext
  <1>3. CASE (Flush \/ Rests) /\ ~Commits
    <2>1. hdr' = hdr /\ home' = home /\ pc' # "commitflush"
      BY <1>3, <1>c DEF Flush, Rests
    <2> QED
      BY <1>1, <2>1
  <1>4. ASSUME NEW b \in {S0, S1}, Marks(b), ~Commits PROVE Contents' = Contents
    <2>1. /\ hdr' = hdr /\ pc' # "commitflush"
          /\ \A c \in Home : home'[c] = home[c]
      BY <1>0, <1>4, <1>b, <1>c DEF Marks, WriteSuper, DevType
    <2> QED
      BY <1>1, <2>1
  <1>5. ASSUME NEW t, Clears(t) PROVE Contents' = Contents
    <2>1. Pending /\ home' = home /\ hdr'.state = "EMPTY"
      BY <1>0, <1>5 DEF Clears, WriteHeader, EmptyHeader, Pending, HeaderQuiet
    <2>2. Over(hdr.entries, home) = Plain(home)
      BY <1>0, <1>5, OverPlaced DEF Clears, HeaderQuiet, HomesPlaced
    <2> QED
      BY <2>1, <2>2, ContentsIs, ContentsIsNext DEF Pending
  <1>6. ASSUME NEW k \in 0..Len(entries), Installs(k), ~Commits
        PROVE  Contents' = Contents
    <2>1. Pending /\ hdr' = hdr /\ entries = hdr.entries
      BY <1>0, <1>6 DEF Installs, WriteHomes, HeaderQuiet, ReadSurvives, Pending
    <2>2. ASSUME NEW c \in Home, \A i \in DOMAIN entries : entries[i].block # c
          PROVE  home'[c] = home[c]
      <3>1. 1..k \subseteq DOMAIN entries
        BY <1>0 DEF MemType
      <3>2. Written(entries, k, c) = {}
        BY <2>2, <3>1 DEF Written
      <3> QED
        BY <1>b, <1>6, <3>2 DEF Installs, WriteHomes
    <2> QED
      BY <1>1, <1>6, <1>c, <2>1, <2>2
  <1> QED
    BY <1>2, <1>3, <1>4, <1>5, <1>6, DeviceSteps

\* The commit barrier applies the transaction.
LEMMA BarrierApplies ==
    ASSUME SInv, nsfs_tx_flush_commit
    PROVE  Store!Apply
  <1>1. /\ pc = "commitflush" /\ pc' = "homes" /\ entries' = entries
        /\ home' = home /\ hdr' = hdr
    BY DEF nsfs_tx_flush_commit, Flush, fs
  <1>2. hdr = CommitHeader /\ Distinct(entries)
    BY <1>1 DEF SInv, IInv, JInv, CInv, HeaderQuiet, SealedSound, Redo
  <1>3. Contents = Plain(home) /\ Contents' = Over(entries, home)
    BY <1>1, <1>2, ContentsIs, ContentsIsNext DEF Pending, CommitHeader
  <1>4. Phase = "open" /\ Phase' = "applied"
    BY <1>1 DEF Phase
  <1>5. Update = AtHome(entries) /\ Update' = {}
    BY <1>4 DEF Update, AtHome
  <1> QED
    BY <1>2, <1>3, <1>4, <1>5, OverApplies DEF Store!Apply

\* A power cut leaves the store alone, or decides for the transaction whose
\* record was being written.
LEMMA CutDecides ==
    ASSUME SInv, Crash
    PROVE  Store!PowerCut
  <1>0. DevType /\ ReadSurvives /\ HeaderQuiet /\ SealedSound /\ RInv
    BY TypeParts DEF SInv, IInv, JInv, CInv
  <1>1. /\ pc' = "off" /\ hdr' \in hdrM
        /\ \A b \in Home : home'[b] \in homeM[b]
    BY DEF Crash, Survivor, Target
  <1>2. Phase' = "idle" /\ Update' = {}
    BY <1>1 DEF Phase, Update
  <1>3. ASSUME MayBeEmpty PROVE Plain(home') = Plain(home)
    BY <1>0, <1>1, <1>3 DEF RInv, HomeSettled, Plain
  <1>4. ASSUME NEW h \in hdrM, h.state = "COMMITTED"
        PROVE  Over(h.entries, home') = Over(h.entries, home)
    <2>1. \A b \in Home : (\A i \in DOMAIN h.entries : h.entries[i].block # b)
                              => home'[b] = home[b]
      BY <1>0, <1>1, <1>4 DEF RInv, OthersSettled
    <2> QED
      BY <2>1, OverHides
  <1>5. hdr.state \in {"EMPTY", "COMMITTED"} /\ hdr'.state \in {"EMPTY", "COMMITTED"}
    BY <1>0, <1>1 DEF DevType, JournalHeader
  <1>6. CASE hdr'.state = "EMPTY" /\ ~Pending
    BY <1>1, <1>2, <1>3, <1>6, ContentsIs, ContentsIsNext
       DEF Pending, MayBeEmpty, Store!PowerCut
  <1>7. CASE Pending
    <2>1. hdr' = hdr /\ hdr.state = "COMMITTED" /\ hdr \in hdrM
      BY <1>0, <1>1, <1>7 DEF HeaderQuiet, Pending, ReadSurvives
    <2> QED
      BY <1>1, <1>2, <1>4, <1>7, <2>1, ContentsIs, ContentsIsNext
         DEF Pending, Store!PowerCut
  <1>8. CASE hdr'.state = "COMMITTED" /\ ~Pending /\ pc # "commitflush"
    <2>1. hdr.state = "EMPTY"
      BY <1>5, <1>8 DEF Pending
    <2>2. Over(hdr'.entries, home) = Plain(home)
      BY <1>0, <1>1, <1>8, <2>1, OverPlaced DEF RInv, ClearedInstalled
    <2> QED
      BY <1>1, <1>2, <1>4, <1>8, <2>2, ContentsIs, ContentsIsNext
         DEF Pending, Store!PowerCut
  <1>9. CASE hdr'.state = "COMMITTED" /\ pc = "commitflush"
    <2>1. hdr'.entries = entries
      BY <1>0, <1>1, <1>9 DEF HeaderQuiet, CommitHeader
    <2>2. Phase = "open" /\ Update = AtHome(entries)
      BY <1>9 DEF Phase, Update, AtHome
    <2>3. Store!Applied(Plain(home), AtHome(entries)) = Over(entries, home)
      BY <1>0, <1>9, OverApplies DEF SealedSound, Redo
    <2> QED
      BY <1>1, <1>2, <1>4, <1>9, <2>1, <2>2, <2>3, ContentsIs, ContentsIsNext
         DEF Pending, Store!PowerCut
  <1> QED
    BY <1>5, <1>6, <1>7, <1>8, <1>9 DEF Pending

OpenPc == {"staged"} \cup BeforeBarrier

LEMMA PhaseIs ==
    /\ pc \in OpenPc => Phase = "open" /\ Update = AtHome(entries)
    /\ pc \in AfterBarrier => Phase = "applied" /\ Update = {}
    /\ pc \notin OpenPc \cup AfterBarrier => Phase = "idle" /\ Update = {}
  <1>1. /\ pc \in OpenPc => Phase = "open"
        /\ pc \in AfterBarrier => Phase = "applied"
        /\ pc \notin OpenPc \cup AfterBarrier => Phase = "idle"
    BY DEF OpenPc, BeforeBarrier, AfterBarrier, Phase
  <1> QED
    BY <1>1 DEF Update, AtHome

LEMMA PhaseIsNext ==
    /\ pc' \in OpenPc => Phase' = "open" /\ Update' = AtHome(entries')
    /\ pc' \in AfterBarrier => Phase' = "applied" /\ Update' = {}
    /\ pc' \notin OpenPc \cup AfterBarrier => Phase' = "idle" /\ Update' = {}
  <1>1. /\ pc' \in OpenPc => Phase' = "open"
        /\ pc' \in AfterBarrier => Phase' = "applied"
        /\ pc' \notin OpenPc \cup AfterBarrier => Phase' = "idle"
    BY DEF OpenPc, BeforeBarrier, AfterBarrier, Phase
  <1> QED
    BY <1>1 DEF Update, AtHome

\* What a step other than the commit barrier and the power cut does to the
\* phase of the transaction.
LEMMA PhaseSteps ==
    ASSUME CommitRecordReliable, SInv, Next, ~Crash, ~nsfs_tx_flush_commit
    PROVE  \/ pc \in AfterBarrier /\ pc' \in AfterBarrier
           \/ /\ pc \notin OpenPc \cup AfterBarrier
              /\ pc' \notin OpenPc \cup AfterBarrier
           \/ pc \in OpenPc /\ pc' \in OpenPc /\ AtHome(entries') = AtHome(entries)
           \/ pc \in OpenPc \cup AfterBarrier /\ pc' \notin OpenPc \cup AfterBarrier
           \/ /\ pc = "idle" /\ pc' \in OpenPc
              /\ AtHome(entries') # {} /\ \A e \in AtHome(entries') : e.block \in Home
  <1> USE DEF OpenPc, BeforeBarrier, AfterBarrier
  <1>0. MemType /\ StagedSound
    BY TypeParts DEF SInv, IInv, JInv, CInv
  <1>1. CASE nsfs_tx_commit
    <2>1. pc = "staged" /\ pc' = "images"
      BY <1>1 DEF nsfs_tx_commit
    <2> DEFINE n == Len(entries)
    <2>2. /\ n \in Nat /\ DOMAIN entries = 1..n /\ DOMAIN entries' = 1..(n + 2)
          /\ \A i \in 1..n : entries'[i] = entries[i] /\ entries[i].block \in Home
          /\ entries'[n + 1].block = S1 /\ entries'[n + 2].block = S0
      BY <1>0, <1>1, <2>1 DEF nsfs_tx_commit, MemType, StagedSound
    <2>3. \A i \in 1..(n + 2) : i \in 1..n \/ i = n + 1 \/ i = n + 2
      BY <2>2
    <2>4. {j \in DOMAIN entries' : entries'[j].block \in Home} = 1..n
      BY <2>2, <2>3, BlockAssumption
    <2>5. {j \in DOMAIN entries : entries[j].block \in Home} = 1..n
      BY <2>2
    <2>6. AtHome(entries') = {entries'[i] : i \in 1..n}
      BY <2>4 DEF AtHome
    <2>7. AtHome(entries) = {entries[i] : i \in 1..n}
      BY <2>5 DEF AtHome
    <2> QED
      BY <2>1, <2>2, <2>6, <2>7
  <1>2. CASE CommitStep /\ ~nsfs_tx_commit
    <2>1. \/ pc \in AfterBarrier /\ pc' \in AfterBarrier
          \/ pc \in AfterBarrier /\ pc' = "idle"
          \/ pc \in OpenPc /\ pc' \in OpenPc /\ entries' = entries
      BY <1>2 DEF CommitStep, nsfs_tx_write_images, nsfs_tx_flush_images,
         nsfs_tx_write_commit, nsfs_tx_write_homes, nsfs_tx_flush_homes,
         nsfs_clear_journal_write, nsfs_clear_journal_flush, fs
    <2> QED
      BY <2>1
  <1>3. CASE MountStep
    BY <1>3 DEF MountStep, nsfs_recover_write_homes, nsfs_recover_flush,
       nsfs_recover_clear_write, nsfs_recover_clear_flush, nsfs_mount_finish
  <1>4. CASE PairStep \/ nsfs_unmount_flush
    BY <1>4 DEF PairStep, nsfs_write_super_pair_write,
       nsfs_write_super_pair_flush1, nsfs_write_super_pair_flush0, nsfs_unmount_flush
  <1>5. ASSUME NEW blocks \in Footprint, nsfs_tx_begin(blocks)
        PROVE  /\ pc = "idle" /\ pc' \in OpenPc
               /\ AtHome(entries') # {} /\ \A e \in AtHome(entries') : e.block \in Home
    <2>1. PICK n \in 1..(Capacity - NSFS_TX_RESERVED_SUPERS) : blocks \in [1..n -> Home]
      BY <1>5 DEF Footprint
    <2>a. 1 \in DOMAIN blocks /\ blocks[1] \in Home
      BY <2>1, BlockAssumption DEF NSFS_TX_RESERVED_SUPERS
    <2>2. 1 \in DOMAIN entries' /\ entries'[1].block \in Home
      BY <1>5, <2>a DEF nsfs_tx_begin
    <2>3. entries'[1] \in AtHome(entries')
      BY <2>2 DEF AtHome
    <2>4. \A e \in AtHome(entries') : e.block \in Home
      BY DEF AtHome
    <2> QED
      BY <1>5, <2>3, <2>4 DEF nsfs_tx_begin
  <1>6. CASE \/ \E r, c \in BOOLEAN : nsfs_mount(r, c)
             \/ nsfs_tx_abort \/ nsfs_sync \/ nsfs_unmount \/ nsfs_abandon
    BY <1>6 DEF nsfs_mount, nsfs_tx_abort, nsfs_tx_release, nsfs_sync,
       nsfs_unmount, nsfs_abandon
  <1>7. CASE DeviceError
    BY <1>7 DEF DeviceError, nsfs_tx_failed_before_commit, nsfs_tx_release,
       nsfs_tx_failed_after_commit, nsfs_recover_fail, nsfs_write_super_pair_fail
  <1> QED
    BY <1>1, <1>2, <1>3, <1>4, <1>5, <1>6, <1>7 DEF Next, Call

\* At the commit barrier nothing else can happen.
LEMMA BarrierOnly ==
    ASSUME CommitRecordReliable, Next, ~Crash, ~nsfs_tx_flush_commit
    PROVE  pc # "commitflush"
  <1> SUFFICES ASSUME pc = "commitflush" PROVE FALSE
    OBVIOUS
  <1>1. ~CommitStep
    BY DEF CommitStep, nsfs_tx_commit, nsfs_tx_write_images, nsfs_tx_flush_images,
       nsfs_tx_write_commit, nsfs_tx_write_homes, nsfs_tx_flush_homes,
       nsfs_clear_journal_write, nsfs_clear_journal_flush
  <1>2. ~MountStep /\ ~PairStep /\ ~nsfs_unmount_flush
    BY DEF MountStep, nsfs_recover_write_homes, nsfs_recover_flush,
       nsfs_recover_clear_write, nsfs_recover_clear_flush, nsfs_mount_finish,
       PairStep, nsfs_write_super_pair_write, nsfs_write_super_pair_flush1,
       nsfs_write_super_pair_flush0, nsfs_unmount_flush
  <1>3. ~Call
    BY DEF Call, nsfs_mount, nsfs_tx_begin, nsfs_tx_abort, nsfs_sync,
       nsfs_unmount, nsfs_abandon
  <1>4. ~DeviceError
    BY DEF DeviceError, nsfs_tx_failed_before_commit, nsfs_tx_failed_after_commit,
       nsfs_recover_fail, nsfs_write_super_pair_fail, Fault, CommitRecordReliable
  <1> QED
    BY <1>1, <1>2, <1>3, <1>4 DEF Next

LEMMA StoreStep ==
    ASSUME CommitRecordReliable, SInv, [Next]_vars
    PROVE  [Store!Next]_(Store!vars)
  <1>1. CASE Crash
    BY <1>1, CutDecides DEF Store!Next
  <1>2. CASE nsfs_tx_flush_commit
    BY <1>2, BarrierApplies DEF Store!Next
  <1>3. CASE Next /\ ~Crash /\ ~nsfs_tx_flush_commit
    <2>1. pc # "commitflush"
      BY <1>3, BarrierOnly
    <2>2. Contents' = Contents
      BY <1>3, <2>1, ContentsKept
    <2>4. CASE pc \in AfterBarrier /\ pc' \in AfterBarrier
      BY <2>2, <2>4, PhaseIs, PhaseIsNext DEF Store!vars
    <2>5. CASE /\ pc \notin OpenPc \cup AfterBarrier
               /\ pc' \notin OpenPc \cup AfterBarrier
      BY <2>2, <2>5, PhaseIs, PhaseIsNext DEF Store!vars
    <2>6. CASE pc \in OpenPc /\ pc' \in OpenPc /\ AtHome(entries') = AtHome(entries)
      BY <2>2, <2>6, PhaseIs, PhaseIsNext DEF Store!vars
    <2>7. CASE pc \in OpenPc \cup AfterBarrier /\ pc' \notin OpenPc \cup AfterBarrier
      BY <2>2, <2>7, PhaseIs, PhaseIsNext DEF Store!Next, Store!Finish
    <2>8. CASE /\ pc = "idle" /\ pc' \in OpenPc
               /\ AtHome(entries') # {} /\ \A e \in AtHome(entries') : e.block \in Home
      <3>1. pc \notin OpenPc \cup AfterBarrier
        BY <2>8 DEF OpenPc, BeforeBarrier, AfterBarrier
      <3> QED
        BY <2>2, <2>8, <3>1, PhaseIs, PhaseIsNext DEF Store!Next, Store!Begin
    <2> QED
      BY <1>3, <2>4, <2>5, <2>6, <2>7, <2>8, PhaseSteps
  <1>4. CASE UNCHANGED vars
    <2>1. UNCHANGED <<Contents, Phase, Update>>
      BY <1>4 DEF vars, device, fs, Contents, Phase, Update
    <2> QED
      BY <2>1 DEF Store!vars
  <1> QED
    BY <1>1, <1>2, <1>3, <1>4

LEMMA StoreInit == Init => Store!Init
  <1> SUFFICES ASSUME Init PROVE Store!Init
    OBVIOUS
  <1>1. /\ hdr.state = "EMPTY" /\ pc = "off"
        /\ \A b \in Home : home[b] = [stamp |-> 0]
    BY DEF Init, nsfs_format, EmptyHeader, Target
  <1>2. [stamp |-> 0] \in Image
    BY DEF Image, Stamped
  <1>3. Contents = Plain(home)
    BY <1>1, ContentsIs DEF Pending
  <1>4. Contents \in [Home -> Image]
    BY <1>1, <1>2, <1>3 DEF Plain
  <1> QED
    BY <1>1, <1>4 DEF Store!Init, Phase, Update

\* The journal implements AtomicStore: whatever the power does, and whatever
\* the device reports at any point but the commit record, what a mount would
\* find in the home blocks changes by whole transactions, at the commit
\* barrier or at a power cut before the barrier returned.
THEOREM JournalImplementsStore ==
    ASSUME CommitRecordReliable
    PROVE  Spec => ImplementsAtomicStore
  <1>1. SInv /\ [Next]_vars => [Store!Next]_(Store!vars)
    BY StoreStep
  <1> QED
    BY <1>1, StoreInit, SCorrect, PTL DEF Spec, ImplementsAtomicStore, Store!Spec
====
