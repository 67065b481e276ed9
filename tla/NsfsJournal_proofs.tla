------------------------- MODULE NsfsJournal_proofs -------------------------
(***************************************************************************)
(* Proofs about NsfsJournal: type correctness, that a commit record always *)
(* finds its redo images intact, and that every mount recovers, for every  *)
(* set of home blocks, journal capacity, bound and set of device errors    *)
(* (for the last two, every set that spares the commit record).            *)
(***************************************************************************)
EXTENDS NsfsJournal, TLAPS

\* The commit record is written and flushed without an error: the case the
\* code does not handle (a failed commit barrier does not poison).
CommitRecordReliable == {"header_late", "commitflush"} \cap Faults = {}

----------------------------------------------------------------------------
\* The inductive invariant.

\* Staging leaves room for the two superblocks.
StagedFits ==
    pc = "staged" => Len(entries) <= Capacity - NSFS_TX_RESERVED_SUPERS

\* What a read returns may also be what survives.
ReadSurvives ==
    /\ \A b \in Target : home[b] \in homeM[b]
    /\ \A i \in Slot : slot[i] \in slotM[i]
    /\ hdr \in hdrM

\* The steps at which no commit record may be on the medium.
Quiet ==
    \/ pc \in {"staged", "images", "imgflush", "header", "sb0", "sb0flush"}
    \/ pc \in {"idle", "uflush"} /\ ~poisoned /\ ~ro

HeaderQuiet ==
    /\ Quiet => \A h \in hdrM : h.state = "EMPTY"
    /\ pc \in {"reread", "sb1", "sb1flush", "clearflush", "rclearflush"}
         => hdr.state = "EMPTY"
    /\ pc \in {"homes", "homeflush", "clear", "rhomes", "rflush", "rclear"}
         => /\ \A h \in hdrM : h.state = "COMMITTED"
            /\ hdrM = {hdr} /\ entries = hdr.entries
    /\ pc = "commitflush" =>
         /\ hdr = CommitHeader
         /\ \A h \in hdrM : h.state = "EMPTY" \/ h = CommitHeader
    /\ hdr.state = "COMMITTED" /\ pc # "commitflush" => hdrM = {hdr}
    /\ poisoned => pc \in {"idle", "off"}

ImagesWritten ==
    /\ pc = "imgflush" =>
         \A i \in 1..Len(entries) : slot[i] = entries[i].image
    /\ pc = "header" =>
         \A i \in 1..Len(entries) : slotM[i] = {entries[i].image}

JInv == /\ TypeOK /\ StagedFits /\ ReadSurvives /\ HeaderQuiet
        /\ ImagesWritten /\ JournalIntact

----------------------------------------------------------------------------
\* Type correctness.

TInv == TypeOK /\ StagedFits

LEMMA ImageTypes ==
    /\ Superblock \subseteq Image
    /\ Stamped \subseteq Image
    /\ Torn \in Image
    /\ \A e \in Entry : /\ e.block \in Target /\ e.image \in Image
                        /\ e.image # Torn
                        /\ e.block \in {S0, S1} => e.image \in Superblock
                        /\ e.block \in Home => e.image \in Stamped
  BY BlockAssumption DEF Image, Entry, Target, Torn, Stamped, Superblock

LEMMA TypeInit == Init => TInv
  <1> SUFFICES ASSUME Init PROVE TInv
    OBVIOUS
  <1> USE BlockAssumption DEF Init, nsfs_format
  <1>1. FormatSuper \in Superblock /\ [stamp |-> 0] \in Stamped
    BY DEF FormatSuper, Superblock, Stamped
  <1>2. EmptyHeader(0) \in JournalHeader /\ Len(EmptyHeader(0).entries) <= Capacity
    BY DEF EmptyHeader, JournalHeader
  <1>3. home \in [Target -> Image] /\ homeM \in [Target -> SUBSET Image]
    BY <1>1, ImageTypes
  <1>4. \A b \in {S0, S1} : home[b] \in Superblock /\ homeM[b] \subseteq Superblock
    BY <1>1 DEF Target
  <1>5. slot \in [Slot -> Image] /\ slotM \in [Slot -> SUBSET Image]
    BY <1>1, ImageTypes
  <1>6. hdr \in JournalHeader /\ hdrM \in SUBSET JournalHeader
        /\ \A h \in hdrM \cup {hdr} : Len(h.entries) <= Capacity
    BY <1>2
  <1>7. entries \in Seq(Entry) /\ Len(entries) <= Capacity
    OBVIOUS
  <1>8. /\ pc \in Pc /\ ro \in BOOLEAN /\ poisoned \in BOOLEAN
        /\ goal \in {"mount", "unmount"}
        /\ err \in {"none", "EIO", "EROFS", "EBUSY", "EDEV"}
        /\ seq \in Nat /\ faults \in Nat /\ crashes \in Nat
        /\ pc # "staged"
    BY DEF Pc
  <1>9. sb \in Superblock /\ orig \in Superblock
    BY <1>1
  <1> QED
    BY <1>3, <1>4, <1>5, <1>6, <1>7, <1>8, <1>9 DEF TInv, TypeOK, StagedFits

\* The two halves of TypeOK: the device and the memory of the filesystem.
DevType ==
    /\ home \in [Target -> Image]
    /\ homeM \in [Target -> SUBSET Image]
    /\ \A b \in {S0, S1} : home[b] \in Superblock /\ homeM[b] \subseteq Superblock
    /\ slot \in [Slot -> Image]
    /\ slotM \in [Slot -> SUBSET Image]
    /\ hdr \in JournalHeader
    /\ hdrM \in SUBSET JournalHeader
    /\ \A h \in hdrM \cup {hdr} : Len(h.entries) <= Capacity

MemType ==
    /\ pc \in Pc
    /\ ro \in BOOLEAN
    /\ sb \in Superblock
    /\ orig \in Superblock
    /\ entries \in Seq(Entry)
    /\ Len(entries) <= Capacity
    /\ poisoned \in BOOLEAN
    /\ goal \in {"mount", "unmount"}
    /\ err \in {"none", "EIO", "EROFS", "EBUSY", "EDEV"}
    /\ seq \in Nat /\ faults \in Nat /\ crashes \in Nat

LEMMA TypeParts == TypeOK <=> DevType /\ MemType
  BY DEF TypeOK, DevType, MemType

LEMMA TypePartsNext == TypeOK' <=> DevType' /\ MemType'
  BY DEF TypeOK, DevType, MemType

LEMMA DevTypeSame == DevType /\ UNCHANGED device => DevType'
  BY DEF DevType, device

LEMMA DevTypeFlush == DevType /\ Flush => DevType'
  BY DEF DevType, Flush, Target

LEMMA DevTypeSuper ==
    ASSUME DevType, NEW b \in {S0, S1}, NEW s \in Superblock, WriteSuper(b, s)
    PROVE  DevType'
  <1>1. s \in Image
    BY ImageTypes
  <1>2. home' \in [Target -> Image] /\ homeM' \in [Target -> SUBSET Image]
    BY <1>1 DEF DevType, WriteSuper, Target
  <1>3. \A c \in {S0, S1} : home'[c] \in Superblock /\ homeM'[c] \subseteq Superblock
    BY DEF DevType, WriteSuper, Target
  <1> QED
    BY <1>2, <1>3 DEF DevType, WriteSuper

LEMMA DevTypeHeader ==
    ASSUME DevType, NEW h \in JournalHeader, Len(h.entries) <= Capacity,
           WriteHeader(h)
    PROVE  DevType'
  BY DEF DevType, WriteHeader

LEMMA DevTypeSlots ==
    ASSUME DevType, NEW es \in Seq(Entry), NEW k \in 0..Len(es),
           WriteSlots(es, k)
    PROVE  DevType'
  <1>1. \A i \in Slot : i <= k => es[i].image \in Image
    BY ImageTypes DEF Slot
  <1>2. slot' \in [Slot -> Image] /\ slotM' \in [Slot -> SUBSET Image]
    BY <1>1, ImageTypes DEF DevType, WriteSlots, Reach
  <1> QED
    BY <1>2 DEF DevType, WriteSlots

LEMMA WrittenType ==
    ASSUME NEW es \in Seq(Entry), NEW k \in 0..Len(es), NEW b \in Target
    PROVE  /\ Written(es, k, b) \subseteq Image
           /\ Torn \notin Written(es, k, b)
           /\ b \in {S0, S1} => Written(es, k, b) \subseteq Superblock
           /\ b \in Home => Written(es, k, b) \subseteq Stamped
  <1>1. \A i \in 1..k : es[i] \in Entry
    OBVIOUS
  <1> QED
    BY <1>1, ImageTypes DEF Written

LEMMA DevTypeHomes ==
    ASSUME DevType, NEW es \in Seq(Entry), NEW k \in 0..Len(es),
           WriteHomes(es, k)
    PROVE  DevType'
  <1>1. \A b \in Target : home'[b] \in Image /\ homeM'[b] \in SUBSET Image
    BY WrittenType, ImageTypes DEF DevType, WriteHomes
  <1>2. home' \in [Target -> Image] /\ homeM' \in [Target -> SUBSET Image]
    BY <1>1 DEF WriteHomes
  <1>3. ASSUME NEW b \in {S0, S1}
        PROVE  home'[b] \in Superblock /\ homeM'[b] \subseteq Superblock
    <2>1. b \in Target /\ b \notin Home
      BY BlockAssumption DEF Target
    <2> QED
      BY <2>1, WrittenType DEF DevType, WriteHomes
  <1> QED
    BY <1>2, <1>3 DEF DevType, WriteHomes

LEMMA DevTypeCrash == DevType /\ Crash => DevType'
  <1> SUFFICES ASSUME DevType, Crash PROVE DevType'
    OBVIOUS
  <1>1. /\ \A b \in Target : home'[b] \in homeM[b]
        /\ \A i \in Slot : slot'[i] \in slotM[i]
        /\ home' = [b \in Target |-> home'[b]]
        /\ slot' = [i \in Slot |-> slot'[i]]
    BY DEF Crash, Survivor
  <1>2. home' \in [Target -> Image] /\ slot' \in [Slot -> Image]
    BY <1>1 DEF DevType
  <1>3. homeM' \in [Target -> SUBSET Image] /\ slotM' \in [Slot -> SUBSET Image]
    BY <1>2 DEF Crash
  <1>4. \A b \in {S0, S1} : home'[b] \in Superblock /\ homeM'[b] \subseteq Superblock
    BY <1>1 DEF DevType, Crash, Target
  <1> QED
    BY <1>2, <1>3, <1>4 DEF DevType, Crash

LEMMA BestType == DevType => nsfs_read_superblocks \in Superblock
  BY DEF DevType, nsfs_read_superblocks

LEMMA SealType ==
    ASSUME NEW s \in Superblock, NEW c \in {"CLEAN", "DIRTY"}
    PROVE  SealPair(s, c) \in Superblock /\ SealPair(s, c).stamp = s.stamp
  BY DEF SealPair, Superblock

LEMMA HeaderTypes ==
    /\ \A t \in Nat : EmptyHeader(t) \in JournalHeader
                      /\ Len(EmptyHeader(t).entries) <= Capacity
    /\ MemType => CommitHeader \in JournalHeader
                  /\ Len(CommitHeader.entries) <= Capacity
  <1>1. ASSUME NEW t \in Nat
        PROVE  EmptyHeader(t) \in JournalHeader
               /\ Len(EmptyHeader(t).entries) <= Capacity
    BY BlockAssumption DEF EmptyHeader, JournalHeader
  <1>2. MemType => sb.last_txid \in Nat
    BY DEF MemType, Superblock
  <1>3. MemType => CommitHeader \in JournalHeader
                   /\ Len(CommitHeader.entries) <= Capacity
    BY <1>2 DEF CommitHeader, JournalHeader, MemType
  <1> QED
    BY <1>1, <1>3

LEMMA TypeCommitStep == TInv /\ CommitStep => TInv'
  <1> SUFFICES ASSUME TInv, CommitStep PROVE DevType' /\ MemType' /\ StagedFits'
    BY TypePartsNext DEF TInv
  <1>0. DevType /\ MemType
    BY TypeParts DEF TInv
  <1>a. sb.last_txid \in Nat
    BY <1>0 DEF MemType, Superblock
  <1>1. CASE nsfs_tx_commit
    <2>1. sb' \in Superblock
      BY <1>0, <1>1 DEF nsfs_tx_commit, MemType, Superblock
    <2>2. [block |-> S1, image |-> sb'] \in Entry /\ [block |-> S0, image |-> sb'] \in Entry
      BY <2>1 DEF Entry
    <2>3. entries' \in Seq(Entry) /\ Len(entries') = Len(entries) + 2
      BY <1>0, <1>1, <2>2 DEF nsfs_tx_commit, MemType
    <2>4. Len(entries') <= Capacity
      BY <2>3, <1>1, <1>0, BlockAssumption
         DEF TInv, StagedFits, nsfs_tx_commit, NSFS_TX_RESERVED_SUPERS, MemType
    <2> QED
      BY <1>0, <1>1, <2>1, <2>3, <2>4, DevTypeSame
         DEF nsfs_tx_commit, MemType, NoFault, StagedFits, Pc
  <1>2. CASE nsfs_tx_write_images
    BY <1>0, <1>2, DevTypeSlots
       DEF nsfs_tx_write_images, MemType, NoFault, fs, StagedFits, Pc
  <1>3. CASE nsfs_tx_flush_images
    BY <1>0, <1>3, DevTypeFlush
       DEF nsfs_tx_flush_images, MemType, NoFault, fs, StagedFits, Pc
  <1>4. CASE nsfs_tx_write_commit
    BY <1>0, <1>4, DevTypeHeader, HeaderTypes
       DEF nsfs_tx_write_commit, MemType, NoFault, fs, StagedFits, Pc
  <1>5. CASE nsfs_tx_flush_commit
    BY <1>0, <1>5, DevTypeFlush
       DEF nsfs_tx_flush_commit, MemType, NoFault, fs, StagedFits, Pc
  <1>6. CASE nsfs_tx_write_homes
    BY <1>0, <1>6, DevTypeHomes
       DEF nsfs_tx_write_homes, MemType, NoFault, fs, StagedFits, Pc
  <1>7. CASE nsfs_tx_flush_homes
    BY <1>0, <1>7, DevTypeFlush
       DEF nsfs_tx_flush_homes, MemType, NoFault, fs, StagedFits, Pc
  <1>8. CASE nsfs_clear_journal_write
    BY <1>0, <1>a, <1>8, DevTypeHeader, HeaderTypes
       DEF nsfs_clear_journal_write, MemType, NoFault, fs, StagedFits, Pc
  <1>9. CASE nsfs_clear_journal_flush
    BY <1>0, <1>9, DevTypeFlush, BlockAssumption
       DEF nsfs_clear_journal_flush, MemType, NoFault, StagedFits, Pc
  <1> QED
    BY <1>1, <1>2, <1>3, <1>4, <1>5, <1>6, <1>7, <1>8, <1>9 DEF CommitStep

LEMMA TypeMountStep == TInv /\ MountStep => TInv'
  <1> SUFFICES ASSUME TInv, MountStep PROVE DevType' /\ MemType' /\ StagedFits'
    BY TypePartsNext DEF TInv
  <1>0. DevType /\ MemType
    BY TypeParts DEF TInv
  <1>a. hdr.txid \in Nat
    BY <1>0 DEF DevType, JournalHeader
  <1>1. CASE nsfs_recover_write_homes
    BY <1>0, <1>1, DevTypeHomes
       DEF nsfs_recover_write_homes, MemType, NoFault, fs, StagedFits, Pc
  <1>2. CASE nsfs_recover_flush
    BY <1>0, <1>2, DevTypeFlush
       DEF nsfs_recover_flush, MemType, NoFault, fs, StagedFits, Pc
  <1>3. CASE nsfs_recover_clear_write
    BY <1>0, <1>a, <1>3, DevTypeHeader, HeaderTypes
       DEF nsfs_recover_clear_write, MemType, NoFault, fs, StagedFits, Pc
  <1>4. CASE nsfs_recover_clear_flush
    BY <1>0, <1>4, DevTypeFlush, BlockAssumption
       DEF nsfs_recover_clear_flush, MemType, NoFault, StagedFits, Pc
  <1>5. CASE nsfs_mount_finish
    <2>1. sb' \in Superblock
      BY <1>0, <1>5, BestType, SealType DEF nsfs_mount_finish, MemType
    <2> QED
      BY <1>0, <1>5, <2>1, DevTypeSame
         DEF nsfs_mount_finish, MemType, NoFault, StagedFits, Pc
  <1> QED
    BY <1>1, <1>2, <1>3, <1>4, <1>5 DEF MountStep

LEMMA TypePairStep == TInv /\ (PairStep \/ nsfs_unmount_flush) => TInv'
  <1> SUFFICES ASSUME TInv, PairStep \/ nsfs_unmount_flush
               PROVE DevType' /\ MemType' /\ StagedFits'
    BY TypePartsNext DEF TInv
  <1>0. DevType /\ MemType
    BY TypeParts DEF TInv
  <1>1. CASE nsfs_write_super_pair_write(S1, "sb1", "sb1flush")
    BY <1>0, <1>1, DevTypeSuper
       DEF nsfs_write_super_pair_write, MemType, NoFault, fs, StagedFits, Pc
  <1>2. CASE nsfs_write_super_pair_write(S0, "sb0", "sb0flush")
    BY <1>0, <1>2, DevTypeSuper
       DEF nsfs_write_super_pair_write, MemType, NoFault, fs, StagedFits, Pc
  <1>3. CASE nsfs_write_super_pair_flush1
    BY <1>0, <1>3, DevTypeFlush
       DEF nsfs_write_super_pair_flush1, MemType, NoFault, fs, StagedFits, Pc
  <1>4. CASE nsfs_write_super_pair_flush0
    BY <1>0, <1>4, DevTypeFlush
       DEF nsfs_write_super_pair_flush0, MemType, NoFault, StagedFits, Pc
  <1>5. CASE nsfs_unmount_flush
    BY <1>0, <1>5, DevTypeFlush, DevTypeSame
       DEF nsfs_unmount_flush, MemType, NoFault, Fault, fs, StagedFits, Pc
  <1> QED
    BY <1>1, <1>2, <1>3, <1>4, <1>5 DEF PairStep

LEMMA FootprintType ==
    ASSUME NEW blocks \in Footprint
    PROVE  /\ blocks \in Seq(Home)
           /\ Len(blocks) <= Capacity - NSFS_TX_RESERVED_SUPERS
           /\ DOMAIN blocks = 1..Len(blocks)
           /\ \A i, j \in DOMAIN blocks : blocks[i] = blocks[j] => i = j
  <1>1. PICK n \in 1..(Capacity - NSFS_TX_RESERVED_SUPERS) : blocks \in [1..n -> Home]
    BY DEF Footprint
  <1>2. n \in Nat /\ n <= Capacity - NSFS_TX_RESERVED_SUPERS
    BY BlockAssumption DEF NSFS_TX_RESERVED_SUPERS
  <1>3. blocks \in Seq(Home) /\ Len(blocks) = n
    BY <1>1, <1>2
  <1> QED
    BY <1>1, <1>2, <1>3 DEF Footprint

\* What nsfs_tx_begin stages.
LEMMA StagedEntries ==
    ASSUME MemType, NEW blocks \in Footprint, nsfs_tx_begin(blocks)
    PROVE  /\ entries' \in Seq(Entry)
           /\ Len(entries') <= Capacity - NSFS_TX_RESERVED_SUPERS
           /\ sb' \in Superblock /\ seq' \in Nat
           /\ DOMAIN entries' = DOMAIN blocks
           /\ \A i \in DOMAIN blocks : /\ entries'[i].block = blocks[i]
                                       /\ entries'[i].image = [stamp |-> seq']
  <1>1. seq' \in Nat
    BY DEF nsfs_tx_begin, MemType
  <1>2. [stamp |-> seq'] \in Stamped
    BY <1>1 DEF Stamped
  <1>3. \A i \in DOMAIN blocks : [block |-> blocks[i], image |-> [stamp |-> seq']] \in Entry
    BY <1>2, FootprintType DEF Entry
  <1>4. entries' \in [1..Len(blocks) -> Entry] /\ Len(blocks) \in Nat
    BY <1>3, FootprintType DEF nsfs_tx_begin
  <1>5. entries' \in Seq(Entry) /\ Len(entries') = Len(blocks)
    BY <1>4
  <1>6. sb' \in Superblock
    BY <1>1 DEF nsfs_tx_begin, MemType, Superblock
  <1> QED
    BY <1>1, <1>3, <1>4, <1>5, <1>6, FootprintType DEF nsfs_tx_begin

LEMMA TypeCall == TInv /\ Call => TInv'
  <1> SUFFICES ASSUME TInv, Call PROVE DevType' /\ MemType' /\ StagedFits'
    BY TypePartsNext DEF TInv
  <1>0. DevType /\ MemType
    BY TypeParts DEF TInv
  <1>1. ASSUME NEW r \in BOOLEAN, NEW c \in BOOLEAN, nsfs_mount(r, c)
        PROVE  DevType' /\ MemType' /\ StagedFits'
    <2>1. hdr.entries \in Seq(Entry) /\ Len(hdr.entries) <= Capacity
      BY <1>0 DEF DevType, JournalHeader
    <2>a. entries' = entries \/ entries' = <<>> \/ entries' = hdr.entries
      BY <1>1 DEF nsfs_mount
    <2>b. <<>> \in Seq(Entry) /\ Len(<<>>) <= Capacity
      BY BlockAssumption
    <2>2. entries' \in Seq(Entry) /\ Len(entries') <= Capacity
      BY <1>0, <2>1, <2>a, <2>b DEF MemType
    <2>3. sb' \in Superblock
      BY <1>0, <1>1, BestType DEF nsfs_mount, MemType
    <2>4. pc' \in Pc /\ pc' # "staged" /\ ro' \in BOOLEAN
          /\ err' \in {"none", "EIO", "EROFS", "EBUSY", "EDEV"}
      BY <1>0, <1>1 DEF nsfs_mount, MemType, Pc
    <2>5. /\ poisoned' = FALSE
          /\ UNCHANGED <<device, orig, goal, seq, faults, crashes>>
      BY <1>1 DEF nsfs_mount, NoFault
    <2> QED
      BY <1>0, <2>2, <2>3, <2>4, <2>5, DevTypeSame DEF MemType, StagedFits
  <1>2. ASSUME NEW blocks \in Footprint, nsfs_tx_begin(blocks)
        PROVE  DevType' /\ MemType' /\ StagedFits'
    <2>1. Len(entries') <= Capacity
      BY <1>0, <1>2, StagedEntries, BlockAssumption
         DEF NSFS_TX_RESERVED_SUPERS
    <2>2. /\ entries' \in Seq(Entry) /\ sb' \in Superblock /\ seq' \in Nat
          /\ Len(entries') <= Capacity - NSFS_TX_RESERVED_SUPERS
      BY <1>0, <1>2, StagedEntries
    <2> QED
      BY <1>0, <1>2, <2>1, <2>2, DevTypeSame
         DEF nsfs_tx_begin, MemType, StagedFits, Pc
  <1>3. CASE nsfs_tx_abort
    BY <1>0, <1>3, DevTypeSame, BlockAssumption
       DEF nsfs_tx_abort, nsfs_tx_release, MemType, NoFault, StagedFits, Pc
  <1>4. CASE nsfs_sync
    BY <1>0, <1>4, DevTypeSame, DevTypeFlush
       DEF nsfs_sync, MemType, NoFault, Fault, fs, StagedFits, Pc
  <1>5. CASE nsfs_unmount
    <2>1. sb' \in Superblock
      BY <1>0, <1>5, SealType DEF nsfs_unmount, MemType
    <2> QED
      BY <1>0, <1>5, <2>1, DevTypeSame
         DEF nsfs_unmount, MemType, NoFault, StagedFits, Pc
  <1>6. CASE nsfs_abandon
    BY <1>0, <1>6, DevTypeSame
       DEF nsfs_abandon, MemType, NoFault, fs, StagedFits, Pc
  <1> QED
    BY <1>1, <1>2, <1>3, <1>4, <1>5, <1>6 DEF Call

LEMMA TypeDeviceError == TInv /\ DeviceError => TInv'
  <1> SUFFICES ASSUME TInv, DeviceError PROVE DevType' /\ MemType' /\ StagedFits'
    BY TypePartsNext DEF TInv
  <1>0. DevType /\ MemType
    BY TypeParts DEF TInv
  <1>a. hdr.txid \in Nat /\ sb.last_txid \in Nat
    BY <1>0 DEF DevType, MemType, JournalHeader, Superblock
  <1>1. CASE nsfs_tx_failed_before_commit
    <2>1. DevType'
      BY <1>0, <1>1, DevTypeSame, DevTypeSlots, DevTypeHeader, HeaderTypes
         DEF nsfs_tx_failed_before_commit, MemType
    <2> QED
      BY <1>0, <1>1, <2>1, BlockAssumption
         DEF nsfs_tx_failed_before_commit, nsfs_tx_release, MemType, Fault,
             StagedFits, Pc
  <1>2. CASE nsfs_tx_failed_after_commit
    <2>1. DevType'
      BY <1>0, <1>a, <1>2, DevTypeSame, DevTypeHomes, DevTypeHeader, HeaderTypes
         DEF nsfs_tx_failed_after_commit, MemType
    <2> QED
      BY <1>0, <1>2, <2>1, BlockAssumption
         DEF nsfs_tx_failed_after_commit, MemType, Fault, StagedFits, Pc
  <1>3. CASE nsfs_recover_fail
    <2>1. DevType'
      BY <1>0, <1>a, <1>3, DevTypeSame, DevTypeHomes, DevTypeHeader, HeaderTypes
         DEF nsfs_recover_fail, MemType
    <2> QED
      BY <1>0, <1>3, <2>1, BlockAssumption
         DEF nsfs_recover_fail, MemType, Fault, StagedFits, Pc
  <1>4. CASE nsfs_write_super_pair_fail
    <2>1. DevType'
      BY <1>0, <1>4, DevTypeSame, DevTypeSuper
         DEF nsfs_write_super_pair_fail, MemType
    <2> QED
      BY <1>0, <1>4, <2>1
         DEF nsfs_write_super_pair_fail, MemType, Fault, StagedFits, Pc
  <1> QED
    BY <1>1, <1>2, <1>3, <1>4 DEF DeviceError

LEMMA TypeCrash == TInv /\ Crash => TInv'
  <1> SUFFICES ASSUME TInv, Crash PROVE DevType' /\ MemType' /\ StagedFits'
    BY TypePartsNext DEF TInv
  <1>0. DevType /\ MemType
    BY TypeParts DEF TInv
  <1> QED
    BY <1>0, DevTypeCrash DEF Crash, MemType, fs, StagedFits, Pc

LEMMA TypeNext == TInv /\ [Next]_vars => TInv'
  <1>1. TInv /\ UNCHANGED vars => TInv'
    BY DEF TInv, TypeOK, StagedFits, vars, device, fs
  <1> QED
    BY <1>1, TypeCommitStep, TypeMountStep, TypePairStep, TypeCall,
       TypeDeviceError, TypeCrash DEF Next

\* Every reachable state is well formed: blocks, header and staged entries
\* keep their kinds through every operation, error and power cut, and no
\* transaction outgrows the journal (nsfs_tx_image's reserve is enough).
THEOREM TypeCorrect == Spec => []TypeOK
  <1>1. Spec => []TInv
    BY TypeInit, TypeNext, PTL DEF Spec
  <1>2. TInv => TypeOK
    BY DEF TInv
  <1> QED
    BY <1>1, <1>2, PTL

----------------------------------------------------------------------------
\* The commit record and its redo images.

JDev == ReadSurvives /\ JournalIntact

LEMMA EntryIsSlot ==
    ASSUME DevType, NEW h \in hdrM, NEW i \in DOMAIN h.entries
    PROVE  i \in Slot /\ h.entries[i] \in Entry
  <1>1. h.entries \in Seq(Entry) /\ Len(h.entries) <= Capacity
    BY DEF DevType, JournalHeader
  <1> QED
    BY <1>1, BlockAssumption DEF Slot

LEMMA JDevSame == JDev /\ UNCHANGED device => JDev'
  BY DEF JDev, ReadSurvives, JournalIntact, device

LEMMA JDevFlush == DevType /\ JDev /\ Flush => JDev'
  <1> SUFFICES ASSUME DevType, JDev, Flush PROVE JDev'
    OBVIOUS
  <1>1. ReadSurvives'
    BY DEF Flush, ReadSurvives, JDev
  <1>2. ASSUME NEW h \in hdrM', h.state = "COMMITTED", NEW i \in DOMAIN h.entries
        PROVE  slotM'[i] = {h.entries[i].image}
    <2>1. h = hdr /\ h \in hdrM
      BY <1>2 DEF Flush, JDev, ReadSurvives
    <2>2. i \in Slot
      BY <1>2, <2>1, EntryIsSlot
    <2>3. slot[i] \in slotM[i] /\ slotM[i] = {h.entries[i].image}
      BY <1>2, <2>1, <2>2 DEF JDev, ReadSurvives, JournalIntact
    <2> QED
      BY <2>2, <2>3 DEF Flush
  <1> QED
    BY <1>1, <1>2 DEF JDev, JournalIntact

LEMMA JDevCrash == DevType /\ JDev /\ Crash => JDev'
  <1> SUFFICES ASSUME DevType, JDev, Crash PROVE JDev'
    OBVIOUS
  <1>1. ReadSurvives'
    BY DEF Crash, ReadSurvives
  <1>2. ASSUME NEW h \in hdrM', h.state = "COMMITTED", NEW i \in DOMAIN h.entries
        PROVE  slotM'[i] = {h.entries[i].image}
    <2>1. h \in hdrM
      BY <1>2 DEF Crash
    <2>2. i \in Slot
      BY <1>2, <2>1, EntryIsSlot
    <2>3. slot'[i] \in slotM[i] /\ slotM[i] = {h.entries[i].image}
      BY <1>2, <2>1, <2>2 DEF JDev, JournalIntact, Crash, Survivor
    <2> QED
      BY <2>2, <2>3 DEF Crash
  <1> QED
    BY <1>1, <1>2 DEF JDev, JournalIntact

LEMMA JDevSuper ==
    ASSUME DevType, JDev, NEW b \in {S0, S1}, NEW s, WriteSuper(b, s)
    PROVE  JDev'
  BY DEF DevType, JDev, ReadSurvives, JournalIntact, WriteSuper, Target

LEMMA JDevHomes ==
    ASSUME DevType, JDev, NEW es \in Seq(Entry), NEW k \in 0..Len(es),
           WriteHomes(es, k)
    PROVE  JDev'
  <1>1. \A b \in Target : home'[b] \in homeM'[b]
    BY DEF JDev, ReadSurvives, WriteHomes
  <1> QED
    BY <1>1 DEF JDev, ReadSurvives, JournalIntact, WriteHomes

LEMMA JDevSlots ==
    ASSUME DevType, JDev, NEW es \in Seq(Entry), NEW k \in 0..Len(es),
           \A h \in hdrM : h.state = "EMPTY", WriteSlots(es, k)
    PROVE  JDev'
  <1>1. \A i \in Slot : slot'[i] \in slotM'[i]
    BY DEF JDev, ReadSurvives, WriteSlots, Reach
  <1> QED
    BY <1>1 DEF JDev, ReadSurvives, JournalIntact, WriteSlots

LEMMA JDevClear ==
    ASSUME JDev, NEW t, WriteHeader(EmptyHeader(t))
    PROVE  JDev'
  BY DEF JDev, ReadSurvives, JournalIntact, WriteHeader, EmptyHeader

LEMMA JDevCommit ==
    ASSUME JDev, MemType, WriteHeader(CommitHeader),
           \A i \in 1..Len(entries) : slotM[i] = {entries[i].image}
    PROVE  JDev'
  <1>1. CommitHeader.entries = entries /\ DOMAIN entries = 1..Len(entries)
    BY DEF CommitHeader, MemType
  <1> QED
    BY <1>1 DEF JDev, ReadSurvives, JournalIntact, WriteHeader

LEMMA JInit == Init => JInv
  <1> SUFFICES ASSUME Init PROVE JInv
    OBVIOUS
  <1>1. TInv
    BY TypeInit
  <1>2. ReadSurvives /\ HeaderQuiet /\ ImagesWritten /\ JournalIntact
    BY DEF Init, nsfs_format, ReadSurvives, HeaderQuiet, Quiet, ImagesWritten,
           JournalIntact, EmptyHeader
  <1> QED
    BY <1>1, <1>2 DEF JInv, TInv

LEMMA JCommitStep == JInv /\ CommitStep => JInv'
  <1> SUFFICES ASSUME JInv, CommitStep
               PROVE  JDev' /\ HeaderQuiet' /\ ImagesWritten'
    BY TypeCommitStep DEF JInv, TInv, JDev
  <1>0. DevType /\ MemType /\ JDev
    BY TypeParts DEF JInv, JDev
  <1>a. DOMAIN entries = 1..Len(entries) /\ Len(entries) \in Nat
        /\ 1..Len(entries) \subseteq Slot
    BY <1>0, BlockAssumption DEF MemType, Slot
  <1> USE DEF HeaderQuiet, Quiet, ImagesWritten
  <1>1. CASE nsfs_tx_commit
    BY <1>0, <1>1, JDevSame DEF JInv, nsfs_tx_commit, device
  <1>2. CASE nsfs_tx_write_images
    <2>1. \A h \in hdrM : h.state = "EMPTY"
      BY <1>2 DEF JInv, nsfs_tx_write_images
    <2>2. JDev'
      BY <1>0, <1>2, <2>1, JDevSlots DEF nsfs_tx_write_images, MemType
    <2>3. hdrM' = hdrM /\ hdr' = hdr /\ UNCHANGED <<entries, sb>>
      BY <1>2 DEF nsfs_tx_write_images, WriteSlots, fs
    <2>4. \A i \in 1..Len(entries) : slot'[i] = entries[i].image
      BY <1>a, <1>2 DEF nsfs_tx_write_images, WriteSlots
    <2> QED
      BY <1>2, <2>1, <2>2, <2>3, <2>4 DEF nsfs_tx_write_images, JInv, fs
  <1>3. CASE nsfs_tx_flush_images
    <2>1. JDev'
      BY <1>0, <1>3, JDevFlush DEF nsfs_tx_flush_images
    <2>2. hdr.state = "EMPTY" /\ hdrM' = {hdr} /\ hdr' = hdr /\ entries' = entries
      BY <1>3 DEF JInv, nsfs_tx_flush_images, Flush, fs, ReadSurvives
    <2>3. \A i \in 1..Len(entries) : slotM'[i] = {entries[i].image}
      BY <1>a, <1>3 DEF JInv, nsfs_tx_flush_images, Flush
    <2> QED
      BY <1>3, <2>1, <2>2, <2>3 DEF nsfs_tx_flush_images, JInv, fs
  <1>4. CASE nsfs_tx_write_commit
    <2>1. JDev'
      BY <1>0, <1>4, JDevCommit DEF JInv, nsfs_tx_write_commit
    <2>2. CommitHeader' = CommitHeader
      BY <1>4 DEF nsfs_tx_write_commit, CommitHeader, fs
    <2>3. hdr' = CommitHeader /\ \A h \in hdrM' : h.state = "EMPTY" \/ h = CommitHeader
      BY <1>4 DEF JInv, nsfs_tx_write_commit, WriteHeader
    <2> QED
      BY <1>4, <2>1, <2>2, <2>3 DEF nsfs_tx_write_commit, JInv, fs
  <1>5. CASE nsfs_tx_flush_commit
    <2>1. JDev'
      BY <1>0, <1>5, JDevFlush DEF nsfs_tx_flush_commit
    <2>2. hdr.state = "COMMITTED" /\ hdr.entries = entries
      BY <1>5 DEF JInv, nsfs_tx_flush_commit, CommitHeader
    <2>3. hdrM' = {hdr'} /\ hdr' = hdr /\ entries' = entries
      BY <1>5 DEF nsfs_tx_flush_commit, Flush, fs
    <2> QED
      BY <1>5, <2>1, <2>2, <2>3 DEF nsfs_tx_flush_commit, JInv, fs
  <1>6. CASE nsfs_tx_write_homes
    <2>1. JDev'
      BY <1>0, <1>a, <1>6, JDevHomes DEF nsfs_tx_write_homes, MemType
    <2>2. hdrM' = hdrM /\ hdr' = hdr /\ entries' = entries
      BY <1>6 DEF nsfs_tx_write_homes, WriteHomes, fs
    <2> QED
      BY <1>6, <2>1, <2>2 DEF JInv, nsfs_tx_write_homes, fs
  <1>7. CASE nsfs_tx_flush_homes
    <2>1. JDev'
      BY <1>0, <1>7, JDevFlush DEF nsfs_tx_flush_homes
    <2>2. hdrM' = hdrM /\ hdr' = hdr /\ entries' = entries
      BY <1>7 DEF JInv, nsfs_tx_flush_homes, Flush, fs
    <2> QED
      BY <1>7, <2>1, <2>2 DEF JInv, nsfs_tx_flush_homes, fs
  <1>8. CASE nsfs_clear_journal_write
    <2>1. JDev'
      BY <1>0, <1>8, JDevClear DEF nsfs_clear_journal_write
    <2>2. hdr'.state = "EMPTY"
      BY <1>8 DEF nsfs_clear_journal_write, WriteHeader, EmptyHeader
    <2> QED
      BY <1>8, <2>1, <2>2 DEF nsfs_clear_journal_write, JInv, fs
  <1>9. CASE nsfs_clear_journal_flush
    <2>1. JDev'
      BY <1>0, <1>9, JDevFlush DEF nsfs_clear_journal_flush
    <2>2. hdr.state = "EMPTY" /\ hdrM' = {hdr} /\ hdr' = hdr
      BY <1>9 DEF JInv, nsfs_clear_journal_flush, Flush
    <2> QED
      BY <1>9, <2>1, <2>2 DEF nsfs_clear_journal_flush, JInv, fs
  <1> QED
    BY <1>1, <1>2, <1>3, <1>4, <1>5, <1>6, <1>7, <1>8, <1>9 DEF CommitStep

LEMMA JMountStep == JInv /\ MountStep => JInv'
  <1> SUFFICES ASSUME JInv, MountStep
               PROVE  JDev' /\ HeaderQuiet' /\ ImagesWritten'
    BY TypeMountStep DEF JInv, TInv, JDev
  <1>0. DevType /\ MemType /\ JDev
    BY TypeParts DEF JInv, JDev
  <1>a. Len(entries) \in 0..Len(entries)
    BY <1>0 DEF MemType
  <1> USE DEF HeaderQuiet, Quiet, ImagesWritten
  <1>1. CASE nsfs_recover_write_homes
    <2>1. JDev'
      BY <1>0, <1>a, <1>1, JDevHomes DEF nsfs_recover_write_homes, MemType
    <2>2. hdrM' = hdrM /\ hdr' = hdr /\ entries' = entries
      BY <1>1 DEF nsfs_recover_write_homes, WriteHomes, fs
    <2> QED
      BY <1>1, <2>1, <2>2 DEF JInv, nsfs_recover_write_homes, fs
  <1>2. CASE nsfs_recover_flush
    <2>1. JDev'
      BY <1>0, <1>2, JDevFlush DEF nsfs_recover_flush
    <2>2. hdrM' = hdrM /\ hdr' = hdr /\ entries' = entries
      BY <1>2 DEF JInv, nsfs_recover_flush, Flush, fs
    <2> QED
      BY <1>2, <2>1, <2>2 DEF JInv, nsfs_recover_flush, fs
  <1>3. CASE nsfs_recover_clear_write
    <2>1. JDev'
      BY <1>0, <1>3, JDevClear DEF nsfs_recover_clear_write
    <2>2. hdr'.state = "EMPTY"
      BY <1>3 DEF nsfs_recover_clear_write, WriteHeader, EmptyHeader
    <2> QED
      BY <1>3, <2>1, <2>2 DEF nsfs_recover_clear_write, JInv, fs
  <1>4. CASE nsfs_recover_clear_flush
    <2>1. JDev'
      BY <1>0, <1>4, JDevFlush DEF nsfs_recover_clear_flush
    <2>2. hdr'.state = "EMPTY"
      BY <1>4 DEF JInv, nsfs_recover_clear_flush, Flush
    <2> QED
      BY <1>4, <2>1, <2>2 DEF nsfs_recover_clear_flush, JInv, fs
  <1>5. CASE nsfs_mount_finish
    <2>1. JDev' /\ hdr' = hdr /\ hdr.state = "EMPTY"
      BY <1>0, <1>5, JDevSame DEF JInv, nsfs_mount_finish, device
    <2>2. /\ pc' \in {"off", "idle", "sb1"}
          /\ pc' = "idle" => ro'
          /\ hdrM' = hdrM /\ ~poisoned'
      BY <1>5 DEF JInv, nsfs_mount_finish, device
    <2> QED
      BY <2>1, <2>2
  <1> QED
    BY <1>1, <1>2, <1>3, <1>4, <1>5 DEF MountStep

LEMMA JPairStep == JInv /\ (PairStep \/ nsfs_unmount_flush) => JInv'
  <1> SUFFICES ASSUME JInv, PairStep \/ nsfs_unmount_flush
               PROVE  JDev' /\ HeaderQuiet' /\ ImagesWritten'
    BY TypePairStep DEF JInv, TInv, JDev
  <1>0. DevType /\ MemType /\ JDev
    BY TypeParts DEF JInv, JDev
  <1> USE DEF HeaderQuiet, Quiet, ImagesWritten
  <1>1. CASE nsfs_write_super_pair_write(S1, "sb1", "sb1flush")
    <2>1. JDev'
      BY <1>0, <1>1, JDevSuper DEF nsfs_write_super_pair_write
    <2>2. hdr' = hdr /\ hdrM' = hdrM
      BY <1>1 DEF nsfs_write_super_pair_write, WriteSuper
    <2> QED
      BY <1>1, <2>1, <2>2 DEF JInv, nsfs_write_super_pair_write, fs
  <1>2. CASE nsfs_write_super_pair_write(S0, "sb0", "sb0flush")
    <2>1. JDev'
      BY <1>0, <1>2, JDevSuper DEF nsfs_write_super_pair_write
    <2>2. hdr' = hdr /\ hdrM' = hdrM
      BY <1>2 DEF nsfs_write_super_pair_write, WriteSuper
    <2> QED
      BY <1>2, <2>1, <2>2 DEF JInv, nsfs_write_super_pair_write, fs
  <1>3. CASE nsfs_write_super_pair_flush1
    <2>1. JDev'
      BY <1>0, <1>3, JDevFlush DEF nsfs_write_super_pair_flush1
    <2>2. hdrM' = {hdr} /\ hdr' = hdr /\ hdr.state = "EMPTY"
      BY <1>3 DEF JInv, nsfs_write_super_pair_flush1, Flush
    <2> QED
      BY <1>3, <2>1, <2>2 DEF nsfs_write_super_pair_flush1, JInv, fs
  <1>4. CASE nsfs_write_super_pair_flush0
    <2>1. JDev'
      BY <1>0, <1>4, JDevFlush DEF nsfs_write_super_pair_flush0
    <2>2. hdrM' = {hdr} /\ hdr' = hdr /\ hdr.state = "EMPTY"
      BY <1>4 DEF JInv, ReadSurvives, nsfs_write_super_pair_flush0, Flush
    <2>3. pc' \in {"idle", "uflush"} /\ poisoned' = poisoned
      BY <1>4 DEF nsfs_write_super_pair_flush0
    <2>4. ~poisoned
      BY <1>4 DEF JInv, nsfs_write_super_pair_flush0
    <2> QED
      BY <2>1, <2>2, <2>3, <2>4
  <1>5. CASE nsfs_unmount_flush
    <2>1. JDev'
      BY <1>0, <1>5, JDevFlush, JDevSame DEF nsfs_unmount_flush
    <2>2. /\ hdr' = hdr /\ UNCHANGED <<poisoned, ro>>
          /\ \/ pc' = "off" /\ hdrM' = {hdr}
             \/ pc' = "idle" /\ hdrM' = hdrM
      BY <1>5 DEF nsfs_unmount_flush, Flush, device, fs
    <2> QED
      BY <1>5, <2>1, <2>2 DEF JInv, nsfs_unmount_flush, fs
  <1> QED
    BY <1>1, <1>2, <1>3, <1>4, <1>5 DEF PairStep

LEMMA JCall == JInv /\ Call => JInv'
  <1> SUFFICES ASSUME JInv, Call
               PROVE  JDev' /\ HeaderQuiet' /\ ImagesWritten'
    BY TypeCall DEF JInv, TInv, JDev
  <1>0. DevType /\ MemType /\ JDev
    BY TypeParts DEF JInv, JDev
  <1> USE DEF HeaderQuiet, Quiet, ImagesWritten
  <1>1. ASSUME NEW r \in BOOLEAN, NEW c \in BOOLEAN, nsfs_mount(r, c)
        PROVE  JDev' /\ HeaderQuiet' /\ ImagesWritten'
    <2>1. UNCHANGED device
      BY <1>1 DEF nsfs_mount
    <2>2. JDev' /\ hdr' = hdr /\ hdrM' = hdrM
      BY <1>0, <2>1, JDevSame DEF device
    <2>3. \/ pc' = "off"
          \/ pc' = "reread" /\ hdr.state = "EMPTY"
          \/ pc' = "rhomes" /\ hdr.state = "COMMITTED" /\ entries' = hdr.entries
      BY <1>1 DEF nsfs_mount
    <2>4. pc = "off" /\ ~poisoned'
      BY <1>1 DEF nsfs_mount
    <2> QED
      BY <2>2, <2>3, <2>4 DEF JInv
  <1>2. ASSUME NEW blocks \in Footprint, nsfs_tx_begin(blocks)
        PROVE  JDev' /\ HeaderQuiet' /\ ImagesWritten'
    <2>1. JDev' /\ hdr' = hdr /\ hdrM' = hdrM
      BY <1>0, <1>2, JDevSame DEF nsfs_tx_begin, device
    <2> QED
      BY <1>2, <2>1 DEF JInv, nsfs_tx_begin, fs
  <1>3. CASE nsfs_tx_abort
    <2>1. JDev' /\ hdr' = hdr /\ hdrM' = hdrM
      BY <1>0, <1>3, JDevSame DEF nsfs_tx_abort, device
    <2> QED
      BY <1>3, <2>1 DEF JInv, nsfs_tx_abort, nsfs_tx_release, fs
  <1>4. CASE nsfs_sync
    <2>1. JDev'
      BY <1>0, <1>4, JDevSame, JDevFlush DEF nsfs_sync
    <2>2. hdr' = hdr /\ (hdrM' = hdrM \/ hdrM' = {hdr})
      BY <1>4 DEF nsfs_sync, Flush, device
    <2> QED
      BY <1>4, <2>1, <2>2 DEF JInv, ReadSurvives, nsfs_sync, fs
  <1>5. CASE nsfs_unmount
    <2>1. JDev' /\ hdrM' = hdrM /\ hdr' = hdr
      BY <1>0, <1>5, JDevSame DEF nsfs_unmount, device
    <2>2. /\ pc = "idle" /\ ~poisoned /\ UNCHANGED <<ro, poisoned>>
          /\ (ro /\ pc' = "uflush") \/ (~ro /\ pc' = "sb1")
      BY <1>5 DEF nsfs_unmount
    <2> QED
      BY <2>1, <2>2 DEF JInv, ReadSurvives, fs
  <1>6. CASE nsfs_abandon
    <2>1. JDev' /\ hdr' = hdr /\ hdrM' = hdrM
      BY <1>0, <1>6, JDevSame DEF nsfs_abandon, device
    <2> QED
      BY <1>6, <2>1 DEF JInv, nsfs_abandon, fs
  <1> QED
    BY <1>1, <1>2, <1>3, <1>4, <1>5, <1>6 DEF Call

LEMMA JDeviceError ==
    ASSUME CommitRecordReliable
    PROVE  JInv /\ DeviceError => JInv'
  <1> SUFFICES ASSUME JInv, DeviceError
               PROVE  JDev' /\ HeaderQuiet' /\ ImagesWritten'
    BY TypeDeviceError DEF JInv, TInv, JDev
  <1>0. DevType /\ MemType /\ JDev
    BY TypeParts DEF JInv, JDev
  <1> USE DEF HeaderQuiet, Quiet, ImagesWritten
  <1>1. CASE nsfs_tx_failed_before_commit
    <2>1. /\ pc \in {"images", "imgflush", "header"}
          /\ UNCHANGED device \/ \E k \in 0..Len(entries) : WriteSlots(entries, k)
      BY <1>1 DEF nsfs_tx_failed_before_commit, Fault, CommitRecordReliable
    <2>2. \A h \in hdrM : h.state = "EMPTY"
      BY <2>1 DEF JInv
    <2>3. JDev'
      BY <1>0, <2>1, <2>2, JDevSame, JDevSlots DEF MemType
    <2>4. hdr' = hdr /\ hdrM' = hdrM
      BY <2>1 DEF device, WriteSlots
    <2> QED
      BY <1>1, <2>1, <2>2, <2>3, <2>4
         DEF JInv, ReadSurvives, nsfs_tx_failed_before_commit, nsfs_tx_release
  <1>2. CASE nsfs_tx_failed_after_commit
    <2>1. /\ pc' = "idle" /\ poisoned' = TRUE
          /\ \/ UNCHANGED device
             \/ pc = "homes" /\ \E k \in 0..Len(entries) : WriteHomes(entries, k)
             \/ WriteHeader(EmptyHeader(sb.last_txid))
          /\ pc \in {"homes", "homeflush", "clear", "clearflush"}
      BY <1>2 DEF nsfs_tx_failed_after_commit
    <2>2. JDev'
      BY <1>0, <2>1, JDevSame, JDevHomes, JDevClear DEF MemType
    <2>3. hdr'.state = "EMPTY" \/ (hdr' = hdr /\ hdrM' = hdrM)
      BY <2>1 DEF device, WriteHomes, WriteHeader, EmptyHeader
    <2> QED
      BY <2>1, <2>2, <2>3 DEF JInv
  <1>3. CASE nsfs_recover_fail
    <2>1. /\ pc' = "off" /\ poisoned' = poisoned
          /\ \/ UNCHANGED device
             \/ \E k \in 0..Len(entries) : WriteHomes(entries, k)
             \/ WriteHeader(EmptyHeader(hdr.txid))
          /\ pc \in {"rhomes", "rflush", "rclear", "rclearflush"}
      BY <1>3 DEF nsfs_recover_fail
    <2>2. JDev'
      BY <1>0, <2>1, JDevSame, JDevHomes, JDevClear DEF MemType
    <2>3. hdr'.state = "EMPTY" \/ (hdr' = hdr /\ hdrM' = hdrM)
      BY <2>1 DEF device, WriteHomes, WriteHeader, EmptyHeader
    <2> QED
      BY <2>1, <2>2, <2>3 DEF JInv
  <1>4. CASE nsfs_write_super_pair_fail
    <2>1. /\ pc' \in {"off", "idle"} /\ poisoned' = TRUE
          /\ UNCHANGED device \/ WriteSuper(S0, sb) \/ WriteSuper(S1, sb)
          /\ pc \in {"sb1", "sb1flush", "sb0", "sb0flush"}
      BY <1>4 DEF nsfs_write_super_pair_fail
    <2>2. JDev'
      BY <1>0, <2>1, JDevSame, JDevSuper
    <2>3. hdr' = hdr /\ hdrM' = hdrM
      BY <2>1 DEF device, WriteSuper
    <2> QED
      BY <2>1, <2>2, <2>3 DEF JInv
  <1> QED
    BY <1>1, <1>2, <1>3, <1>4 DEF DeviceError

LEMMA JCrash == JInv /\ Crash => JInv'
  <1> SUFFICES ASSUME JInv, Crash
               PROVE  JDev' /\ HeaderQuiet' /\ ImagesWritten'
    BY TypeCrash DEF JInv, TInv, JDev
  <1>0. DevType /\ JDev
    BY TypeParts DEF JInv, JDev
  <1>1. JDev'
    BY <1>0, JDevCrash
  <1>2. pc' = "off" /\ hdrM' = {hdr'}
    BY DEF Crash
  <1> QED
    BY <1>1, <1>2 DEF HeaderQuiet, Quiet, ImagesWritten

LEMMA JNext ==
    ASSUME CommitRecordReliable
    PROVE  JInv /\ [Next]_vars => JInv'
  <1>1. JInv /\ UNCHANGED vars => JInv'
    BY DEF JInv, TypeOK, StagedFits, ReadSurvives, HeaderQuiet, Quiet,
           ImagesWritten, JournalIntact, CommitHeader, vars, device, fs
  <1> QED
    BY <1>1, JCommitStep, JMountStep, JPairStep, JCall, JDeviceError, JCrash
       DEF Next

\* Whatever a power cut preserves, a commit record on the medium finds exactly
\* the redo images it was sealed over, provided the commit record itself is
\* written and flushed without a device error (the barriers of nsfs_tx_commit
\* and of nsfs_clear_journal are in the right places).
THEOREM RedoImagesIntact ==
    ASSUME CommitRecordReliable
    PROVE  Spec => []JournalIntact
  <1>1. Spec => []JInv
    BY JInit, JNext, PTL DEF Spec
  <1>2. JInv => JournalIntact
    BY DEF JInv
  <1> QED
    BY <1>1, <1>2, PTL

----------------------------------------------------------------------------
(***************************************************************************)
(* A mount never meets a corrupt journal, nor free counters that disagree  *)
(* with the bitmaps, whatever power cuts and device errors came before,    *)
(* provided that none of the errors struck the commit record.  The         *)
(* invariant above is strengthened by what the home blocks hold on the     *)
(* medium and what a replay would make of them.                            *)
(***************************************************************************)

\* On every block of m that may survive, free counters and bitmap agree.
Settled(m, x) ==
    /\ m[Bitmap] = {[stamp |-> x]}
    /\ \A s \in m[S0] \cup m[S1] : s.stamp = x

Distinct(es) == \A i, j \in DOMAIN es : es[i].block = es[j].block => i = j

\* Redoing es over m brings them to agree: both superblocks are among the
\* targets, and so is the bitmap unless its stamp does not change.
Redo(m, es, x) ==
    /\ Distinct(es)
    /\ \E i \in DOMAIN es : es[i].block = S0 /\ es[i].image.stamp = x
    /\ \E i \in DOMAIN es : es[i].block = S1 /\ es[i].image.stamp = x
    /\ \/ \E i \in DOMAIN es : es[i].block = Bitmap /\ es[i].image = [stamp |-> x]
       \/ (\A i \in DOMAIN es : es[i].block # Bitmap) /\ m[Bitmap] = {[stamp |-> x]}

Redoable(m, es) == \E x \in Nat : Redo(m, es, x)

\* A mount may find the journal empty after a power cut, or the clear record
\* is the next write.
MayBeEmpty ==
    (\E h \in hdrM : h.state = "EMPTY") \/ pc \in {"clear", "rclear"}

\* The steps at which the superblock in memory agrees with the bitmap.
SbCurrent ==
    \/ pc \in {"sb1", "sb1flush", "sb0", "sb0flush", "clear", "clearflush"}
    \/ pc \in {"idle", "uflush"} /\ ~poisoned /\ ~ro

EmptySettled == MayBeEmpty => \E x \in Nat : Settled(homeM, x)

CommittedRedoable ==
    \A h \in hdrM : h.state = "COMMITTED" => Redoable(homeM, h.entries)

SuperSettled == SbCurrent => Settled(homeM, sb.stamp)

\* A transaction up to its commit point has not touched the home blocks.
OrigSettled ==
    pc \in {"staged", "images", "imgflush", "header", "commitflush"}
        => Settled(homeM, orig.stamp)

StagedSound ==
    pc = "staged" =>
        /\ Distinct(entries)
        /\ \A i \in DOMAIN entries : entries[i].block \in Home
        /\ \/ \E i \in DOMAIN entries :
                entries[i].block = Bitmap /\ entries[i].image = [stamp |-> sb.stamp]
           \/ /\ \A i \in DOMAIN entries : entries[i].block # Bitmap
              /\ sb.stamp = orig.stamp

SealedSound ==
    pc \in {"images", "imgflush", "header", "commitflush", "homes", "homeflush"}
        => Redo(homeM, entries, sb.stamp)

HomesWritten ==
    pc \in {"homeflush", "rflush"} =>
        \A i \in DOMAIN entries : home[entries[i].block] = entries[i].image

CInv == /\ EmptySettled /\ CommittedRedoable /\ SuperSettled /\ OrigSettled
        /\ StagedSound /\ SealedSound /\ HomesWritten /\ RecoverySucceeds

IInv == JInv /\ CInv

----------------------------------------------------------------------------
\* What the device operations do to agreement.

\* On the blocks that carry the counters, n may hold no more than m.
Shrinks(m, n) == \A b \in {Bitmap, S0, S1} : n[b] \subseteq m[b] /\ n[b] # {}

LEMMA CounterBlocks == {Bitmap, S0, S1} \subseteq Target
  BY BlockAssumption DEF Target

LEMMA ShrinkKeeps ==
    ASSUME NEW m, NEW n, Shrinks(m, n)
    PROVE  /\ \A x : Settled(m, x) => Settled(n, x)
           /\ \A es, x : Redo(m, es, x) => Redo(n, es, x)
           /\ \A es : Redoable(m, es) => Redoable(n, es)
  <1>1. /\ n[Bitmap] \subseteq m[Bitmap] /\ n[Bitmap] # {}
        /\ n[S0] \subseteq m[S0] /\ n[S1] \subseteq m[S1]
    BY DEF Shrinks
  <1>2. \A v : m[Bitmap] = {v} => n[Bitmap] = {v}
    BY <1>1
  <1>3. \A x : Settled(m, x) => Settled(n, x)
    BY <1>1, <1>2 DEF Settled
  <1>4. \A es, x : Redo(m, es, x) => Redo(n, es, x)
    BY <1>2 DEF Redo
  <1> QED
    BY <1>3, <1>4 DEF Redoable

LEMMA DeviceShrinks ==
    ASSUME ReadSurvives
    PROVE  /\ Flush => Shrinks(homeM, homeM')
           /\ Crash => Shrinks(homeM, homeM')
           /\ homeM' = homeM => Shrinks(homeM, homeM')
  <1>1. ASSUME Flush PROVE Shrinks(homeM, homeM')
    BY <1>1, CounterBlocks DEF ReadSurvives, Shrinks, Flush
  <1>2. ASSUME Crash PROVE Shrinks(homeM, homeM')
    BY <1>2, CounterBlocks DEF Shrinks, Crash, Survivor
  <1>3. ASSUME homeM' = homeM PROVE Shrinks(homeM, homeM')
    BY <1>3, CounterBlocks DEF ReadSurvives, Shrinks
  <1> QED
    BY <1>1, <1>2, <1>3

\* A step that only settles blocks, and adds no header, keeps what a mount
\* may find sound.
LEMMA ShrinkStep ==
    ASSUME EmptySettled, CommittedRedoable, Shrinks(homeM, homeM'),
           hdrM' \subseteq hdrM, pc' \notin {"clear", "rclear"}
    PROVE  EmptySettled' /\ CommittedRedoable'
  <1>1. MayBeEmpty' => MayBeEmpty
    BY DEF MayBeEmpty
  <1>2. EmptySettled'
    BY <1>1, ShrinkKeeps DEF EmptySettled
  <1>3. CommittedRedoable'
    BY ShrinkKeeps DEF CommittedRedoable
  <1> QED
    BY <1>2, <1>3

\* A superblock of the settled stamp keeps the pair settled; replay does not
\* look at the superblocks it overwrites.
LEMMA SuperKeeps ==
    ASSUME DevType, NEW b \in {S0, S1}, NEW s, WriteSuper(b, s)
    PROVE  /\ Settled(homeM, s.stamp) => Settled(homeM', s.stamp)
           /\ \A es, x : Redo(homeM, es, x) => Redo(homeM', es, x)
           /\ hdrM' = hdrM
  <1>1. Bitmap # b /\ Bitmap \in Target /\ S0 \in Target /\ S1 \in Target
    BY BlockAssumption DEF Target
  <1>2. homeM'[Bitmap] = homeM[Bitmap]
    BY <1>1 DEF WriteSuper, DevType
  <1>3. \A c \in {S0, S1} : homeM'[c] \subseteq homeM[c] \cup {s}
    BY <1>1 DEF WriteSuper, DevType
  <1>4. Settled(homeM, s.stamp) => Settled(homeM', s.stamp)
    BY <1>2, <1>3 DEF Settled
  <1>5. \A es, x : Redo(homeM, es, x) => Redo(homeM', es, x)
    BY <1>2 DEF Redo
  <1> QED
    BY <1>4, <1>5 DEF WriteSuper

\* Writing some of the images of es to their homes leaves es redoable.
LEMMA HomesKeepRedo ==
    ASSUME NEW es \in Seq(Entry), NEW k \in 0..Len(es), WriteHomes(es, k),
           NEW x, Redo(homeM, es, x)
    PROVE  Redo(homeM', es, x)
  <1>1. ASSUME \A i \in DOMAIN es : es[i].block # Bitmap
        PROVE  homeM'[Bitmap] = homeM[Bitmap]
    <2>1. Written(es, k, Bitmap) = {}
      BY <1>1 DEF Written
    <2> QED
      BY <2>1, CounterBlocks DEF WriteHomes
  <1> QED
    BY <1>1 DEF Redo

\* Writing all of them leaves every target with its image.
LEMMA HomesInstalled ==
    ASSUME NEW es \in Seq(Entry), WriteHomes(es, Len(es)), Distinct(es),
           NEW i \in DOMAIN es
    PROVE  home'[es[i].block] = es[i].image
  <1>1. es[i] \in Entry /\ i \in 1..Len(es)
    OBVIOUS
  <1>2. es[i].block \in Target
    BY <1>1, ImageTypes
  <1>3. Written(es, Len(es), es[i].block) = {es[i].image}
    BY <1>1 DEF Written, Distinct
  <1> QED
    BY <1>2, <1>3 DEF WriteHomes

\* A barrier after that leaves counters and bitmap in agreement.
LEMMA RedoSettles ==
    ASSUME ReadSurvives, NEW es, NEW x, Redo(homeM, es, x), Flush,
           \A i \in DOMAIN es : home[es[i].block] = es[i].image
    PROVE  Settled(homeM', x)
  <1>1. home[S0].stamp = x /\ home[S1].stamp = x
    BY DEF Redo
  <1>2. home[Bitmap] = [stamp |-> x]
    BY CounterBlocks DEF Redo, ReadSurvives
  <1> QED
    BY <1>1, <1>2, CounterBlocks DEF Settled, Flush

----------------------------------------------------------------------------
\* The invariant is preserved.

LEMMA CInit == Init => CInv
  <1> SUFFICES ASSUME Init PROVE CInv
    OBVIOUS
  <1>1. /\ homeM[Bitmap] = {[stamp |-> 0]}
        /\ homeM[S0] = {FormatSuper} /\ homeM[S1] = {FormatSuper}
    BY BlockAssumption, CounterBlocks DEF Init, nsfs_format
  <1>2. Settled(homeM, 0)
    BY <1>1 DEF Settled, FormatSuper
  <1>3. \A h \in hdrM : h.state = "EMPTY"
    BY DEF Init, nsfs_format, EmptyHeader
  <1> QED
    BY <1>2, <1>3 DEF Init, CInv, EmptySettled, CommittedRedoable, SuperSettled,
       SbCurrent, OrigSettled, StagedSound, SealedSound, HomesWritten,
       RecoverySucceeds

\* Sealing a staged transaction makes it redoable: nsfs_tx_append_super adds
\* both superblocks, with the counters of the bitmap staged or of the old one.
LEMMA SealRedo ==
    ASSUME IInv, nsfs_tx_commit
    PROVE  Redo(homeM', entries', sb'.stamp)
  <1>0. DevType /\ MemType /\ pc = "staged"
    BY TypeParts DEF IInv, JInv, nsfs_tx_commit
  <1>1. sb'.stamp = sb.stamp
    BY DEF nsfs_tx_commit
  <1>2. entries \in Seq(Entry) /\ Len(entries) \in Nat
    BY <1>0 DEF MemType
  <1> DEFINE n == Len(entries)
  <1>3. /\ DOMAIN entries = 1..n /\ DOMAIN entries' = 1..(n + 2)
        /\ \A i \in 1..n : entries'[i] = entries[i]
        /\ entries'[n + 1] = [block |-> S1, image |-> sb']
        /\ entries'[n + 2] = [block |-> S0, image |-> sb']
    BY <1>2 DEF nsfs_tx_commit
  <1>4. /\ Distinct(entries)
        /\ \A i \in 1..n : entries[i].block \in Home
    BY <1>0, <1>3 DEF IInv, CInv, StagedSound
  <1>5. Distinct(entries')
    <2> SUFFICES ASSUME NEW i \in 1..(n + 2), NEW j \in 1..(n + 2),
                        entries'[i].block = entries'[j].block
                 PROVE  i = j
      BY <1>3 DEF Distinct
    <2>1. \A k \in 1..(n + 2) : k \in 1..n \/ k = n + 1 \/ k = n + 2
      BY <1>2
    <2>2. /\ entries'[n + 1].block = S1 /\ entries'[n + 2].block = S0
          /\ \A k \in 1..n : entries'[k].block \in Home
                             /\ entries'[k].block = entries[k].block
      BY <1>3, <1>4
    <2> QED
      BY <1>3, <1>4, <2>1, <2>2, BlockAssumption DEF Distinct
  <1>6. n + 1 \in 1..(n + 2) /\ n + 2 \in 1..(n + 2) /\ 1..n \subseteq 1..(n + 2)
    BY <1>2
  <1>7. /\ \E i \in DOMAIN entries' : entries'[i].block = S0 /\ entries'[i].image.stamp = sb'.stamp
        /\ \E i \in DOMAIN entries' : entries'[i].block = S1 /\ entries'[i].image.stamp = sb'.stamp
    BY <1>3, <1>6
  <1>8. CASE \E i \in DOMAIN entries :
               entries[i].block = Bitmap /\ entries[i].image = [stamp |-> sb.stamp]
    BY <1>1, <1>3, <1>5, <1>6, <1>7, <1>8 DEF Redo
  <1>9. CASE (\A i \in DOMAIN entries : entries[i].block # Bitmap)
             /\ sb.stamp = orig.stamp
    <2>1. \A i \in DOMAIN entries' : entries'[i].block # Bitmap
      <3>1. \A k \in 1..(n + 2) : k \in 1..n \/ k = n + 1 \/ k = n + 2
        BY <1>2
      <3> QED
        BY <1>3, <1>9, <3>1, BlockAssumption
    <2>2. homeM[Bitmap] = {[stamp |-> sb.stamp]}
      BY <1>0, <1>9 DEF IInv, CInv, OrigSettled, Settled
    <2>3. homeM'[Bitmap] = {[stamp |-> sb'.stamp]}
      BY <1>1, <2>2 DEF nsfs_tx_commit, device
    <2> QED
      BY <1>5, <1>7, <2>1, <2>3 DEF Redo
  <1> QED
    BY <1>0, <1>8, <1>9 DEF IInv, CInv, StagedSound

LEMMA CCommitStep == IInv /\ CommitStep => CInv'
  <1> SUFFICES ASSUME IInv, CommitStep PROVE CInv'
    OBVIOUS
  <1>0. DevType /\ MemType /\ ReadSurvives /\ HeaderQuiet
    BY TypeParts DEF IInv, JInv
  <1>a. CInv /\ EmptySettled /\ CommittedRedoable
    BY DEF IInv, CInv
  <1>b. sb.stamp \in Nat /\ entries \in Seq(Entry) /\ Len(entries) \in 0..Len(entries)
    BY <1>0 DEF MemType, Superblock
  <1> USE DEF CInv, SuperSettled, SbCurrent, OrigSettled, StagedSound,
              SealedSound, HomesWritten, RecoverySucceeds
  <1>1. CASE nsfs_tx_commit
    <2>1. homeM' = homeM /\ hdrM' = hdrM /\ orig' = orig /\ err' = err
          /\ pc = "staged" /\ pc' = "images"
      BY <1>1 DEF nsfs_tx_commit, device
    <2>2. Redo(homeM', entries', sb'.stamp)
      BY <1>1, SealRedo
    <2>3. EmptySettled' /\ CommittedRedoable'
      BY <1>0, <1>a, <2>1, DeviceShrinks, ShrinkStep
    <2> QED
      BY <1>a, <2>1, <2>2, <2>3
  <1>2. CASE nsfs_tx_write_images
    <2>1. homeM' = homeM /\ hdrM' = hdrM /\ UNCHANGED <<orig, err, sb, entries>>
          /\ pc = "images" /\ pc' = "imgflush"
      BY <1>2 DEF nsfs_tx_write_images, WriteSlots, fs
    <2>3. EmptySettled' /\ CommittedRedoable'
      BY <1>0, <1>a, <2>1, DeviceShrinks, ShrinkStep
    <2> QED
      BY <1>a, <2>1, <2>3
  <1>3. CASE nsfs_tx_flush_images
    <2>1. Flush /\ hdrM' \subseteq hdrM /\ UNCHANGED <<orig, err, sb, entries>>
          /\ pc = "imgflush" /\ pc' = "header"
      BY <1>0, <1>3 DEF nsfs_tx_flush_images, Flush, fs, ReadSurvives
    <2>2. Shrinks(homeM, homeM')
      BY <1>0, <2>1, DeviceShrinks
    <2>3. EmptySettled' /\ CommittedRedoable'
      BY <1>a, <2>1, <2>2, ShrinkStep
    <2> QED
      BY <1>a, <2>1, <2>2, <2>3, ShrinkKeeps
  <1>4. CASE nsfs_tx_write_commit
    <2>1. homeM' = homeM /\ hdrM' = hdrM \cup {CommitHeader}
          /\ UNCHANGED <<orig, err, sb, entries>>
          /\ pc = "header" /\ pc' = "commitflush"
      BY <1>4 DEF nsfs_tx_write_commit, WriteHeader, fs
    <2>2. CommitHeader.entries = entries /\ Redoable(homeM, entries)
      BY <1>a, <1>b, <2>1 DEF CommitHeader, Redoable
    <2>3. CommittedRedoable'
      BY <1>a, <2>1, <2>2 DEF CommittedRedoable
    <2>4. orig.stamp \in Nat
      BY <1>0 DEF MemType, Superblock
    <2>5. EmptySettled'
      BY <1>a, <2>1, <2>4 DEF EmptySettled
    <2> QED
      BY <1>a, <2>1, <2>3, <2>5
  <1>5. CASE nsfs_tx_flush_commit
    <2>1. Flush /\ hdrM' = {hdr} /\ UNCHANGED <<orig, err, sb, entries>>
          /\ pc = "commitflush" /\ pc' = "homes"
      BY <1>0, <1>5 DEF nsfs_tx_flush_commit, Flush, fs
    <2>2. Shrinks(homeM, homeM') /\ hdrM' \subseteq hdrM
      BY <1>0, <2>1, DeviceShrinks DEF ReadSurvives
    <2>3. EmptySettled' /\ CommittedRedoable'
      BY <1>a, <2>1, <2>2, ShrinkStep
    <2> QED
      BY <1>a, <2>1, <2>2, <2>3, ShrinkKeeps
  <1>6. CASE nsfs_tx_write_homes
    <2>1. WriteHomes(entries, Len(entries)) /\ hdrM' = hdrM
          /\ UNCHANGED <<orig, err, sb, entries>>
          /\ pc = "homes" /\ pc' = "homeflush"
      BY <1>6 DEF nsfs_tx_write_homes, WriteHomes, fs
    <2>2. Redo(homeM, entries, sb.stamp)
      BY <1>a, <2>1
    <2>3. Redo(homeM', entries, sb.stamp)
      BY <1>b, <2>1, <2>2, HomesKeepRedo
    <2>4. \A h \in hdrM : h.state = "COMMITTED" /\ h.entries = entries
      BY <1>0, <2>1 DEF HeaderQuiet
    <2>5. CommittedRedoable'
      BY <1>b, <2>1, <2>3, <2>4 DEF CommittedRedoable, Redoable
    <2>6. EmptySettled'
      BY <2>1, <2>4 DEF EmptySettled, MayBeEmpty
    <2>7. \A i \in DOMAIN entries : home'[entries[i].block] = entries[i].image
      BY <1>b, <2>1, <2>2, HomesInstalled DEF Redo
    <2> QED
      BY <1>a, <2>1, <2>3, <2>5, <2>6, <2>7
  <1>7. CASE nsfs_tx_flush_homes
    <2>1. Flush /\ hdrM' \subseteq hdrM /\ UNCHANGED <<orig, err, sb, entries>>
          /\ pc = "homeflush" /\ pc' = "clear"
      BY <1>0, <1>7 DEF nsfs_tx_flush_homes, Flush, fs, ReadSurvives
    <2>2. Settled(homeM', sb.stamp)
      BY <1>0, <1>a, <2>1, RedoSettles
    <2>3. Shrinks(homeM, homeM')
      BY <1>0, <2>1, DeviceShrinks
    <2>4. EmptySettled' /\ CommittedRedoable'
      BY <1>a, <1>b, <2>1, <2>2, <2>3, ShrinkKeeps DEF EmptySettled, CommittedRedoable
    <2> QED
      BY <1>a, <2>1, <2>2, <2>4
  <1>8. CASE nsfs_clear_journal_write
    <2>1. homeM' = homeM /\ hdrM' = hdrM \cup {EmptyHeader(sb.last_txid)}
          /\ UNCHANGED <<orig, err, sb, entries>>
          /\ pc = "clear" /\ pc' = "clearflush"
      BY <1>8 DEF nsfs_clear_journal_write, WriteHeader, fs
    <2>2. CommittedRedoable'
      BY <1>a, <2>1 DEF CommittedRedoable, EmptyHeader
    <2>3. EmptySettled'
      BY <1>a, <1>b, <2>1 DEF EmptySettled
    <2> QED
      BY <1>a, <2>1, <2>2, <2>3
  <1>9. CASE nsfs_clear_journal_flush
    <2>1. Flush /\ hdrM' \subseteq hdrM /\ UNCHANGED <<orig, err, sb>>
          /\ pc = "clearflush" /\ pc' = "idle"
      BY <1>0, <1>9 DEF nsfs_clear_journal_flush, Flush, ReadSurvives
    <2>2. Shrinks(homeM, homeM')
      BY <1>0, <2>1, DeviceShrinks
    <2>3. EmptySettled' /\ CommittedRedoable'
      BY <1>a, <2>1, <2>2, ShrinkStep
    <2> QED
      BY <1>a, <2>1, <2>2, <2>3, ShrinkKeeps
  <1> QED
    BY <1>1, <1>2, <1>3, <1>4, <1>5, <1>6, <1>7, <1>8, <1>9 DEF CommitStep

\* What a mount reads of the superblocks and the bitmap agrees when the
\* journal is empty.
LEMMA EmptyIsValid ==
    ASSUME IInv, hdr.state = "EMPTY"
    PROVE  /\ nsfs_validate_bitmaps(nsfs_read_superblocks)
           /\ Settled(homeM, nsfs_read_superblocks.stamp)
  <1>1. ReadSurvives /\ EmptySettled
    BY DEF IInv, JInv, CInv
  <1>2. MayBeEmpty
    BY <1>1 DEF ReadSurvives, MayBeEmpty
  <1>3. PICK x \in Nat : Settled(homeM, x)
    BY <1>1, <1>2 DEF EmptySettled
  <1>4. home[Bitmap] = [stamp |-> x] /\ home[S0].stamp = x /\ home[S1].stamp = x
    BY <1>1, <1>3, CounterBlocks DEF ReadSurvives, Settled
  <1>5. nsfs_read_superblocks.stamp = x
    BY <1>4 DEF nsfs_read_superblocks
  <1> QED
    BY <1>3, <1>4, <1>5 DEF nsfs_validate_bitmaps

LEMMA CMountStep == IInv /\ MountStep => CInv'
  <1> SUFFICES ASSUME IInv, MountStep PROVE CInv'
    OBVIOUS
  <1>0. DevType /\ MemType /\ ReadSurvives /\ HeaderQuiet
    BY TypeParts DEF IInv, JInv
  <1>a. CInv /\ EmptySettled /\ CommittedRedoable
    BY DEF IInv, CInv
  <1>b. entries \in Seq(Entry) /\ Len(entries) \in 0..Len(entries)
    BY <1>0 DEF MemType
  <1> USE DEF CInv, SuperSettled, SbCurrent, OrigSettled, StagedSound,
              SealedSound, HomesWritten, RecoverySucceeds
  <1>1. CASE nsfs_recover_write_homes
    <2>1. WriteHomes(entries, Len(entries)) /\ hdrM' = hdrM
          /\ UNCHANGED <<err, entries>> /\ pc = "rhomes" /\ pc' = "rflush"
      BY <1>1 DEF nsfs_recover_write_homes, WriteHomes, fs
    <2>2. /\ \A h \in hdrM : h.state = "COMMITTED" /\ h.entries = entries
          /\ hdr \in hdrM
      BY <1>0, <2>1 DEF HeaderQuiet, ReadSurvives
    <2>3. PICK x \in Nat : Redo(homeM, entries, x)
      BY <1>a, <2>2 DEF CommittedRedoable, Redoable
    <2>4. Redo(homeM', entries, x)
      BY <1>b, <2>1, <2>3, HomesKeepRedo
    <2>5. EmptySettled' /\ CommittedRedoable'
      BY <2>1, <2>2, <2>4 DEF EmptySettled, MayBeEmpty, CommittedRedoable, Redoable
    <2>6. \A i \in DOMAIN entries : home'[entries[i].block] = entries[i].image
      BY <1>b, <2>1, <2>3, HomesInstalled DEF Redo
    <2> QED
      BY <1>a, <2>1, <2>5, <2>6
  <1>2. CASE nsfs_recover_flush
    <2>1. Flush /\ hdrM' \subseteq hdrM /\ UNCHANGED <<err, entries>>
          /\ pc = "rflush" /\ pc' = "rclear"
      BY <1>0, <1>2 DEF nsfs_recover_flush, Flush, fs, ReadSurvives
    <2>2. /\ \A h \in hdrM : h.state = "COMMITTED" /\ h.entries = entries
          /\ hdr \in hdrM
      BY <1>0, <2>1 DEF HeaderQuiet, ReadSurvives
    <2>3. PICK x \in Nat : Redo(homeM, entries, x)
      BY <1>a, <2>2 DEF CommittedRedoable, Redoable
    <2>4. Settled(homeM', x)
      BY <1>0, <1>a, <2>1, <2>3, RedoSettles
    <2>5. Shrinks(homeM, homeM')
      BY <1>0, <2>1, DeviceShrinks
    <2>6. EmptySettled' /\ CommittedRedoable'
      BY <1>a, <2>1, <2>4, <2>5, ShrinkKeeps DEF EmptySettled, CommittedRedoable
    <2> QED
      BY <1>a, <2>1, <2>6
  <1>3. CASE nsfs_recover_clear_write
    <2>1. homeM' = homeM /\ hdrM' = hdrM \cup {EmptyHeader(hdr.txid)}
          /\ err' = err /\ pc = "rclear" /\ pc' = "rclearflush"
      BY <1>3 DEF nsfs_recover_clear_write, WriteHeader, fs
    <2>2. CommittedRedoable'
      BY <1>a, <2>1 DEF CommittedRedoable, EmptyHeader
    <2>3. EmptySettled'
      BY <1>a, <2>1 DEF EmptySettled, MayBeEmpty
    <2> QED
      BY <1>a, <2>1, <2>2, <2>3
  <1>4. CASE nsfs_recover_clear_flush
    <2>1. Flush /\ hdrM' \subseteq hdrM /\ err' = err
          /\ pc = "rclearflush" /\ pc' = "reread"
      BY <1>0, <1>4 DEF nsfs_recover_clear_flush, Flush, ReadSurvives
    <2>2. EmptySettled' /\ CommittedRedoable'
      BY <1>0, <1>a, <2>1, DeviceShrinks, ShrinkStep
    <2> QED
      BY <1>a, <2>1, <2>2
  <1>5. CASE nsfs_mount_finish
    <2>1. homeM' = homeM /\ hdrM' = hdrM /\ ro' = ro /\ hdr.state = "EMPTY"
      BY <1>0, <1>5 DEF nsfs_mount_finish, device, HeaderQuiet
    <2>2. /\ nsfs_validate_bitmaps(nsfs_read_superblocks)
          /\ Settled(homeM, nsfs_read_superblocks.stamp)
      BY <2>1, EmptyIsValid
    <2>3. /\ err' = err
          /\ \/ pc' = "idle" /\ ro
             \/ pc' = "sb1" /\ sb' = SealPair(nsfs_read_superblocks, "DIRTY")
      BY <1>5, <2>2 DEF nsfs_mount_finish
    <2>4. SealPair(nsfs_read_superblocks, "DIRTY").stamp = nsfs_read_superblocks.stamp
      BY <1>0, BestType, SealType
    <2>5. pc' = "sb1" => Settled(homeM', sb'.stamp)
      BY <2>1, <2>2, <2>3, <2>4
    <2>6. EmptySettled' /\ CommittedRedoable'
      BY <1>0, <1>a, <2>1, <2>3, DeviceShrinks, ShrinkStep
    <2> QED
      BY <1>a, <2>1, <2>3, <2>5, <2>6
  <1> QED
    BY <1>1, <1>2, <1>3, <1>4, <1>5 DEF MountStep

\* Writing the superblock in memory to either copy.
LEMMA SuperStep ==
    ASSUME IInv, NEW b \in {S0, S1}, WriteSuper(b, sb),
           Settled(homeM, sb.stamp), pc' \notin {"clear", "rclear"}
    PROVE  EmptySettled' /\ CommittedRedoable' /\ Settled(homeM', sb.stamp)
  <1>1. DevType /\ MemType /\ CommittedRedoable
    BY TypeParts DEF IInv, JInv, CInv
  <1>2. /\ Settled(homeM', sb.stamp) /\ hdrM' = hdrM
        /\ \A es, x : Redo(homeM, es, x) => Redo(homeM', es, x)
    BY <1>1, SuperKeeps
  <1>3. sb.stamp \in Nat
    BY <1>1 DEF MemType, Superblock
  <1>4. CommittedRedoable'
    BY <1>1, <1>2 DEF CommittedRedoable, Redoable
  <1> QED
    BY <1>2, <1>3, <1>4 DEF EmptySettled

LEMMA CPairStep == IInv /\ (PairStep \/ nsfs_unmount_flush) => CInv'
  <1> SUFFICES ASSUME IInv, PairStep \/ nsfs_unmount_flush PROVE CInv'
    OBVIOUS
  <1>0. DevType /\ MemType /\ ReadSurvives /\ HeaderQuiet
    BY TypeParts DEF IInv, JInv
  <1>a. CInv /\ EmptySettled /\ CommittedRedoable
    BY DEF IInv, CInv
  <1> USE DEF CInv, SuperSettled, SbCurrent, OrigSettled, StagedSound,
              SealedSound, HomesWritten, RecoverySucceeds
  <1>1. CASE nsfs_write_super_pair_write(S1, "sb1", "sb1flush")
    <2>1. WriteSuper(S1, sb) /\ UNCHANGED <<sb, err>>
          /\ pc = "sb1" /\ pc' = "sb1flush"
      BY <1>1 DEF nsfs_write_super_pair_write, fs
    <2>2. EmptySettled' /\ CommittedRedoable' /\ Settled(homeM', sb.stamp)
      BY <1>a, <2>1, SuperStep
    <2> QED
      BY <1>a, <2>1, <2>2
  <1>2. CASE nsfs_write_super_pair_write(S0, "sb0", "sb0flush")
    <2>1. WriteSuper(S0, sb) /\ UNCHANGED <<sb, err>>
          /\ pc = "sb0" /\ pc' = "sb0flush"
      BY <1>2 DEF nsfs_write_super_pair_write, fs
    <2>2. EmptySettled' /\ CommittedRedoable' /\ Settled(homeM', sb.stamp)
      BY <1>a, <2>1, SuperStep
    <2> QED
      BY <1>a, <2>1, <2>2
  <1>3. CASE nsfs_write_super_pair_flush1
    <2>1. Flush /\ hdrM' \subseteq hdrM /\ UNCHANGED <<sb, err>>
          /\ pc = "sb1flush" /\ pc' = "sb0"
      BY <1>0, <1>3 DEF nsfs_write_super_pair_flush1, Flush, fs, ReadSurvives
    <2>2. Shrinks(homeM, homeM')
      BY <1>0, <2>1, DeviceShrinks
    <2>3. EmptySettled' /\ CommittedRedoable'
      BY <1>a, <2>1, <2>2, ShrinkStep
    <2> QED
      BY <1>a, <2>1, <2>2, <2>3, ShrinkKeeps
  <1>4. CASE nsfs_write_super_pair_flush0
    <2>1. Flush /\ hdrM' \subseteq hdrM /\ sb' = sb /\ (err' = err \/ err' = "none")
          /\ pc = "sb0flush" /\ pc' \in {"idle", "uflush"}
      BY <1>0, <1>4 DEF nsfs_write_super_pair_flush0, Flush, ReadSurvives
    <2>2. Shrinks(homeM, homeM')
      BY <1>0, <2>1, DeviceShrinks
    <2>3. EmptySettled' /\ CommittedRedoable'
      BY <1>a, <2>1, <2>2, ShrinkStep
    <2> QED
      BY <1>a, <2>1, <2>2, <2>3, ShrinkKeeps
  <1>5. CASE nsfs_unmount_flush
    <2>1. /\ pc = "uflush" /\ pc' \in {"off", "idle"}
          /\ UNCHANGED <<ro, sb, poisoned, err>>
          /\ Flush \/ UNCHANGED device
      BY <1>5 DEF nsfs_unmount_flush, fs
    <2>2. Shrinks(homeM, homeM') /\ hdrM' \subseteq hdrM
      BY <1>0, <2>1, DeviceShrinks DEF device, Flush, ReadSurvives
    <2>3. EmptySettled' /\ CommittedRedoable'
      BY <1>a, <2>1, <2>2, ShrinkStep
    <2> QED
      BY <1>a, <2>1, <2>2, <2>3, ShrinkKeeps
  <1> QED
    BY <1>1, <1>2, <1>3, <1>4, <1>5 DEF PairStep

\* A committed record that a mount finds passes its checksums.
LEMMA CommittedIsIntact ==
    ASSUME JInv, hdr.state = "COMMITTED"
    PROVE  ChecksumsMatch
  <1>1. DevType /\ ReadSurvives /\ JournalIntact
    BY TypeParts DEF JInv
  <1>2. hdr \in hdrM
    BY <1>1 DEF ReadSurvives
  <1>3. ASSUME NEW i \in DOMAIN hdr.entries
        PROVE  slot[i] = hdr.entries[i].image
    <2>1. i \in Slot
      BY <1>1, <1>2, <1>3, EntryIsSlot
    <2>2. slotM[i] = {hdr.entries[i].image}
      BY <1>1, <1>2, <1>3 DEF JournalIntact
    <2> QED
      BY <1>1, <2>1, <2>2 DEF ReadSurvives
  <1> QED
    BY <1>3 DEF ChecksumsMatch

LEMMA CCall == IInv /\ Call => CInv'
  <1> SUFFICES ASSUME IInv, Call PROVE CInv'
    OBVIOUS
  <1>0. DevType /\ MemType /\ ReadSurvives /\ HeaderQuiet
    BY TypeParts DEF IInv, JInv
  <1>a. CInv /\ EmptySettled /\ CommittedRedoable
    BY DEF IInv, CInv
  <1> USE DEF CInv, SuperSettled, SbCurrent, OrigSettled, StagedSound,
              SealedSound, HomesWritten, RecoverySucceeds
  <1>1. ASSUME NEW r \in BOOLEAN, NEW c \in BOOLEAN, nsfs_mount(r, c)
        PROVE  CInv'
    <2>1. homeM' = homeM /\ hdrM' = hdrM
      BY <1>1 DEF nsfs_mount, device
    <2>2. hdr.state = "COMMITTED" => ChecksumsMatch
      BY CommittedIsIntact DEF IInv
    <2>3. err' # "EIO" /\ pc' \in {"off", "reread", "rhomes"}
      BY <1>1, <2>2 DEF nsfs_mount
    <2>4. EmptySettled' /\ CommittedRedoable'
      BY <1>0, <1>a, <2>1, <2>3, DeviceShrinks, ShrinkStep
    <2> QED
      BY <2>3, <2>4
  <1>2. ASSUME NEW blocks \in Footprint, nsfs_tx_begin(blocks)
        PROVE  CInv'
    <2>1. homeM' = homeM /\ hdrM' = hdrM /\ err' = err /\ orig' = sb
          /\ pc = "idle" /\ ~poisoned /\ ~ro /\ pc' = "staged"
      BY <1>2 DEF nsfs_tx_begin, device
    <2>2. /\ DOMAIN entries' = DOMAIN blocks
          /\ \A i \in DOMAIN blocks : /\ entries'[i].block = blocks[i]
                                      /\ entries'[i].image = [stamp |-> seq']
      BY <1>0, <1>2, StagedEntries
    <2>3. /\ \A i, j \in DOMAIN blocks : blocks[i] = blocks[j] => i = j
          /\ \A i \in DOMAIN blocks : blocks[i] \in Home
      BY <1>2, FootprintType
    <2>4. Distinct(entries') /\ \A i \in DOMAIN entries' : entries'[i].block \in Home
      BY <2>2, <2>3 DEF Distinct
    <2>5. EmptySettled' /\ CommittedRedoable'
      BY <1>0, <1>a, <2>1, DeviceShrinks, ShrinkStep
    <2>6. OrigSettled'
      BY <1>a, <2>1
    <2>7. CASE \E i \in DOMAIN blocks : blocks[i] = Bitmap
      <3>1. sb'.stamp = seq'
        BY <1>0, <1>2, <2>7 DEF nsfs_tx_begin, MemType, Superblock
      <3>2. \E i \in DOMAIN entries' :
              entries'[i].block = Bitmap /\ entries'[i].image = [stamp |-> sb'.stamp]
        BY <2>2, <2>7, <3>1
      <3> QED
        BY <1>a, <2>1, <2>4, <2>5, <2>6, <3>2
    <2>8. CASE ~\E i \in DOMAIN blocks : blocks[i] = Bitmap
      <3>1. sb' = sb
        BY <1>2, <2>8 DEF nsfs_tx_begin
      <3>2. \A i \in DOMAIN entries' : entries'[i].block # Bitmap
        BY <2>2, <2>8
      <3> QED
        BY <1>a, <2>1, <2>4, <2>5, <2>6, <3>1, <3>2
    <2> QED
      BY <2>7, <2>8
  <1>3. CASE nsfs_tx_abort
    <2>1. homeM' = homeM /\ hdrM' = hdrM /\ err' = err /\ sb' = orig
          /\ pc = "staged" /\ pc' = "idle"
      BY <1>3 DEF nsfs_tx_abort, nsfs_tx_release, device
    <2>2. EmptySettled' /\ CommittedRedoable'
      BY <1>0, <1>a, <2>1, DeviceShrinks, ShrinkStep
    <2> QED
      BY <1>a, <2>1, <2>2
  <1>4. CASE nsfs_sync
    <2>1. /\ pc = "idle" /\ pc' = "idle"
          /\ UNCHANGED <<ro, sb, poisoned, err>>
          /\ Flush \/ UNCHANGED device
      BY <1>4 DEF nsfs_sync, fs
    <2>2. Shrinks(homeM, homeM') /\ hdrM' \subseteq hdrM
      BY <1>0, <2>1, DeviceShrinks DEF device, Flush, ReadSurvives
    <2>3. EmptySettled' /\ CommittedRedoable'
      BY <1>a, <2>1, <2>2, ShrinkStep
    <2> QED
      BY <1>a, <2>1, <2>2, <2>3, ShrinkKeeps
  <1>5. CASE nsfs_unmount
    <2>1. homeM' = homeM /\ hdrM' = hdrM /\ err' = err
          /\ pc = "idle" /\ ~poisoned /\ UNCHANGED <<ro, poisoned>>
          /\ \/ ro /\ pc' = "uflush"
             \/ ~ro /\ pc' = "sb1" /\ sb' = SealPair(sb, "CLEAN")
      BY <1>5 DEF nsfs_unmount, device
    <2>2. SealPair(sb, "CLEAN").stamp = sb.stamp
      BY <1>0, SealType DEF MemType
    <2>3. ~ro => Settled(homeM', sb'.stamp)
      BY <1>a, <2>1, <2>2
    <2>4. EmptySettled' /\ CommittedRedoable'
      BY <1>0, <1>a, <2>1, DeviceShrinks, ShrinkStep
    <2> QED
      BY <1>a, <2>1, <2>3, <2>4
  <1>6. CASE nsfs_abandon
    <2>1. homeM' = homeM /\ hdrM' = hdrM /\ err' = err /\ pc' = "off"
      BY <1>6 DEF nsfs_abandon, device, fs
    <2>2. EmptySettled' /\ CommittedRedoable'
      BY <1>0, <1>a, <2>1, DeviceShrinks, ShrinkStep
    <2> QED
      BY <1>a, <2>1, <2>2
  <1> QED
    BY <1>1, <1>2, <1>3, <1>4, <1>5, <1>6 DEF Call

\* An error while homes are written or the record is cleared leaves either
\* every header that may survive redoable or the home blocks settled.
LEMMA ApplyError ==
    ASSUME IInv,
           pc \in {"homes", "homeflush", "clear", "clearflush",
                   "rhomes", "rflush", "rclear", "rclearflush"},
           pc' \in {"idle", "off"}, NEW t,
           \/ UNCHANGED device
           \/ /\ pc \in {"homes", "rhomes"}
              /\ \E k \in 0..Len(entries) : WriteHomes(entries, k)
           \/ pc \in {"clear", "rclear"} /\ WriteHeader(EmptyHeader(t))
    PROVE  EmptySettled' /\ CommittedRedoable'
  <1>0. DevType /\ MemType /\ ReadSurvives /\ HeaderQuiet
    BY TypeParts DEF IInv, JInv
  <1>a. EmptySettled /\ CommittedRedoable
    BY DEF IInv, CInv
  <1>1. CASE UNCHANGED device
    <2>1. homeM' = homeM /\ hdrM' = hdrM /\ pc' \notin {"clear", "rclear"}
      BY <1>1 DEF device
    <2> QED
      BY <1>0, <1>a, <2>1, DeviceShrinks, ShrinkStep
  <1>2. ASSUME pc \in {"homes", "rhomes"},
               NEW k \in 0..Len(entries), WriteHomes(entries, k)
        PROVE  EmptySettled' /\ CommittedRedoable'
    <2>1. /\ \A h \in hdrM : h.state = "COMMITTED" /\ h.entries = entries
          /\ hdr \in hdrM
      BY <1>0, <1>2 DEF HeaderQuiet, ReadSurvives
    <2>2. PICK x \in Nat : Redo(homeM, entries, x)
      BY <1>a, <2>1 DEF CommittedRedoable, Redoable
    <2>3. Redo(homeM', entries, x) /\ hdrM' = hdrM
      BY <1>0, <1>2, <2>2, HomesKeepRedo DEF MemType, WriteHomes
    <2> QED
      BY <2>1, <2>3 DEF EmptySettled, MayBeEmpty, CommittedRedoable, Redoable
  <1>3. CASE pc \in {"clear", "rclear"} /\ WriteHeader(EmptyHeader(t))
    <2>1. homeM' = homeM /\ hdrM' = hdrM \cup {EmptyHeader(t)}
      BY <1>3 DEF WriteHeader
    <2>2. CommittedRedoable'
      BY <1>a, <2>1 DEF CommittedRedoable, EmptyHeader
    <2> QED
      BY <1>3, <1>a, <2>1, <2>2 DEF EmptySettled, MayBeEmpty
  <1> QED
    BY <1>1, <1>2, <1>3

LEMMA CDeviceError ==
    ASSUME CommitRecordReliable
    PROVE  IInv /\ DeviceError => CInv'
  <1> SUFFICES ASSUME IInv, DeviceError PROVE CInv'
    OBVIOUS
  <1>0. DevType /\ MemType /\ ReadSurvives /\ HeaderQuiet
    BY TypeParts DEF IInv, JInv
  <1>a. CInv /\ EmptySettled /\ CommittedRedoable
    BY DEF IInv, CInv
  <1> USE DEF CInv, SuperSettled, SbCurrent, OrigSettled, StagedSound,
              SealedSound, HomesWritten, RecoverySucceeds
  <1>1. CASE nsfs_tx_failed_before_commit
    <2>1. /\ pc \in {"images", "imgflush", "header"} /\ pc' = "idle"
          /\ homeM' = homeM /\ hdrM' = hdrM /\ err' = err /\ sb' = orig
      BY <1>1 DEF nsfs_tx_failed_before_commit, nsfs_tx_release, Fault,
         CommitRecordReliable, device, WriteSlots
    <2>2. EmptySettled' /\ CommittedRedoable'
      BY <1>0, <1>a, <2>1, DeviceShrinks, ShrinkStep
    <2> QED
      BY <1>a, <2>1, <2>2
  <1>2. CASE nsfs_tx_failed_after_commit
    <2>1. /\ pc \in {"homes", "homeflush", "clear", "clearflush"}
          /\ pc' = "idle" /\ poisoned' = TRUE /\ err' = err
          /\ \/ UNCHANGED device
             \/ pc = "homes" /\ \E k \in 0..Len(entries) : WriteHomes(entries, k)
             \/ pc = "clear" /\ WriteHeader(EmptyHeader(sb.last_txid))
      BY <1>2 DEF nsfs_tx_failed_after_commit
    <2>2. EmptySettled' /\ CommittedRedoable'
      BY <2>1, ApplyError
    <2> QED
      BY <1>a, <2>1, <2>2
  <1>3. CASE nsfs_recover_fail
    <2>1. /\ pc \in {"rhomes", "rflush", "rclear", "rclearflush"}
          /\ pc' = "off" /\ err' = "EDEV"
          /\ \/ UNCHANGED device
             \/ pc = "rhomes" /\ \E k \in 0..Len(entries) : WriteHomes(entries, k)
             \/ pc = "rclear" /\ WriteHeader(EmptyHeader(hdr.txid))
      BY <1>3 DEF nsfs_recover_fail
    <2>2. EmptySettled' /\ CommittedRedoable'
      BY <2>1, ApplyError
    <2> QED
      BY <1>a, <2>1, <2>2
  <1>4. CASE nsfs_write_super_pair_fail
    <2>1. /\ pc \in {"sb1", "sb1flush", "sb0", "sb0flush"}
          /\ pc' \in {"off", "idle"} /\ poisoned' = TRUE
          /\ err' \in {err, "EDEV"}
          /\ UNCHANGED device \/ WriteSuper(S0, sb) \/ WriteSuper(S1, sb)
      BY <1>4 DEF nsfs_write_super_pair_fail
    <2>2. CASE UNCHANGED device
      <3>1. homeM' = homeM /\ hdrM' = hdrM
        BY <2>2 DEF device
      <3>2. EmptySettled' /\ CommittedRedoable'
        BY <1>0, <1>a, <2>1, <3>1, DeviceShrinks, ShrinkStep
      <3> QED
        BY <1>a, <2>1, <3>2
    <2>3. CASE WriteSuper(S0, sb) \/ WriteSuper(S1, sb)
      <3>1. EmptySettled' /\ CommittedRedoable'
        BY <1>a, <2>1, <2>3, SuperStep
      <3> QED
        BY <1>a, <2>1, <3>1
    <2> QED
      BY <2>1, <2>2, <2>3
  <1> QED
    BY <1>1, <1>2, <1>3, <1>4 DEF DeviceError

LEMMA CCrash == IInv /\ Crash => CInv'
  <1> SUFFICES ASSUME IInv, Crash PROVE CInv'
    OBVIOUS
  <1>1. ReadSurvives /\ CInv
    BY DEF IInv, JInv
  <1>2. Shrinks(homeM, homeM')
    BY <1>1, DeviceShrinks
  <1>3. hdrM' \subseteq hdrM /\ pc' = "off" /\ err' = err
    BY DEF Crash, fs
  <1>4. EmptySettled' /\ CommittedRedoable'
    BY <1>1, <1>2, <1>3, ShrinkStep DEF CInv
  <1> QED
    BY <1>1, <1>3, <1>4 DEF CInv, SuperSettled, SbCurrent, OrigSettled,
       StagedSound, SealedSound, HomesWritten, RecoverySucceeds

LEMMA CNext ==
    ASSUME CommitRecordReliable
    PROVE  IInv /\ [Next]_vars => IInv'
  <1>1. ASSUME IInv, UNCHANGED vars PROVE CInv'
    <2>1. UNCHANGED <<home, homeM, hdrM, pc, ro, sb, orig, entries, poisoned, err>>
      BY <1>1 DEF vars, device, fs
    <2>2. CInv
      BY <1>1 DEF IInv
    <2> QED
      BY <2>1, <2>2 DEF CInv, EmptySettled, MayBeEmpty, CommittedRedoable,
         SuperSettled, SbCurrent, OrigSettled, StagedSound, SealedSound,
         HomesWritten, RecoverySucceeds
  <1>2. IInv /\ [Next]_vars => CInv'
    BY <1>1, CCommitStep, CMountStep, CPairStep, CCall, CDeviceError, CCrash
       DEF Next
  <1> QED
    BY <1>2, JNext DEF IInv

\* Provided that no device error strikes the commit record, no mount is ever
\* refused with EIO: nsfs_recover_journal finds every redo image as it was
\* sealed, and nsfs_validate_bitmaps finds counters and bitmaps in agreement,
\* after any sequence of operations, power cuts and other device errors, those
\* that strike a previous recovery included.
THEOREM RecoveryNeverCorrupt ==
    ASSUME CommitRecordReliable
    PROVE  Spec => []RecoverySucceeds
  <1>1. Init => IInv
    BY JInit, CInit DEF IInv
  <1>2. Spec => []IInv
    BY <1>1, CNext, PTL DEF Spec
  <1>3. IInv => RecoverySucceeds
    BY DEF IInv, CInv
  <1> QED
    BY <1>2, <1>3, PTL
=============================================================================
