------------------------------ MODULE NsfsTree ------------------------------
(***************************************************************************)
(* The namespace and the allocation of NorthstarFS (kernel/fs/nsfs.c): the *)
(* two bitmaps and the free counts, inodes with direct and indirect block  *)
(* pointers, directory blocks made of variable-length records, and the     *)
(* operations on them.  Every operation builds a transaction t: a copy of  *)
(* the volume that replaces it at commit.  NsfsJournal shows that a commit *)
(* is atomic across crashes; here a failed or interrupted operation simply *)
(* leaves the volume as it was, except for file data, which nsfs_write and *)
(* nsfs_truncate write in place, outside the journal (t.inplace).          *)
(*                                                                         *)
(* A block of file data holds BlockCells cells, a directory block          *)
(* BlockUnits units of four bytes; times, modes and generations are left   *)
(* out.  FsckClean is the checker fsck_northstar.c.                        *)
(***************************************************************************)
EXTENDS Integers, Sequences, FiniteSets

CONSTANTS TotalInodes,          \* superblock.total_inodes
          TotalBlocks,          \* the data blocks are 1..TotalBlocks
          NSFS_DIRECT_BLOCKS, NSFS_INDIRECT_BLOCKS,
          BlockCells, BlockUnits,
          Names, NameUnits,     \* names, and the units a name itself takes
          MaxWrite,             \* cells one nsfs_write call carries at most
          MaxSize,              \* the largest file the instance makes
          MaxDataOps            \* bound on the calls that write file data

ASSUME SizesAssumption ==
    /\ TotalInodes \in Nat /\ TotalBlocks \in Nat \ {0}
    /\ NSFS_DIRECT_BLOCKS \in Nat \ {0} /\ NSFS_INDIRECT_BLOCKS \in Nat
    /\ BlockCells \in Nat \ {0} /\ BlockUnits \in Nat
    /\ NameUnits \in [Names -> Nat \ {0}]
    /\ {".", ".."} \cap Names = {}
    /\ BlockUnits >= 6 /\ \A n \in Names : NameUnits[n] + 2 <= BlockUnits

VARIABLES dataOps,  \* calls that wrote file data so far
          disk,     \* the committed volume and the superblock counters
          expect    \* history: per inode, the values each cell may read as
                    \* when the file is long enough to have it

vars == <<dataOps, disk, expect>>

Root == 1
Blocks == 1..TotalBlocks
InodeNumbers == 1..(TotalInodes - 1)
MaxFileBlocks == NSFS_DIRECT_BLOCKS + NSFS_INDIRECT_BLOCKS
MaxFileSize == MaxFileBlocks * BlockCells
DirentHeader == 2
Smallest(S) == CHOOSE x \in S : \A y \in S : x <= y
DivCeil(a, b) == (a + b - 1) \div b
Upto(a, b) == IF a < b THEN a ELSE b

FreeInode == [type |-> "free"]
NewInode(type, links, size) ==
    [type |-> type, links |-> links, size |-> size, allocated |-> 0,
     direct |-> [l \in 0..(NSFS_DIRECT_BLOCKS - 1) |-> 0], indirect |-> 0]

\* What a block holds: file data, indirect pointers or directory records.
ZeroData == [c \in 0..(BlockCells - 1) |-> 0]
\* What a free block holds is stale bytes: any value will do that is not zero.
StaleData == [c \in 0..(BlockCells - 1) |-> 1]
ZeroPointers == [l \in NSFS_DIRECT_BLOCKS..(MaxFileBlocks - 1) |-> 0]
Dirent(ino, len, type, name) ==
    [ino |-> ino, len |-> len, type |-> type, name |-> name]
FreeDirent(len) == Dirent(0, len, "none", "")
NewDirectory(self, parent) ==
    <<Dirent(self, 3, "dir", "."), Dirent(parent, BlockUnits - 3, "dir", "..")>>

-----------------------------------------------------------------------------
(* Transactions: t is the volume with the status so far and the blocks     *)
(* already written in place.                                               *)

nsfs_tx_begin(d) == [d |-> d, st |-> "OK", inplace |-> {}]
Ok(t) == t.st = "OK"
Failed(t, code) == [t EXCEPT !.st = IF Ok(t) THEN code ELSE @]

\* nsfs_tx_release(restore): only what was written in place survives.  (What
\* went to blocks that are free again is stale bytes like any other.)
nsfs_tx_release(d, t) ==
    [d EXCEPT !.blk = [b \in Blocks |-> IF b \in t.inplace \cap d.blockBitmap
                                        THEN t.d.blk[b] ELSE d.blk[b]]]

nsfs_allocate_block(t, zero, journal) ==
    LET free == Blocks \ t.d.blockBitmap
        b == Smallest(free)
    IN  IF t.d.freeBlocks = 0 THEN [t |-> Failed(t, "ENOSPC"), b |-> 0]
        ELSE IF free = {} THEN [t |-> Failed(t, "EIO"), b |-> 0]
        ELSE [t |-> [t EXCEPT !.d.blockBitmap = @ \cup {b}, !.d.freeBlocks = @ - 1,
                              !.d.blk[b] = zero,
                              !.inplace = IF journal THEN @ ELSE @ \cup {b}],
              b |-> b]

nsfs_free_block(t, b) ==
    IF b \notin Blocks \/ b \notin t.d.blockBitmap THEN Failed(t, "EIO")
    ELSE [t EXCEPT !.d.blockBitmap = @ \ {b}, !.d.freeBlocks = @ + 1,
                   !.d.blk[b] = StaleData]

\* Mutant: the free count of the superblock is not adjusted.
nsfs_allocate_inode_NoCount(t) ==
    LET free == InodeNumbers \ (t.d.inodeBitmap \cup {Root})
    IN  IF free = {} THEN [t |-> Failed(t, "ENOSPC"), i |-> 0]
        ELSE [t |-> [t EXCEPT !.d.inodeBitmap = @ \cup {Smallest(free)}], i |-> Smallest(free)]

nsfs_allocate_inode(t) ==
    LET free == InodeNumbers \ (t.d.inodeBitmap \cup {Root})
    IN  IF t.d.freeInodes = 0 \/ free = {}
        THEN [t |-> Failed(t, IF t.d.freeInodes = 0 THEN "ENOSPC" ELSE "EIO"), i |-> 0]
        ELSE [t |-> [t EXCEPT !.d.inodeBitmap = @ \cup {Smallest(free)},
                              !.d.freeInodes = @ - 1],
              i |-> Smallest(free)]

nsfs_release_inode_number(t, i) ==
    IF i <= Root \/ i \notin t.d.inodeBitmap THEN Failed(t, "EIO")
    ELSE [t EXCEPT !.d.inodeBitmap = @ \ {i}, !.d.freeInodes = @ + 1,
                   !.d.inode[i] = FreeInode]

nsfs_read_inode(d, i) == /\ i \in d.inodeBitmap
                         /\ d.inode[i].type # "free"
                         /\ d.inode[i].links # 0
nsfs_write_inode(t, i, n) == IF Ok(t) THEN [t EXCEPT !.d.inode[i] = n] ELSE t

\* The block behind a logical block of an inode, 0 for a hole.
nsfs_inode_data_block(d, n, l) ==
    IF l < NSFS_DIRECT_BLOCKS THEN n.direct[l]
    ELSE IF n.indirect = 0 THEN 0 ELSE d.blk[n.indirect][l]

\* The inode n with its new indirect block a.
IndirectLinked(a, n) ==
    [t |-> a.t,
     n |-> IF Ok(a.t) THEN [n EXCEPT !.indirect = a.b, !.allocated = @ + 1] ELSE n]

\* The inode n with its new data block a as logical block l.
DataLinked(a, n, l) ==
    IF ~Ok(a.t) THEN [t |-> a.t, n |-> n, b |-> 0]
    ELSE IF l < NSFS_DIRECT_BLOCKS
         THEN [t |-> a.t, b |-> a.b, n |-> [n EXCEPT !.direct[l] = a.b, !.allocated = @ + 1]]
         ELSE [t |-> [a.t EXCEPT !.d.blk[n.indirect][l] = a.b], b |-> a.b,
               n |-> [n EXCEPT !.allocated = @ + 1]]

DataAllocated(s, l, zero, journal) ==
    IF ~Ok(s.t) THEN [t |-> s.t, n |-> s.n, b |-> 0]
    ELSE IF nsfs_inode_data_block(s.t.d, s.n, l) # 0
         THEN [t |-> s.t, n |-> s.n, b |-> nsfs_inode_data_block(s.t.d, s.n, l)]
         ELSE DataLinked(nsfs_allocate_block(s.t, zero, journal), s.n, l)

\* The same inside a transaction, allocating what is missing: first the
\* indirect block, then the data block.
nsfs_tx_inode_data_block(t, n, l, zero, journal) ==
    DataAllocated(IF l < NSFS_DIRECT_BLOCKS \/ n.indirect # 0 THEN [t |-> t, n |-> n]
                  ELSE IndirectLinked(nsfs_allocate_block(t, ZeroPointers, TRUE), n),
                  l, zero, journal)

nsfs_tx_clear_data_block(t, n, l) ==
    LET b == nsfs_inode_data_block(t.d, n, l)
        freed == nsfs_free_block(t, b)
        less == [n EXCEPT !.allocated = @ - 1]
    IN  IF ~Ok(t) \/ b = 0 THEN [t |-> t, n |-> n]
        ELSE IF ~Ok(freed) \/ n.allocated = 0 THEN [t |-> Failed(freed, "EIO"), n |-> n]
        ELSE IF l < NSFS_DIRECT_BLOCKS
             THEN [t |-> freed, n |-> [less EXCEPT !.direct[l] = 0]]
             ELSE [t |-> [freed EXCEPT !.d.blk[n.indirect][l] = 0], n |-> less]

nsfs_tx_maybe_free_indirect(t, n) ==
    IF ~Ok(t) \/ n.indirect = 0 \/ t.d.blk[n.indirect] # ZeroPointers THEN [t |-> t, n |-> n]
    ELSE LET freed == nsfs_free_block(t, n.indirect)
         IN  IF n.allocated = 0 THEN [t |-> Failed(freed, "EIO"), n |-> n]
             ELSE [t |-> freed, n |-> [n EXCEPT !.indirect = 0, !.allocated = @ - 1]]

\* Frees the logical blocks from..to-1, then an indirect block left empty.
ClearBlocks(t, n, from, to) ==
    LET clear[l \in from..MaxFileBlocks] ==
            IF l = from THEN [t |-> t, n |-> n]
            ELSE nsfs_tx_clear_data_block(clear[l - 1].t, clear[l - 1].n, l - 1)
        all == clear[IF to < from THEN from ELSE to]
    IN  nsfs_tx_maybe_free_indirect(all.t, all.n)

nsfs_release_inode_contents(t, n) == ClearBlocks(t, n, 0, MaxFileBlocks).t

-----------------------------------------------------------------------------
(* Directory blocks.  A place is a pair <<logical block, record>>; places  *)
(* are visited in order.                                                   *)

DirBlock(d, n, l) == d.blk[nsfs_inode_data_block(d, n, l)]
DirBlocks(n) == 0..(n.size \div BlockCells - 1)
Places(d, n) == UNION {{<<l, k>> : k \in DOMAIN DirBlock(d, n, l)} : l \in DirBlocks(n)}
At(d, n, p) == DirBlock(d, n, p[1])[p[2]]
First(P) == CHOOSE p \in P : \A q \in P : p[1] < q[1] \/ (p[1] = q[1] /\ p[2] <= q[2])

\* The bytes a record needs, header included (nsfs_align4).
Needed(name) == DirentHeader + IF name \in {".", ".."} THEN 1 ELSE NameUnits[name]
Holding(d, n, name) ==
    UNION {LET blk == DirBlock(d, n, l)
           IN  {<<l, k>> : k \in {r \in DOMAIN blk : blk[r].ino # 0 /\ blk[r].name = name}} :
           l \in DirBlocks(n)}

nsfs_directory_lookup_loaded(d, n, name) ==
    LET found == Holding(d, n, name)
    IN  IF found = {} THEN FreeDirent(0) ELSE At(d, n, First(found))

nsfs_directory_empty(d, n) ==
    \A p \in Places(d, n) : At(d, n, p).ino # 0 => At(d, n, p).name \in {".", ".."}

Spliced(block, k, records) ==
    SubSeq(block, 1, k - 1) \o records \o SubSeq(block, k + 1, Len(block))

\* A record takes a free record, splitting off what is left when a header
\* fits there, or the slack behind a record in use.
Placed(e, need, ino, type, name) ==
    IF e.ino = 0
    THEN IF e.len - need >= DirentHeader
         THEN <<Dirent(ino, need, type, name), FreeDirent(e.len - need)>>
         ELSE <<Dirent(ino, e.len, type, name)>>
    ELSE <<[e EXCEPT !.len = Needed(e.name)],
           Dirent(ino, e.len - Needed(e.name), type, name)>>

\* The record goes to the place p of the directory.
PlacedAt(t, n, p, name, ino, type) ==
    [t |-> [t EXCEPT !.d.blk[nsfs_inode_data_block(t.d, n, p[1])] =
                Spliced(@, p[2], Placed(@[p[2]], Needed(name), ino, type, name))],
     n |-> n]

\* The directory has got one more block.
Grown(g) == [t |-> g.t, n |-> [g.n EXCEPT !.size = @ + BlockCells]]

nsfs_directory_add(t, n, name, ino, type) ==
    LET room == {p \in Places(t.d, n) : LET e == At(t.d, n, p)
                     IN  (IF e.ino = 0 THEN e.len ELSE e.len - Needed(e.name)) >= Needed(name)}
        blocks == n.size \div BlockCells
    IN  IF Holding(t.d, n, name) # {} THEN [t |-> Failed(t, "EEXIST"), n |-> n]
        ELSE IF room # {} THEN PlacedAt(t, n, First(room), name, ino, type)
        ELSE IF blocks >= MaxFileBlocks THEN [t |-> Failed(t, "ENOSPC"), n |-> n]
        ELSE Grown(nsfs_tx_inode_data_block(t, n, blocks,
                       <<Dirent(ino, BlockUnits, type, name)>>, TRUE))

\* The record's space goes to the record before it in the block; the first
\* record of a block stays behind as a free record.
nsfs_directory_remove(t, n, name) ==
    LET p == First(Holding(t.d, n, name))
        b == nsfs_inode_data_block(t.d, n, p[1])
        blk == t.d.blk[b]
        k == p[2]
        removed == IF k > 1
                   THEN Spliced([blk EXCEPT ![k - 1].len = @ + blk[k].len], k, <<>>)
                   ELSE Spliced(blk, 1, <<FreeDirent(blk[1].len)>>)
    IN  IF Holding(t.d, n, name) = {} THEN Failed(t, "ENOENT")
        ELSE [t EXCEPT !.d.blk[b] = removed]

nsfs_directory_set_dotdot(t, n, parent) ==
    LET b == nsfs_inode_data_block(t.d, n, 0)
        hits == {k \in DOMAIN t.d.blk[b] : t.d.blk[b][k].name = ".."}
    IN  IF hits = {} THEN Failed(t, "EIO")
        ELSE [t EXCEPT !.d.blk[b][Smallest(hits)].ino = parent]

\* Mutant: only the new parent itself is compared with the moved directory.
nsfs_rename_cycle_check_ParentOnly(d, moved, parent) == parent # moved

\* The directory and its ancestors, following "..", at most TotalInodes up.
nsfs_rename_cycle_check(d, moved, parent) ==
    LET up[k \in 0..TotalInodes] ==
            IF k = 0 THEN parent
            ELSE nsfs_directory_lookup_loaded(d, d.inode[up[k - 1]], "..").ino
    IN  \E k \in 0..(TotalInodes - 1) :
            up[k] = Root /\ \A j \in 0..k : up[j] # moved

-----------------------------------------------------------------------------
(* The operations.  Each one is enabled when its checks pass; when one of  *)
(* them fails the call returns an error and changes nothing.               *)

IsDirectory(d, i) == nsfs_read_inode(d, i) /\ d.inode[i].type = "dir"
IsRegular(d, i) == nsfs_read_inode(d, i) /\ d.inode[i].type = "file"
Lookup(dir, name) == nsfs_directory_lookup_loaded(disk, disk.inode[dir], name).ino

NewFile == [p \in 1..MaxFileSize |-> {0}]
nsfs_tx_commit(t) == disk' = IF Ok(t) THEN t.d ELSE nsfs_tx_release(disk, t)

\* The end of a call after which inode i holds exactly these cells (a new or
\* emptied file).
Finish(t, i, cells) ==
    /\ nsfs_tx_commit(t)
    /\ expect' = IF Ok(t) THEN [expect EXCEPT ![i] = cells] ELSE expect

\* A name for inode i in the directory dir, and both inodes.
BothWritten(added, i, n, dir) ==
    nsfs_write_inode(nsfs_write_inode(added.t, i, n), dir, added.n)
Entered(t, i, n, dir, parent, name) ==
    BothWritten(IF Ok(t) THEN nsfs_directory_add(t, parent, name, i, n.type)
                ELSE [t |-> t, n |-> parent], i, n, dir)

\* A new file has no block, a new directory one with its two names.
Body(a, dir, type) ==
    LET blank == NewInode(type, IF type = "dir" THEN 2 ELSE 1, 0)
    IN  IF type = "file" \/ ~Ok(a.t) THEN [t |-> a.t, n |-> blank]
        ELSE nsfs_tx_inode_data_block(a.t, [blank EXCEPT !.size = BlockCells], 0,
                                      NewDirectory(a.i, dir), TRUE)
Created(body, i, dir, name) ==
    Entered(body.t, i, body.n, dir,
            [disk.inode[dir] EXCEPT !.links = @ + IF body.n.type = "dir" THEN 1 ELSE 0], name)
CreatedAs(a, dir, name, type) == Finish(Created(Body(a, dir, type), a.i, dir, name), a.i, NewFile)

\* nsfs_create and nsfs_mkdir.
nsfs_create_typed(dir, name, type) ==
    /\ IsDirectory(disk, dir)
    /\ Lookup(dir, name) = 0
    /\ CreatedAs(nsfs_allocate_inode(nsfs_tx_begin(disk)), dir, name, type)

\* The link target is one cell, written in place into a new block.
TargetWritten(body) ==
    [t |-> IF Ok(body.t) THEN [body.t EXCEPT !.d.blk[body.b][0] = 1] ELSE body.t, n |-> body.n]
TargetOf(a) ==
    LET blank == NewInode("symlink", 1, 1)
    IN  IF Ok(a.t) THEN TargetWritten(nsfs_tx_inode_data_block(a.t, blank, 0, ZeroData, FALSE))
        ELSE [t |-> a.t, n |-> blank]
SymlinkAs(a, dir, name) ==
    Finish(Created(TargetOf(a), a.i, dir, name), a.i, [NewFile EXCEPT ![1] = {1}])

nsfs_symlink(dir, name) ==
    /\ IsDirectory(disk, dir)
    /\ Lookup(dir, name) = 0
    /\ SymlinkAs(nsfs_allocate_inode(nsfs_tx_begin(disk)), dir, name)

nsfs_link(target, dir, name) ==
    /\ nsfs_read_inode(disk, target) /\ disk.inode[target].type # "dir"
    /\ IsDirectory(disk, dir)
    /\ nsfs_tx_commit(Entered(nsfs_tx_begin(disk), target,
                              [disk.inode[target] EXCEPT !.links = @ + 1],
                              dir, disk.inode[dir], name))
    /\ UNCHANGED expect

\* An inode loses a name: its last one frees the blocks and the number.
Dropped(t, i) ==
    LET n == disk.inode[i]
    IN  IF n.type = "dir" \/ n.links = 1
        THEN LET r == nsfs_release_inode_contents(t, n)
             IN  IF Ok(r) THEN nsfs_release_inode_number(r, i) ELSE r
        ELSE nsfs_write_inode(t, i, [n EXCEPT !.links = @ - 1])

\* nsfs_unlink and nsfs_rmdir.
nsfs_remove_common(dir, name, removeDirectory) ==
    /\ IsDirectory(disk, dir)
    /\ Lookup(dir, name) # 0
    /\ LET i == Lookup(dir, name)
           n == disk.inode[i]
           parent == IF removeDirectory THEN [disk.inode[dir] EXCEPT !.links = @ - 1]
                                        ELSE disk.inode[dir]
           removed == nsfs_directory_remove(nsfs_tx_begin(disk), disk.inode[dir], name)
       IN  /\ nsfs_read_inode(disk, i)
           /\ removeDirectory = (n.type = "dir")
           /\ removeDirectory => nsfs_directory_empty(disk, n) /\ disk.inode[dir].links >= 2
           /\ Finish(nsfs_write_inode(Dropped(removed, i), dir, parent), i,
                     IF removeDirectory \/ n.links = 1 THEN NewFile ELSE expect[i])

\* Everything nsfs_rename checks before it changes anything.  (The flag
\* NSFS_RENAME_NOREPLACE only adds a case in which nothing changes.)
RenameChecked(od, on, nd, nn) ==
    LET i == Lookup(od, on)
        j == Lookup(nd, nn)
        s == disk.inode[i]
        g == disk.inode[j]
    IN  /\ IsDirectory(disk, od) /\ IsDirectory(disk, nd)
        /\ <<od, on>> # <<nd, nn>>
        /\ i # 0
        /\ s.type = "dir" /\ od # nd => nsfs_rename_cycle_check(disk, i, nd)
        /\ j # 0 => /\ i # j
                    /\ (s.type = "dir") = (g.type = "dir")
                    /\ g.type = "dir" => /\ nsfs_directory_empty(disk, g)
                                         /\ disk.inode[nd].links >= 2
        /\ s.type = "dir" /\ od # nd => disk.inode[od].links >= 2

\* The old name is gone, and the inode j that had the new one, if any.
NamesRemoved(t, nd, nn, j) ==
    IF j = 0 THEN t ELSE Dropped(nsfs_directory_remove(t, disk.inode[nd], nn), j)

\* The new name is in place: ".." follows a directory to another parent, and
\* both parents are written.
Moved(a, s, od, nd) ==
    LET up == IF s.type = "dir" /\ od # nd THEN 1 ELSE 0
        t == IF up = 1 /\ Ok(a.t) THEN nsfs_directory_set_dotdot(a.t, s, nd) ELSE a.t
        left == IF od = nd THEN t
                ELSE nsfs_write_inode(t, od, [disk.inode[od] EXCEPT !.links = @ - up])
    IN  nsfs_write_inode(left, nd, [a.n EXCEPT !.links = @ + up])

NewName(t, i, s, parent, nn) ==
    IF Ok(t) THEN nsfs_directory_add(t, parent, nn, i, s.type) ELSE [t |-> t, n |-> parent]

RenamedTo(od, on, nd, nn, i, j, s) ==
    LET parent == [disk.inode[nd] EXCEPT !.links = @ - IF j # 0 /\ s.type = "dir" THEN 1 ELSE 0]
        old == nsfs_directory_remove(nsfs_tx_begin(disk), disk.inode[od], on)
    IN  Finish(Moved(NewName(NamesRemoved(old, nd, nn, j), i, s, parent, nn), s, od, nd),
               IF j = 0 THEN i ELSE j,
               IF j # 0 /\ (s.type = "dir" \/ disk.inode[j].links = 1) THEN NewFile
               ELSE expect[IF j = 0 THEN i ELSE j])

nsfs_rename(od, on, nd, nn) ==
    /\ RenameChecked(od, on, nd, nn)
    /\ RenamedTo(od, on, nd, nn, Lookup(od, on), Lookup(nd, nn), disk.inode[Lookup(od, on)])

-----------------------------------------------------------------------------
(* File data, written in place block by block.                             *)

\* The cells of a regular file or a link, as nsfs_read returns them.
nsfs_read(d, i) ==
    [p \in 1..d.inode[i].size |->
        LET b == nsfs_inode_data_block(d, d.inode[i], (p - 1) \div BlockCells)
        IN  IF b = 0 THEN 0 ELSE d.blk[b][(p - 1) % BlockCells]]

\* Logical block l of the range, found or made as m, gets its cells.
CellsWritten(m, l, off, end) ==
    IF ~Ok(m.t) THEN [t |-> m.t, n |-> m.n]
    ELSE [t |-> [m.t EXCEPT !.d.blk[m.b] =
                    [c \in 0..(BlockCells - 1) |->
                        IF l * BlockCells + c \in off..(end - 1) THEN 1 ELSE @[c]],
                    !.inplace = @ \cup {m.b}],
          n |-> m.n]

\* The transaction after the write has dealt with the blocks up to last.
WrittenUpTo(i, off, end, last) ==
    LET first == off \div BlockCells
        put[l \in (first - 1)..last] ==
            IF l < first THEN [t |-> nsfs_tx_begin(disk), n |-> disk.inode[i]]
            ELSE CellsWritten(nsfs_tx_inode_data_block(put[l - 1].t, put[l - 1].n, l, ZeroData, FALSE),
                              l, off, end)
    IN  put[last]

\* A failed write leaves every cell of its range old or new, also behind the
\* end of the file, where a later write that extends the file uncovers them.
MaybeWritten(i, off, end) ==
    [expect EXCEPT ![i] = [p \in DOMAIN @ |-> IF p - 1 \in off..(end - 1) THEN @[p] \cup {1}
                                              ELSE @[p]]]

SizeWritten(w, i, end) ==
    nsfs_write_inode(w.t, i, [w.n EXCEPT !.size = IF end > @ THEN end ELSE @])
WriteFinished(t, i, off, end) ==
    /\ nsfs_tx_commit(t)
    /\ expect' = IF ~Ok(t) THEN MaybeWritten(i, off, end)
                 ELSE [expect EXCEPT ![i] =
                         [p \in DOMAIN @ |-> IF p - 1 \in off..(end - 1) THEN {1} ELSE @[p]]]

nsfs_write(i, off, count) ==
    /\ IsRegular(disk, i)
    /\ off + count <= MaxFileSize
    /\ WriteFinished(SizeWritten(WrittenUpTo(i, off, off + count, (off + count - 1) \div BlockCells),
                                 i, off + count),
                     i, off, off + count)

\* The write stops after the block `last`: a device error, no memory, no room
\* in the journal, or a crash before the commit.
nsfs_write_interrupted(i, off, count, last) ==
    /\ IsRegular(disk, i)
    /\ off + count <= MaxFileSize
    /\ disk' = nsfs_tx_release(disk, Failed(WrittenUpTo(i, off, off + count, last).t, "EIO"))
    /\ expect' = MaybeWritten(i, off, off + count)

\* Mutant: the block the new end falls in keeps its old bytes.
TailZeroed_Kept(i, size) == nsfs_tx_begin(disk)

\* The first thing a shortening truncate does: zero, in place, the rest of
\* the block the new end falls in.
TailZeroed(i, size) ==
    LET n == disk.inode[i]
        l == size \div BlockCells
        b == IF l < MaxFileBlocks THEN nsfs_inode_data_block(disk, n, l) ELSE 0
        t == nsfs_tx_begin(disk)
    IN  IF size >= n.size \/ size % BlockCells = 0 \/ b = 0 THEN t
        ELSE [t EXCEPT !.d.blk[b] = [c \in DOMAIN @ |-> IF c >= size % BlockCells THEN 0 ELSE @[c]],
                       !.inplace = {b}]

Shortened(c, i, size) == nsfs_write_inode(c.t, i, [c.n EXCEPT !.size = size])

nsfs_truncate(i, size) ==
    /\ IsRegular(disk, i)
    /\ size # disk.inode[i].size
    /\ LET n == disk.inode[i]
       IN  Finish(Shortened(ClearBlocks(TailZeroed(i, size), n, DivCeil(size, BlockCells),
                                        DivCeil(n.size, BlockCells)), i, size),
                  i, [p \in DOMAIN NewFile |->
                        IF size < p /\ size < n.size THEN {0} ELSE expect[i][p]])

\* The truncate fails or the machine stops before its commit.
nsfs_truncate_interrupted(i, size) ==
    /\ IsRegular(disk, i)
    /\ size < disk.inode[i].size
    /\ disk' = nsfs_tx_release(disk, TailZeroed(i, size))
    /\ expect' = [expect EXCEPT ![i] = [p \in DOMAIN @ |-> IF p > size THEN @[p] \cup {0} ELSE @[p]]]

-----------------------------------------------------------------------------
\* nsfs_format: an empty volume, its root directory in the first data block.
nsfs_format ==
    [inodeBitmap |-> {Root}, blockBitmap |-> {1},
     freeInodes |-> TotalInodes - 2, freeBlocks |-> TotalBlocks - 1,
     inode |-> [i \in InodeNumbers |->
                  IF i = Root THEN [NewInode("dir", 2, BlockCells) EXCEPT !.direct[0] = 1,
                                                                         !.allocated = 1]
                  ELSE FreeInode],
     blk |-> [b \in Blocks |-> IF b = 1 THEN NewDirectory(Root, Root) ELSE StaleData]]

Init == dataOps = 0 /\ disk = nsfs_format /\ expect = [i \in InodeNumbers |-> NewFile]

Ranges == {<<off, count>> \in (0..(MaxSize - 1)) \X (1..MaxWrite) : off + count <= MaxSize}

Namespace ==
    \E dir \in InodeNumbers, name \in Names :
       \/ \E type \in {"file", "dir"} : nsfs_create_typed(dir, name, type)
       \/ nsfs_symlink(dir, name)
       \/ \E target \in InodeNumbers : nsfs_link(target, dir, name)
       \/ \E rd \in BOOLEAN : nsfs_remove_common(dir, name, rd)
       \/ \E nd \in InodeNumbers, nn \in Names : nsfs_rename(dir, name, nd, nn)

Data ==
    \E i \in InodeNumbers :
       \/ \E r \in Ranges :
             \/ nsfs_write(i, r[1], r[2])
             \/ \E last \in (r[1] \div BlockCells)..((r[1] + r[2] - 1) \div BlockCells) :
                   nsfs_write_interrupted(i, r[1], r[2], last)
       \/ \E size \in 0..MaxSize :
             nsfs_truncate(i, size) \/ nsfs_truncate_interrupted(i, size)

Next == \/ Namespace /\ UNCHANGED dataOps
        \/ Data /\ dataOps < MaxDataOps /\ dataOps' = dataOps + 1

Spec == Init /\ [][Next]_vars

-----------------------------------------------------------------------------
(* The checker, fsck_northstar.c: each definition is TRUE when it reports  *)
(* no error.                                                               *)

validate_bitmap_tails(d) ==
    /\ Root \in d.inodeBitmap
    /\ d.freeBlocks = Cardinality(Blocks \ d.blockBitmap)
    /\ d.freeInodes = Cardinality(InodeNumbers \ d.inodeBitmap)

\* The pointers an inode holds: <<inode, slot, block>>, the slot of the
\* indirect block itself being Indirect.
Indirect == -1
Pointers(d, i) ==
    LET n == d.inode[i]
        slots == {<<i, l, nsfs_inode_data_block(d, n, l)>> : l \in 0..(MaxFileBlocks - 1)}
    IN  {p \in slots \cup {<<i, Indirect, n.indirect>>} : p[3] # 0}

claim_block(d, pointers, p) ==
    /\ p[3] \in Blocks
    /\ p[3] \in d.blockBitmap
    /\ \A q \in pointers : q[3] = p[3] => q = p

validate_one_inode(d, i) ==
    LET n == d.inode[i]
        dataBlocks == DivCeil(n.size, BlockCells)
        logical == {p[2] : p \in {q \in Pointers(d, i) : q[2] # Indirect}}
    IN  /\ n.type \in {"file", "dir", "symlink"}
        /\ n.size <= MaxFileSize
        /\ n.links # 0
        /\ n.allocated = dataBlocks + (IF dataBlocks > NSFS_DIRECT_BLOCKS THEN 1 ELSE 0)
        /\ logical = 0..(dataBlocks - 1)
        /\ (n.indirect # 0) = (dataBlocks > NSFS_DIRECT_BLOCKS)

\* A regular file with holes: nsfs.c makes them on purpose, and the checker
\* calls each of them an inode.missing_block.  What remains to ask of one.
SparseInode(d, i) ==
    LET n == d.inode[i]
    IN  /\ n.type = "file" /\ n.links # 0
        /\ n.allocated = Cardinality(Pointers(d, i))
        /\ \A p \in Pointers(d, i) :
              IF p[2] = Indirect THEN d.blk[p[3]] # ZeroPointers
              ELSE p[2] < DivCeil(n.size, BlockCells)

validate_inodes_and_blocks(d) ==
    LET pointers == UNION {Pointers(d, i) : i \in d.inodeBitmap}
    IN  /\ \A i \in d.inodeBitmap : validate_one_inode(d, i) \/ SparseInode(d, i)
        /\ \A p \in pointers : claim_block(d, pointers, p)
        /\ \A i \in InodeNumbers \ d.inodeBitmap : d.inode[i] = FreeInode
        /\ d.blockBitmap = {p[3] : p \in pointers}

DirectoryNumbers(d) == {i \in d.inodeBitmap : d.inode[i].type = "dir"}
\* The names in a directory: <<directory, place, inode, name>>.
Entries(d, i) ==
    {<<i, p, At(d, d.inode[i], p).ino, At(d, d.inode[i], p).name>> :
        p \in {q \in Places(d, d.inode[i]) : At(d, d.inode[i], q).ino # 0}}

\* Each record in turn.
process_dirent(d, i, e) ==
    IF e.ino = 0 THEN e.name = "" /\ e.type = "none"
    ELSE /\ e.ino \in d.inodeBitmap
         /\ e.type = d.inode[e.ino].type
         /\ e.name = "." => e.ino = i
         /\ e.name = ".." => e.type = "dir"

Length(block) ==
    LET sum[k \in 0..Len(block)] == IF k = 0 THEN 0 ELSE sum[k - 1] + block[k].len
    IN  sum[Len(block)]

validate_directory(d, i) ==
    LET n == d.inode[i]
        entries == Entries(d, i)
        named(name) == {e \in entries : e[4] = name}
    IN  /\ n.size # 0
        /\ \A l \in DirBlocks(n) :
              /\ nsfs_inode_data_block(d, n, l) # 0
              /\ Length(DirBlock(d, n, l)) = BlockUnits
        /\ \A p \in Places(d, n) :
              LET e == At(d, n, p)
              IN  /\ e.len >= IF e.ino = 0 THEN DirentHeader ELSE Needed(e.name)
                  /\ process_dirent(d, i, e)
        /\ \A name \in {".", ".."} : Cardinality(named(name)) = 1
        /\ \A name \in Names : Cardinality(named(name)) <= 1

validate_directories(d) ==
    /\ Root \in DirectoryNumbers(d)
    /\ \A i \in DirectoryNumbers(d) : validate_directory(d, i)

validate_topology(d) ==
    LET entries == UNION {Entries(d, i) : i \in DirectoryNumbers(d)}
        edges == {e \in entries : e[4] \in Names}
        children(S) == {e[3] : e \in {x \in edges : x[1] \in S}}
        reach[k \in 0..TotalInodes] ==
            IF k = 0 THEN {Root} ELSE reach[k - 1] \cup children(reach[k - 1])
        parents(i) == {e \in edges : e[3] = i}
        dotdot(i) == nsfs_directory_lookup_loaded(d, d.inode[i], "..").ino
    IN  /\ dotdot(Root) = Root /\ parents(Root) = {}
        /\ d.inodeBitmap \subseteq reach[TotalInodes]
        /\ \A i \in DirectoryNumbers(d) \ {Root} :
              \E e \in edges : parents(i) = {e} /\ dotdot(i) = e[1]
        /\ \A i \in d.inodeBitmap :
              d.inode[i].links = Cardinality({e \in entries : e[3] = i})

-----------------------------------------------------------------------------
\* The shape of the volume.
TypeOK ==
    /\ disk.inodeBitmap \subseteq InodeNumbers /\ disk.blockBitmap \subseteq Blocks
    /\ disk.freeInodes \in 0..TotalInodes /\ disk.freeBlocks \in 0..TotalBlocks
    /\ DOMAIN disk.inode = InodeNumbers /\ DOMAIN disk.blk = Blocks
    /\ \A i \in disk.inodeBitmap : disk.inode[i].size \in 0..MaxFileSize
    /\ \A i \in InodeNumbers : \A p \in DOMAIN expect[i] : expect[i][p] \in SUBSET {0, 1}

\* Whatever sequence of calls is made, and wherever one of them fails or the
\* machine stops, the volume passes the repository's own checker (holes of
\* sparse files aside): bitmaps and counts agree with what the inodes own, no
\* block has two owners or none, records tile their blocks, every name leads
\* to an inode of its type, link counts are the numbers of names, and the
\* directories are a tree rooted at inode 1.
FsckClean ==
    /\ validate_bitmap_tails(disk)
    /\ validate_inodes_and_blocks(disk)
    /\ validate_directories(disk)
    /\ validate_topology(disk)

\* A file reads as what was written to it: zero where nothing was, in holes,
\* behind an old end and in recycled blocks; a call that failed half way leaves
\* each cell of its range old or new and touches no other cell of any file.
ReadsMatchWrites ==
    \A i \in disk.inodeBitmap : disk.inode[i].type # "dir" =>
        \A p \in 1..disk.inode[i].size : nsfs_read(disk, i)[p] \in expect[i][p]
=============================================================================
