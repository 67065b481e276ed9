------------------------------ MODULE VfsNodes ------------------------------
(***************************************************************************)
(* The nodes behind the VFS and what the three filesystem adapters do to   *)
(* them: the bootstrap ramfs (fs/vfs.c), the read-only initramfs           *)
(* (fs/initramfs.c) and NorthstarFS (fs/nsfs_vfs.c).  All operators map a  *)
(* node table n to a new one.                                              *)
(*                                                                         *)
(* Ramfs and initramfs nodes are counted: one reference for the directory  *)
(* tree, one for every mount rooted there, open file or caller that holds  *)
(* one.  A NorthstarFS node is an inode number, which nobody counts.       *)
(* Times, modes and inode numbers of the other two are left out.           *)
(***************************************************************************)
EXTENDS Integers, Sequences, SequencesExt, FiniteSets

CONSTANTS RamNodes,        \* node memory for ramfs and initramfs: 1..RamNodes
          NsfsNodes,       \* inode numbers of the NorthstarFS volume
          NsfsRoot,
          InitialCapacity, \* of a ramfs buffer (64 in the code)
          MaxSize          \* the longest file of the instance

ASSUME NodesAssumption ==
    /\ RamNodes \in Nat \ {0} /\ NsfsRoot \in NsfsNodes
    /\ NsfsNodes \subseteq Nat /\ NsfsNodes \cap 0..RamNodes = {}
    /\ InitialCapacity \in Nat \ {0} /\ MaxSize \in Nat

Heap == 1..RamNodes
NodeIds == Heap \cup NsfsNodes
Smallest(S) == CHOOSE x \in S : \A y \in S : x <= y

\* kids: the children, whose order nothing here observes.  data: the buffer, whose
\* length is the capacity; size of its bytes are the file's.  want is history: what
\* the calls so far make the contents.
NewNode(name, type, refs) ==
    [name |-> name, type |-> type, refs |-> refs, kids |-> {}, data |-> <<>>, size |-> 0,
     implicit |-> FALSE, want |-> <<>>]
FreeNode == NewNode("", "free", 0)

Counted(i) == i \in Heap
FreeOf(n, ids) == {i \in ids : n[i].type = "free"}

\* node_retain and node_release: adapters that leave the two operations NULL
\* count nothing.
node_retain(n, i) ==
    IF Counted(i) THEN [n EXCEPT ![i].refs = @ + 1] ELSE n
node_release(n, i) ==
    IF ~Counted(i) THEN n
    ELSE IF n[i].refs = 1 THEN [n EXCEPT ![i] = FreeNode]
         ELSE [n EXCEPT ![i].refs = @ - 1]

Fail(n, code) == [n |-> n, st |-> code, id |-> 0]
Done(n, i) == [n |-> n, st |-> "OK", id |-> i]

Named(n, dir, name) == {i \in n[dir].kids : n[i].name = name}

\* ramfs_lookup, initfs_lookup, nsfs_vfs_lookup: the result is retained.
Retained(n, i) == Done(node_retain(n, i), i)
fs_lookup(n, dir, name) ==
    IF n[dir].type # "dir" THEN Fail(n, "ENOTDIR")
    ELSE IF Named(n, dir, name) = {} THEN Fail(n, "ENOENT")
    ELSE Retained(n, Smallest(Named(n, dir, name)))

\* Memory first, then the look for the name; the new node carries the tree's
\* reference and the caller's.
Placed(n, dir, name, type, refs, i) ==
    Done([n EXCEPT ![i] = NewNode(name, type, refs), ![dir].kids = @ \cup {i}], i)
ramfs_create(n, dir, name, type, oom) ==
    CASE n[dir].type # "dir" -> Fail(n, "ENOTDIR")
      [] FreeOf(n, Heap) = {} \/ oom -> Fail(n, "ENOMEM")
      [] Named(n, dir, name) # {} -> Fail(n, "EEXIST")
      [] OTHER -> Placed(n, dir, name, type, 2, Smallest(FreeOf(n, Heap)))

\* NorthstarFS makes files and directories; it has no inode to spare or one.
nsfs_vfs_create(n, dir, name, type) ==
    CASE type \notin {"dir", "reg"} -> Fail(n, "EINVAL")
      [] n[dir].type # "dir" -> Fail(n, "ENOTDIR")
      [] Named(n, dir, name) # {} -> Fail(n, "EEXIST")
      [] FreeOf(n, NsfsNodes) = {} -> Fail(n, "ENOSPC")
      [] OTHER -> Placed(n, dir, name, type, 1, Smallest(FreeOf(n, NsfsNodes)))

UnlinkStatus(n, dir, name, rmdir) ==
    LET i == Smallest(Named(n, dir, name)) IN
    CASE n[dir].type # "dir" -> "ENOTDIR"
      [] Named(n, dir, name) = {} -> "ENOENT"
      [] n[i].type = "dir" /\ ~rmdir -> "EISDIR"
      [] n[i].type = "dir" /\ n[i].kids # {} -> "ENOTEMPTY"
      [] n[i].type # "dir" /\ rmdir -> "ENOTDIR"
      [] OTHER -> "OK"
Without(n, dir, i) == [n EXCEPT ![dir].kids = @ \ {i}]

\* ramfs drops the tree's reference; NorthstarFS frees the inode, whoever has
\* it open.
ramfs_unlink(n, dir, name) ==
    LET i == Smallest(Named(n, dir, name)) IN node_release(Without(n, dir, i), i)
nsfs_vfs_unlink(n, dir, name) ==
    LET i == Smallest(Named(n, dir, name)) IN [Without(n, dir, i) EXCEPT ![i] = FreeNode]

\* The only length the VFS truncates to is 0.  ramfs_truncate keeps the buffer
\* with whatever it holds; NorthstarFS gives the blocks back.
ramfs_truncate(n, i) == [n EXCEPT ![i].size = 0, ![i].want = <<>>]
nsfs_vfs_truncate(n, i) == [ramfs_truncate(n, i) EXCEPT ![i].data = <<>>]

ramfs_reserve_Short(node, required) ==
    IF node.data = <<>> THEN [k \in 1..InitialCapacity |-> 0]
    ELSE IF required <= Len(node.data) + 1 THEN node.data
    ELSE [k \in 1..(2 * Len(node.data)) |->
            IF k <= node.size THEN node.data[k] ELSE 0]
\* ramfs_reserve: the capacity doubles; a new buffer is zero past the contents.
DoubledUpTo(start, required) ==
    LET capacity[k \in 0..required] ==
            IF k = 0 THEN start
            ELSE IF capacity[k - 1] >= required THEN capacity[k - 1]
            ELSE 2 * capacity[k - 1]
    IN capacity[required]
ramfs_reserve(node, required) ==
    LET start == IF node.data = <<>> THEN InitialCapacity ELSE Len(node.data)
    IN IF required <= Len(node.data) THEN node.data
       ELSE [k \in 1..DoubledUpTo(start, required) |->
                IF k <= node.size THEN node.data[k] ELSE 0]

Within(k, from, to) == from < k /\ k <= to

ramfs_write_fill_KeepsHole(node, data, offset, end) ==
    [k \in DOMAIN data |-> IF Within(k, offset, end) THEN 1 ELSE data[k]]
ramfs_write_fill(node, data, offset, end) ==
    [k \in DOMAIN data |-> IF Within(k, offset, end) THEN 1
                           ELSE IF Within(k, node.size, offset) THEN 0
                           ELSE data[k]]

\* A write of count bytes (all 1) at offset.  Past the end, the hole reads as
\* zero; in ramfs a write of no bytes past the end moves the end too.
ramfs_write(n, i, offset, count, oom) ==
    LET end == offset + count
        size == IF end > n[i].size THEN end ELSE n[i].size
    IN CASE n[i].type # "reg" -> Fail(n, "ENODEV")
         [] oom /\ end > Len(n[i].data) -> Fail(n, "ENOMEM")
         [] OTHER -> Done([n EXCEPT ![i].size = size,
                ![i].data = ramfs_write_fill(n[i], ramfs_reserve(n[i], end), offset, end),
                ![i].want = [k \in 1..size |-> IF Within(k, offset, end) THEN 1
                                               ELSE IF k <= Len(@) THEN @[k] ELSE 0]], i)
nsfs_vfs_write(n, i, offset, count) ==
    IF count = 0 THEN Done(n, i) ELSE ramfs_write(n, i, offset, count, FALSE)

fs_read_count(node, offset, count) ==
    IF offset >= node.size THEN 0
    ELSE IF count < node.size - offset THEN count ELSE node.size - offset

\* ramfs_readdir and initfs_readdir: ".", "..", then the children by position.
fs_readdir(node, cookie) ==
    IF node.type # "dir" THEN "ENOTDIR"
    ELSE IF cookie >= 2 + Cardinality(node.kids) THEN "END" ELSE "ENTRY"

\* The operations through the table of the node's filesystem.
fs_create(n, dir, name, type, oom) ==
    IF Counted(dir) THEN ramfs_create(n, dir, name, type, oom)
    ELSE nsfs_vfs_create(n, dir, name, type)
fs_unlink(n, dir, name, rmdir) ==
    IF UnlinkStatus(n, dir, name, rmdir) # "OK" THEN n
    ELSE IF Counted(dir) THEN ramfs_unlink(n, dir, name)
    ELSE nsfs_vfs_unlink(n, dir, name)
fs_truncate(n, i) ==
    IF Counted(i) THEN ramfs_truncate(n, i) ELSE nsfs_vfs_truncate(n, i)
fs_write(n, i, offset, count, oom) ==
    IF Counted(i) THEN ramfs_write(n, i, offset, count, oom)
    ELSE nsfs_vfs_write(n, i, offset, count)

\* The nodes of the tree under i: the least set that holds i and the children of
\* its members.  The destruction of trees asks no counts.
Closed(n, S) == \A j \in S : n[j].kids \subseteq S
Subtree(n, i) == {j \in Heap : \A S \in SUBSET Heap : i \in S /\ Closed(n, S) => j \in S}
Destroyed(n, gone) == [j \in NodeIds |-> IF j \in gone THEN FreeNode ELSE n[j]]
ramfs_destroy_tree(n, i) == Destroyed(n, Subtree(n, i))

-----------------------------------------------------------------------------
(* Initramfs.  An archive is its members and whether the trailer follows;  *)
(* a member is [abs, path, type, size]: the decoding of the header fields  *)
(* (parse_hex8, alignment, checksum) is one flag, sound.                   *)

allocate_node(n, dir, name, type, implicit) ==
    LET ids == FreeOf(n, Heap)
        i == Smallest(ids)
    IN IF ids = {} THEN Fail(n, "ENOMEM")
       ELSE Done([n EXCEPT ![i] = [NewNode(name, type, 1) EXCEPT !.implicit = implicit],
                           ![dir].kids = @ \cup {i}], i)

get_directory(n, dir, name) ==
    LET hit == Named(n, dir, name) IN
    IF hit = {} THEN allocate_node(n, dir, name, "dir", TRUE)
    ELSE IF n[Smallest(hit)].type # "dir" THEN Fail(n, "ENOTDIR")
         ELSE Done(n, Smallest(hit))

\* The last component: a directory made on the way may be named once.
Filled(r, bytes) ==
    IF r.st # "OK" THEN r
    ELSE Done([r.n EXCEPT ![r.id].data = bytes, ![r.id].size = Len(bytes),
                          ![r.id].want = bytes, ![r.id].implicit = FALSE], r.id)
place_member(n, dir, name, m) ==
    LET hit == Named(n, dir, name)
        bytes == [k \in 1..(IF m.type = "reg" THEN m.size ELSE 0) |-> 1]
    IN IF hit = {} THEN Filled(allocate_node(n, dir, name, m.type, FALSE), bytes)
       ELSE IF n[Smallest(hit)].implicit /\ m.type = "dir"
            THEN Filled(Done(n, Smallest(hit)), bytes)
       ELSE Fail(n, "EEXIST")

Inserted(r, n, m) ==
    IF r.st = "OK" /\ ~r.saw /\ m.type # "dir" THEN Fail(n, "EINVAL")
    ELSE [n |-> r.n, st |-> r.st, id |-> r.id]
Into(r) == [n |-> r.n, st |-> r.st, id |-> r.id, saw |-> TRUE]
insert_component(r, m, k) ==
    LET name == m.path[k] IN
    CASE r.st # "OK" -> r
      [] name = "." /\ ~(k = Len(m.path) /\ r.saw) -> r
      [] name \in {".", ".."} -> [r EXCEPT !.st = "EINVAL"]
      [] OTHER -> Into(IF k < Len(m.path) THEN get_directory(r.n, r.id, name)
                       ELSE place_member(r.n, r.id, name, m))
insert_member(n, root, m) ==
    LET at[k \in 0..Len(m.path)] ==
            IF k = 0 THEN [n |-> n, st |-> "OK", id |-> root, saw |-> FALSE]
            ELSE insert_component(at[k - 1], m, k)
    IN IF m.abs \/ m.path = <<>> THEN Fail(n, "EINVAL")
       ELSE Inserted(at[Len(m.path)], n, m)

parse_member(r, root, m) ==
    IF r.st # "OK" THEN r
    ELSE IF ~m.sound THEN [r EXCEPT !.st = "EINVAL"]
    ELSE insert_member(r.n, root, m)
parse_archive(n, root, archive) ==
    LET parsed[k \in 0..Len(archive.members)] ==
            IF k = 0 THEN Done(n, root)
            ELSE parse_member(parsed[k - 1], root, archive.members[k])
        Trailer(r) == IF r.st = "OK" /\ ~archive.trailer
                      THEN [r EXCEPT !.st = "EINVAL"] ELSE r
    IN Trailer(parsed[Len(archive.members)])
=============================================================================
