-------------------------------- MODULE Vfs --------------------------------
(***************************************************************************)
(* The VFS (fs/vfs.c): the mount table and path resolution, devices, open  *)
(* files, descriptor tables, and what spawn and exec do to them            *)
(* (proc/fd.c, proc/process.c).                                            *)
(*                                                                         *)
(* One action is one call of the interface.  In the kernel a call is not   *)
(* interrupted: system calls run behind an interrupt gate, on one CPU, and *)
(* the kernel's own calls are made before user threads are scheduled.  So  *)
(* the hazards are sequences of calls, and calls that fail halfway: for    *)
(* lack of memory (fault), of a descriptor, or in the device's open.       *)
(*                                                                         *)
(* A path given by a caller is [abs, names, slash]; a canonical path is    *)
(* the sequence of its names, the root <<>>.                               *)
(***************************************************************************)
EXTENDS VfsNodes

CONSTANTS Tables,      \* descriptor tables, one per process
          MaximumFds, OpenFiles,
          Paths,       \* the paths callers use
          OpenFlags,   \* the flag words callers use
          SpawnLists,  \* the lists of actions spawns use
          Archives, Counts,
          MaxDepth,    \* NS_PATH_MAX, in components
          MaxDevices,
          MaxCalls,    \* bounds per kind of call: "name", "open", "data"
          MaxAllCalls  \* and on all of them

\* A descriptor in an action may be negative or too large.
SpawnActions ==
    LET AnyFd == -1..MaximumFds
    IN [type : {"close"}, fd : AnyFd] \cup [type : {"dup2"}, fd : AnyFd, source : AnyFd]
        \cup [type : {"open"}, fd : AnyFd, path : Paths, flags : OpenFlags]

ASSUME VfsAssumption ==
    /\ MaximumFds \in Nat \ {0} /\ OpenFiles \in Nat \ {0}
    /\ MaxDepth \in Nat \ {0} /\ MaxDevices \in Nat
    /\ MaxCalls \in [{"name", "open", "data"} -> Nat] /\ MaxAllCalls \in Nat
    /\ Counts \subseteq Nat /\ IsFiniteSet(Tables)
    /\ SpawnLists \subseteq Seq(SpawnActions)
    /\ \A p \in Paths : p \in [abs : BOOLEAN, names : Seq(STRING), slash : BOOLEAN]
    /\ \A a \in Archives :
        /\ a.members \in Seq([abs : BOOLEAN, path : Seq(STRING), type : {"dir", "reg"},
                             size : Nat, sound : BOOLEAN])
        /\ a.trailer \in BOOLEAN

VARIABLES node,     \* the node table
          mounts,   \* records [target, root, ro, covered]
          devices,  \* newest first: the paths of the registered devices
          file,     \* open-file descriptions
          table,    \* descriptor tables; NoTable where there is none
          up,       \* ns_vfs_create .. ns_vfs_destroy
          calls     \* calls so far, per kind

vars == <<node, mounts, devices, file, table, up, calls>>

Fds == 0..(MaximumFds - 1)
FileIds == 1..OpenFiles
NoEntry == [file |-> 0, cloexec |-> FALSE]
NoTable == [cwd |-> <<>>, fds |-> <<>>]
EmptyTable == [cwd |-> <<>>, fds |-> [d \in Fds |-> NoEntry]]
FreeFile == [kind |-> "free", refs |-> 0, flags |-> {}, offset |-> 0,
             cookie |-> 0, node |-> 0, ro |-> FALSE]

-----------------------------------------------------------------------------
(* Paths and mounts                                                        *)

append_component(path, name) ==
    IF Len(path) = MaxDepth THEN [st |-> "ENAMETOOLONG", path |-> path]
    ELSE [st |-> "OK", path |-> Append(path, name)]

pop_component(path) == IF path = <<>> THEN path ELSE Front(path)

consume_component(r, name) ==
    CASE r.st # "OK" \/ name = "." -> r
      [] name = ".." -> [r EXCEPT !.path = pop_component(@)]
      [] OTHER -> append_component(r.path, name)
consume_path(path, names) ==
    LET at[k \in 0..Len(names)] ==
            IF k = 0 THEN [st |-> "OK", path |-> path]
            ELSE consume_component(at[k - 1], names[k])
    IN at[Len(names)]

ns_vfs_canonicalize(cwd, p) ==
    IF ~p.abs /\ p.names = <<>> THEN [st |-> "ENOENT", path |-> <<>>]
    ELSE consume_path(IF p.abs THEN <<>> ELSE cwd, p.names)

mount_matches(m, path) == IsPrefix(m.target, path)

\* The longest target wins; no two are equal.
select_mount(path) ==
    LET fit == {m \in mounts : mount_matches(m, path)}
    IN CHOOSE m \in fit : \A o \in fit : Len(o.target) <= Len(m.target)

\* Walks from the mount's root; every step retains the next node and releases
\* the last one.
WalkTo(r, next) == [n |-> node_release(next.n, r.id), st |-> next.st, id |-> next.id,
                    mount |-> r.mount]
resolve_component(r, name) ==
    IF r.st # "OK" THEN r ELSE WalkTo(r, fs_lookup(r.n, r.id, name))
resolve_from(n, m, path) ==
    LET at[k \in 0..(Len(path) - Len(m.target))] ==
            IF k = 0
            THEN [n |-> node_retain(n, m.root), st |-> "OK", id |-> m.root, mount |-> m]
            ELSE resolve_component(at[k - 1], path[Len(m.target) + k])
    IN at[Len(path) - Len(m.target)]
resolve_canonical(n, path) == resolve_from(n, select_mount(path), path)

Refused(r, code) ==
    [r EXCEPT !.n = node_release(r.n, r.id), !.st = code, !.id = 0]

split_parent(n, path) ==
    IF path = <<>> THEN [n |-> n, st |-> "EBUSY", id |-> 0, mount |-> select_mount(path)]
    ELSE resolve_canonical(n, Front(path))

path_is_mount_target_Below(path, descendants) ==
    \E m \in mounts :
        descendants /\ path # <<>> /\ IsStrictPrefix(path, m.target)
path_is_mount_target(path, descendants) ==
    \E m \in mounts :
        \/ m.target = path
        \/ descendants /\ path # <<>> /\ IsPrefix(path, m.target)

\* The common part of mkdir, register_device and open: make the last name in
\* the directory of the rest.
CreateIn(parent, name, type, oom) ==
    LET Made(r) == [parent EXCEPT !.n = node_release(r.n, parent.id),
                                  !.st = r.st, !.id = r.id]
    IN CASE parent.st # "OK" -> parent
         [] parent.mount.ro -> Refused(parent, "EROFS")
         [] OTHER -> Made(fs_create(parent.n, parent.id, name, type, oom))
CreateAt(n, path, type, oom) ==
    CreateIn(split_parent(n, path), Last(path), type, oom)

ns_vfs_create ==
    /\ node = [i \in NodeIds |-> CASE i = 1 -> NewNode("", "dir", 2)
                                   [] i = NsfsRoot -> NewNode("", "dir", 1)
                                   [] OTHER -> FreeNode]
    /\ mounts = {[target |-> <<>>, root |-> 1, ro |-> FALSE, covered |-> 0]}
    /\ devices = <<>>
    /\ up = TRUE

\* ns_vfs_mount on a node table that holds the new filesystem: the root is
\* retained, and released again when the target is taken.
MountOn(here, path, root, oom) ==
    LET Result(n, code, at) == [n |-> n, st |-> code, at |-> at]
        seen == node_release(here.n, here.id)
    IN CASE path = <<>> -> Result(seen, "EBUSY", 0)
         [] here.st # "OK" -> Result(here.n, here.st, 0)
         [] here.n[here.id].type # "dir" -> Result(seen, "ENOTDIR", 0)
         [] oom -> Result(seen, "ENOMEM", 0)
         [] path_is_mount_target(path, FALSE) ->
              Result(node_release(node_retain(seen, root), root), "EBUSY", 0)
         [] OTHER -> Result(node_retain(seen, root), "OK", here.id)

Mounted(r, path, root, ro) ==
    mounts' = IF r.st = "OK"
              THEN mounts \cup {[target |-> path, root |-> root, ro |-> ro,
                                 covered |-> r.at]}
              ELSE mounts

\* northstar_g5_run: the NorthstarFS volume, through nsfs_vfs_mount_spec.
ns_vfs_mount(p, oom) ==
    /\ up /\ \A m \in mounts : m.root # NsfsRoot
    /\ \E c \in {ns_vfs_canonicalize(<<>>, p)} :
       \E r \in {MountOn(resolve_canonical(node, c.path), c.path, NsfsRoot, oom)} :
        /\ c.st = "OK"
        /\ node' = r.n
        /\ Mounted(r, c.path, NsfsRoot, FALSE)
    /\ UNCHANGED <<devices, file, table, up>>

\* A failure after the nodes exist destroys the whole tree again.
ns_vfs_mount_initramfs(p, archive, oom) ==
    /\ up /\ FreeOf(node, Heap) # {}
    /\ \E c \in {ns_vfs_canonicalize(<<>>, p)}, root \in {Smallest(FreeOf(node, Heap))} :
       \E parsed \in {parse_archive([node EXCEPT ![root] = NewNode("", "dir", 1)], root, archive)} :
        /\ c.st = "OK"
        /\ \/ /\ parsed.st # "OK"
              /\ node' = ramfs_destroy_tree(parsed.n, root)
              /\ UNCHANGED mounts
           \/ /\ parsed.st = "OK"
              /\ \E r \in {MountOn(resolve_canonical(parsed.n, c.path), c.path, root, oom)} :
                  /\ node' = IF r.st = "OK" THEN r.n ELSE ramfs_destroy_tree(r.n, root)
                  /\ Mounted(r, c.path, root, TRUE)
    /\ UNCHANGED <<devices, file, table, up>>

ns_vfs_mkdir(cwd, p, oom) ==
    /\ up
    /\ \E c \in {ns_vfs_canonicalize(cwd, p)} :
       \E found \in {resolve_canonical(node, c.path)} :
        /\ c.st = "OK"
        /\ \/ found.st = "OK" /\ node' = node_release(found.n, found.id)
           \/ found.st \notin {"OK", "ENOENT"} /\ node' = found.n
           \/ /\ found.st = "ENOENT"
              /\ \E made \in {CreateAt(found.n, c.path, "dir", oom)} :
                  node' = IF made.st = "OK" THEN node_release(made.n, made.id) ELSE made.n
    /\ UNCHANGED <<mounts, devices, file, table, up>>

\* The node table after ns_vfs_unlink.
UnlinkIn(parent, name, rmdir) ==
    CASE parent.st # "OK" -> parent.n
      [] parent.mount.ro -> node_release(parent.n, parent.id)
      [] OTHER -> node_release(fs_unlink(parent.n, parent.id, name, rmdir), parent.id)
UnlinkSuffixed(suffixed, path, rmdir) ==
    CASE suffixed.st # "OK" -> suffixed.n
      [] suffixed.n[suffixed.id].type # "dir" -> node_release(suffixed.n, suffixed.id)
      [] OTHER -> UnlinkIn(split_parent(node_release(suffixed.n, suffixed.id), path),
                           Last(path), rmdir)
Unlinked(n, path, slash, rmdir) ==
    IF path_is_mount_target(path, rmdir) THEN n
    ELSE IF slash THEN UnlinkSuffixed(resolve_canonical(n, path), path, rmdir)
    ELSE UnlinkIn(split_parent(n, path), Last(path), rmdir)

ns_vfs_unlink(cwd, p, rmdir) ==
    /\ up
    /\ \E c \in {ns_vfs_canonicalize(cwd, p)} :
        c.st = "OK" /\ node' = Unlinked(node, c.path, p.slash, rmdir)
    /\ UNCHANGED <<mounts, devices, file, table, up>>

\* The device record is allocated last; without memory the node goes again.
ns_vfs_register_device(p, fault) ==
    /\ up /\ Len(devices) < MaxDevices
    /\ \E c \in {ns_vfs_canonicalize(<<>>, p)} :
       \E made \in {CreateAt(node, c.path, "char", fault = "node")} :
        /\ c.st = "OK"
        /\ \/ made.st # "OK" /\ node' = made.n /\ UNCHANGED devices
           \/ /\ made.st = "OK" /\ fault = "device"
              /\ node' = Unlinked(node_release(made.n, made.id), c.path, FALSE, FALSE)
              /\ UNCHANGED devices
           \/ /\ made.st = "OK" /\ fault # "device"
              /\ node' = node_release(made.n, made.id)
              /\ devices' = <<c.path>> \o devices
    /\ UNCHANGED <<mounts, file, table, up>>

find_device(path) == \E k \in DOMAIN devices : devices[k] = path

-----------------------------------------------------------------------------
(* Open files and descriptor tables: s is [n, f, fds], the nodes, the open *)
(* files and one table's entries.                                          *)

\* The flags a file keeps that anything looks at later.
StatusFlags == {"RDONLY", "WRONLY", "RDWR", "APPEND"}
flags_allow_read(flags) == flags \cap {"RDONLY", "RDWR"} # {}
flags_allow_write(flags) == flags \cap {"WRONLY", "RDWR"} # {}

ns_vfs_file_retain(s, k) == [s EXCEPT !.f[k].refs = @ + 1]
ns_vfs_file_release(s, k) ==
    IF s.f[k].refs > 1 THEN [s EXCEPT !.f[k].refs = @ - 1]
    ELSE [s EXCEPT !.f[k] = FreeFile,
                   !.n = IF s.f[k].kind = "vnode"
                         THEN node_release(@, s.f[k].node) ELSE @]

FreeFiles(f) == {k \in FileIds : f[k].kind = "free"}

ns_vfs_fd_install(s, k, minimum, cloexec) ==
    LET room == {d \in Fds : d >= minimum /\ s.fds[d].file = 0} IN
    IF room = {} THEN [s |-> s, fd |-> -1]
    ELSE [s |-> [ns_vfs_file_retain(s, k) EXCEPT
                    !.fds[Smallest(room)] = [file |-> k, cloexec |-> cloexec]],
          fd |-> Smallest(room)]

\* The node ns_vfs_open arrives at: r is what the path resolved to, and when
\* that is nothing it may be made.
FoundOrMade(r, path, p, flags, fault) ==
    CASE r.st = "OK" /\ {"CREAT", "EXCL"} \subseteq flags -> Refused(r, "EEXIST")
      [] r.st = "ENOENT" /\ "CREAT" \in flags /\ ~p.slash ->
           CreateAt(r.n, path, "reg", fault = "node")
      [] OTHER -> r

OpenCheck(type, ro, p, flags) ==
    CASE ("DIRECTORY" \in flags \/ p.slash) /\ type # "dir" -> "ENOTDIR"
      [] type = "dir" /\ flags_allow_write(flags) -> "EISDIR"
      [] type = "reg" /\ ro /\ flags_allow_write(flags) -> "EROFS"
      [] "TRUNC" \in flags /\ ~flags_allow_write(flags) -> "EACCES"
      [] "TRUNC" \in flags /\ ro -> "EROFS"
      [] "TRUNC" \in flags /\ type # "reg" -> "EINVAL"
      [] OTHER -> "OK"

\* Opening node i, already checked, of a file system mounted read-only or not.
\* The truncation is done before the memory for the open file is known to be
\* there; a device's file does not keep the node.
OpenNode(s, i, ro, device, flags, fault) ==
    LET n == IF "TRUNC" \in flags THEN fs_truncate(s.n, i) ELSE s.n
        free == FreeFiles(s.f)
        new == [FreeFile EXCEPT !.kind = IF device THEN "device" ELSE "vnode",
                                !.refs = 1, !.ro = ro,
                                !.flags = flags \cap StatusFlags,
                                !.node = IF device THEN 0 ELSE i]
        Installed(in, k) == [in EXCEPT !.s = ns_vfs_file_release(in.s, k)]
        Open(k) == Installed(ns_vfs_fd_install(
                        [s EXCEPT !.n = IF device THEN node_release(n, i) ELSE n,
                                  !.f[k] = new], k, 0, "CLOEXEC" \in flags), k)
    IN IF free = {} \/ fault = "file" \/ (device /\ fault = "open")
       THEN [s |-> [s EXCEPT !.n = node_release(n, i)], fd |-> -1]
       ELSE Open(Smallest(free))

OpenChecked(s, r, path, p, flags, fault) ==
    LET type == r.n[r.id].type
        Error(n) == [s |-> [s EXCEPT !.n = n], fd |-> -1]
    IN CASE r.st # "OK" -> Error(r.n)
         [] OpenCheck(type, r.mount.ro, p, flags) # "OK" -> Error(node_release(r.n, r.id))
         [] OTHER -> OpenNode([s EXCEPT !.n = r.n], r.id, r.mount.ro,
                              type = "char" /\ find_device(path), flags, fault)

ns_vfs_open_at(s, c, p, flags, fault) ==
    IF c.st # "OK" THEN [s |-> s, fd |-> -1]
    ELSE OpenChecked(s, FoundOrMade(resolve_canonical(s.n, c.path), c.path, p, flags,
                                    fault), c.path, p, flags, fault)
ns_vfs_open_in(s, cwd, p, flags, fault) ==
    ns_vfs_open_at(s, ns_vfs_canonicalize(cwd, p), p, flags, fault)

IsOpen(s, d) == d \in Fds /\ s.fds[d].file # 0

\* ns_vfs_close of a descriptor that is open.
CloseIn(s, d) == ns_vfs_file_release([s EXCEPT !.fds[d] = NoEntry], s.fds[d].file)

ns_vfs_dup2_in_ReleasesFirst(s, old, new, cloexec) ==
    LET replaced == s.fds[new].file
        dropped == IF replaced = 0 THEN s ELSE ns_vfs_file_release(s, replaced)
    IN [dropped EXCEPT !.fds[new] = [file |-> s.fds[old].file, cloexec |-> cloexec]]
\* The new file is retained before the one it replaces is released.
ns_vfs_dup2_in(s, old, new, cloexec) ==
    LET replaced == s.fds[new].file
        put == [ns_vfs_file_retain(s, s.fds[old].file)
                    EXCEPT !.fds[new] = [file |-> s.fds[old].file, cloexec |-> cloexec]]
    IN IF old = new THEN s
       ELSE IF replaced = 0 THEN put ELSE ns_vfs_file_release(put, replaced)
ReleaseOne(s, fds, d) == IF d \in fds /\ s.fds[d].file # 0 THEN CloseIn(s, d) ELSE s
ReleaseAll(s, fds) ==
    LET released[k \in 0..MaximumFds] ==
            IF k = 0 THEN s ELSE ReleaseOne(released[k - 1], fds, k - 1)
    IN released[MaximumFds]
ns_vfs_fdtable_close_cloexec(s) == ReleaseAll(s, {d \in Fds : s.fds[d].cloexec})

Exists(t) == table[t] # NoTable
State(t) == [n |-> node, f |-> file, fds |-> table[t].fds]
Becomes(t, s) == /\ node' = s.n /\ file' = s.f
                 /\ table' = [table EXCEPT ![t].fds = s.fds]
                 /\ UNCHANGED <<mounts, devices, up>>
Held(t, d) == up /\ Exists(t) /\ table[t].fds[d].file # 0

ns_vfs_fdtable_create(t) ==
    /\ up /\ ~Exists(t)
    /\ table' = [table EXCEPT ![t] = EmptyTable]
    /\ UNCHANGED <<node, mounts, devices, file, up>>

ns_vfs_fdtable_destroy(t) ==
    /\ up /\ Exists(t)
    /\ LET s == ReleaseAll(State(t), Fds)
       IN node' = s.n /\ file' = s.f
    /\ table' = [table EXCEPT ![t] = NoTable]
    /\ UNCHANGED <<mounts, devices, up>>

ns_vfs_open(t, p, flags, fault) ==
    /\ up /\ Exists(t)
    /\ \E r \in {ns_vfs_open_in(State(t), table[t].cwd, p, flags, fault)} :
        Becomes(t, r.s)

ns_vfs_close(t, d) ==
    /\ Held(t, d)
    /\ \E s \in {CloseIn(State(t), d)} : Becomes(t, s)

ns_vfs_dup(t, d, minimum, cloexec) ==
    /\ Held(t, d)
    /\ \E r \in {ns_vfs_fd_install(State(t), table[t].fds[d].file, minimum, cloexec)} :
        Becomes(t, r.s)

ns_vfs_dup2(t, old, new, cloexec) ==
    /\ Held(t, old)
    /\ \E s \in {ns_vfs_dup2_in(State(t), old, new, cloexec)} : Becomes(t, s)

\* Pipes make files of their own: ns_vfs_file_create, install, and the release
\* of the maker's reference, whether the install worked or not.
ns_vfs_file_create(t) ==
    /\ up /\ Exists(t) /\ FreeFiles(file) # {}
    /\ \E k \in {Smallest(FreeFiles(file))} :
       \E r \in {ns_vfs_fd_install([State(t) EXCEPT !.f[k] = [FreeFile EXCEPT
                    !.kind = "custom", !.refs = 1, !.flags = {"RDWR"}]], k, 0, FALSE)} :
       \E s \in {ns_vfs_file_release(r.s, k)} : Becomes(t, s)

\* Spawn: the child has a descriptor for every one of the parent's, the
\* close-on-exec ones included, and then the actions of its list change them.
CloneOne(s, d) == IF s.fds[d].file = 0 THEN s ELSE ns_vfs_file_retain(s, s.fds[d].file)
ns_vfs_fdtable_clone(s) ==
    LET cloned[k \in 0..MaximumFds] ==
            IF k = 0 THEN s ELSE CloneOne(cloned[k - 1], k - 1)
    IN cloned[MaximumFds]

\* What OPEN opened is moved to the descriptor asked for; if that is out of
\* range the action fails and what was opened is closed.
SpawnOpened(opened, a) ==
    LET moved == IF a.fd \in Fds
                 THEN ns_vfs_dup2_in(opened.s, opened.fd, a.fd, "CLOEXEC" \in a.flags)
                 ELSE opened.s
    IN CASE opened.fd = -1 -> [s |-> opened.s, ok |-> FALSE]
         [] opened.fd = a.fd -> [s |-> opened.s, ok |-> TRUE]
         [] OTHER -> [s |-> CloseIn(moved, opened.fd), ok |-> a.fd \in Fds]
ApplyAction(s, cwd, a, fault) ==
    CASE a.type = "dup2" /\ a.fd \in Fds /\ IsOpen(s, a.source) ->
           [s |-> ns_vfs_dup2_in(s, a.source, a.fd, FALSE), ok |-> TRUE]
      [] a.type = "close" /\ IsOpen(s, a.fd) -> [s |-> CloseIn(s, a.fd), ok |-> TRUE]
      [] a.type = "open" /\ a.fd # -1 ->
           SpawnOpened(ns_vfs_open_in(s, cwd, a.path, a.flags, fault), a)
      [] OTHER -> [s |-> s, ok |-> FALSE]
ApplyNext(r, cwd, a, fault) == IF r.ok THEN ApplyAction(r.s, cwd, a, fault) ELSE r
\* The list is carried out in order, up to the first action that fails.
ns_proc_fd_apply_actions(s, cwd, actions, fault) ==
    LET applied[k \in 0..Len(actions)] ==
            IF k = 0 THEN [s |-> s, ok |-> TRUE]
            ELSE ApplyNext(applied[k - 1], cwd, actions[k], fault)
    IN applied[Len(actions)]

\* The fault "context" is the user context's, after the actions.  A spawn that
\* fails destroys the child's table; what its actions did to files stays done.
ns_proc_spawn(t, u, actions, fault) ==
    /\ up /\ Exists(t) /\ ~Exists(u)
    /\ \E applied \in {ns_proc_fd_apply_actions(ns_vfs_fdtable_clone(State(t)),
                                                table[t].cwd, actions, fault)} :
       \E ok \in {applied.ok /\ fault # "context"} :
       \E s \in {IF ok THEN applied.s ELSE ReleaseAll(applied.s, Fds)} :
        /\ node' = s.n /\ file' = s.f
        /\ table' = IF ok
                    THEN [table EXCEPT ![u] = [cwd |-> table[t].cwd, fds |-> s.fds]]
                    ELSE table
    /\ UNCHANGED <<mounts, devices, up>>

\* The last step of an exec that worked; one that fails leaves the table alone.
ns_proc_exec(t) ==
    /\ up /\ Exists(t)
    /\ \E s \in {ns_vfs_fdtable_close_cloexec(State(t))} : Becomes(t, s)

ns_vfs_read(t, d, count) ==
    LET k == table[t].fds[d].file IN
    /\ Held(t, d) /\ flags_allow_read(file[k].flags)
    /\ file[k].kind = "vnode" /\ node[file[k].node].type = "reg"
    /\ file' = [file EXCEPT ![k].offset =
                    @ + fs_read_count(node[file[k].node], @, count)]
    /\ UNCHANGED <<node, mounts, devices, table, up>>

\* APPEND writes at the end the node has now; a failed write moves nothing.
ns_vfs_write(t, d, count, oom) ==
    LET k == table[t].fds[d].file
        i == file[k].node
        at == IF "APPEND" \in file[k].flags THEN node[i].size ELSE file[k].offset
        r == fs_write(node, i, at, count, oom)
    IN /\ Held(t, d) /\ flags_allow_write(file[k].flags)
       /\ file[k].kind = "vnode" /\ ~file[k].ro /\ at + count <= MaxSize
       /\ node' = r.n
       /\ file' = IF r.st = "OK" /\ count > 0
                  THEN [file EXCEPT ![k].offset = at + count] ELSE file
       /\ UNCHANGED <<mounts, devices, table, up>>

ns_vfs_seek(t, d, base, delta) ==
    LET k == table[t].fds[d].file
        from == CASE base = "SET" -> 0
                  [] base = "CUR" -> file[k].offset
                  [] base = "END" -> node[file[k].node].size
    IN /\ Held(t, d) /\ file[k].kind = "vnode"
       /\ node[file[k].node].type = "reg"
       /\ from + delta \in 0..MaxSize
       /\ file' = [file EXCEPT ![k].offset = from + delta]
       /\ UNCHANGED <<node, mounts, devices, table, up>>

\* One entry per call; the cookie is a position, which nothing adjusts when
\* entries come and go.
ns_vfs_getdents(t, d) ==
    LET k == table[t].fds[d].file IN
    /\ Held(t, d) /\ file[k].kind = "vnode"
    /\ fs_readdir(node[file[k].node], file[k].cookie) = "ENTRY"
    /\ file' = [file EXCEPT ![k].cookie = @ + 1]
    /\ UNCHANGED <<node, mounts, devices, table, up>>

ns_vfs_chdir(t, p) ==
    /\ up /\ Exists(t)
    /\ \E c \in {ns_vfs_canonicalize(table[t].cwd, p)} :
       \E r \in {resolve_canonical(node, c.path)} :
        /\ c.st = "OK"
        /\ node' = IF r.st = "OK" THEN node_release(r.n, r.id) ELSE r.n
        /\ table' = IF r.st = "OK" /\ r.n[r.id].type = "dir"
                    THEN [table EXCEPT ![t].cwd = c.path] ELSE table
    /\ UNCHANGED <<mounts, devices, file, up>>

\* The contract asks for all tables and files to be gone.  Every mount gives back
\* its root, and the trees of ramfs and initramfs go.
RootsReleased(n, roots) ==
    [i \in NodeIds |-> IF i \in roots THEN node_release(n, i)[i] ELSE n[i]]
ns_vfs_destroy ==
    /\ up /\ \A t \in Tables : ~Exists(t)
    /\ up' = FALSE /\ mounts' = {} /\ devices' = <<>>
    /\ LET roots == {m.root : m \in mounts}
           n == RootsReleased(node, roots)
       IN node' = Destroyed(n, UNION {Subtree(n, i) : i \in roots \cap Heap})
    /\ UNCHANGED <<file, table>>

-----------------------------------------------------------------------------
Init == /\ ns_vfs_create
        /\ file = [k \in FileIds |-> FreeFile]
        /\ \E t \in Tables : table = [[u \in Tables |-> NoTable] EXCEPT ![t] = EmptyTable]
        /\ calls = [kind \in DOMAIN MaxCalls |-> 0]

\* Calls that change nothing are not counted.
Room(kind) == /\ calls[kind] < MaxCalls[kind]
              /\ calls.name + calls.open + calls.data < MaxAllCalls
Charge(kind) ==
    calls' = IF <<node, mounts, devices, file, table>>'
                    = <<node, mounts, devices, file, table>> THEN calls
             ELSE [calls EXCEPT ![kind] = @ + 1]

\* Calls that change the namespace.
NameCall ==
    \/ \E p \in Paths, oom \in BOOLEAN :
        \/ ns_vfs_mount(p, oom)
        \/ \E a \in Archives : ns_vfs_mount_initramfs(p, a, oom)
        \/ ns_vfs_mkdir(<<>>, p, oom)
    \/ \E p \in Paths, rmdir \in BOOLEAN : ns_vfs_unlink(<<>>, p, rmdir)
    \/ \E p \in Paths, fault \in {"none", "node", "device"} :
        ns_vfs_register_device(p, fault)
    \/ \E t \in Tables, p \in Paths : ns_vfs_chdir(t, p)

\* Calls that add descriptors.
OpenCall == \E t \in Tables :
    \/ ns_vfs_fdtable_create(t)
    \/ ns_vfs_file_create(t)
    \/ \E p \in Paths, flags \in OpenFlags,
          fault \in {"none", "node", "file", "open"} :
        ns_vfs_open(t, p, flags, fault)
    \/ \E u \in Tables \ {t}, actions \in SpawnLists,
          fault \in {"none", "node", "file", "open", "context"} :
        ns_proc_spawn(t, u, actions, fault)
    \/ \E d \in Fds, m \in Fds :
        ns_vfs_dup(t, d, m, FALSE) \/ ns_vfs_dup2(t, d, m, TRUE)

\* Calls that read, write or move an offset.
DataCall == \E t \in Tables, d \in Fds :
    \/ \E count \in Counts, oom \in BOOLEAN : ns_vfs_write(t, d, count, oom)
    \/ \E count \in Counts : ns_vfs_read(t, d, count)
    \/ \E base \in {"SET", "CUR", "END"}, delta \in -1..1 :
        ns_vfs_seek(t, d, base, delta)
    \/ ns_vfs_getdents(t, d)

\* Calls that give back what the others took are not bounded.
CloseCall == \/ \E t \in Tables : \/ ns_vfs_fdtable_destroy(t)
                                  \/ ns_proc_exec(t)
                                  \/ \E d \in Fds : ns_vfs_close(t, d)
             \/ ns_vfs_destroy

Next == \/ Room("name") /\ NameCall /\ Charge("name")
        \/ Room("open") /\ OpenCall /\ Charge("open")
        \/ Room("data") /\ DataCall /\ Charge("data")
        \/ CloseCall /\ UNCHANGED calls

Spec == Init /\ [][Next]_vars

-----------------------------------------------------------------------------
Live(i) == node[i].type # "free"
Entries(k) == {e \in Tables \X Fds : Exists(e[1]) /\ table[e[1]].fds[e[2]].file = k}
FilesOn(i) == {k \in FileIds : file[k].kind = "vnode" /\ file[k].node = i}
MountsOf(i) == {m \in mounts : m.root = i}
Linked(i) == \E j \in NodeIds : i \in node[j].kids

\* Types, and the buffer of a file holds at least its contents.
TypeOK ==
    /\ \A i \in NodeIds :
        /\ node[i].type \in {"free", "dir", "reg", "char"}
        /\ node[i].refs \in 0..(2 + OpenFiles)
        /\ node[i].size <= Len(node[i].data)
    /\ \A k \in FileIds :
        /\ file[k].kind \in {"free", "vnode", "device", "custom"}
        /\ file[k].refs \in 0..(MaximumFds * Cardinality(Tables))
    /\ \A t \in Tables : Len(table[t].cwd) <= MaxDepth

\* On every path through every call, the failing ones included, references are
\* taken and given back in pairs: an open file has one per descriptor, a counted
\* node one for its place in the tree or as a filesystem's root, one per mount
\* and one per open file; what nothing holds is free, what something holds is
\* not, and nothing survives ns_vfs_destroy.
ReferencesExact ==
    /\ \A k \in FileIds :
        /\ file[k].refs = Cardinality(Entries(k))
        /\ file[k].kind = "free" <=> Entries(k) = {}
    /\ \A i \in Heap :
        LET tree == IF Linked(i) \/ MountsOf(i) # {} THEN 1 ELSE 0
            held == tree + Cardinality(MountsOf(i)) + Cardinality(FilesOn(i))
        IN node[i].refs = held /\ (Live(i) <=> held > 0)
    /\ \A i \in NodeIds : \A j \in node[i].kids : Live(i) /\ Live(j)

\* The directory a filesystem was mounted on cannot be taken away under it by
\* unlink or rmdir, by whichever path: its node stays a directory in the tree.
MountsAnchored ==
    \A m \in mounts : m.target # <<>> =>
        LET i == m.covered IN
        node[i].type = "dir" /\ (Linked(i) \/ MountsOf(i) # {})

\* A file reads as its history of writes says: holes left by writes past the
\* end are zero, whatever the buffer held before a truncation.
ContentsAsWritten ==
    \A i \in NodeIds : SubSeq(node[i].data, 1, node[i].size) = node[i].want
=============================================================================
