----------------------------- MODULE Vfs_proofs -----------------------------
(***************************************************************************)
(* Proofs about Vfs for every number of nodes, open files, descriptors and *)
(* processes, every set of paths, flags and archives and every sequence of *)
(* calls.                                                                  *)
(***************************************************************************)
EXTENDS Vfs, SequenceTheorems, FiniteSetTheorems, WellFoundedInduction, TLAPS

----------------------------------------------------------------------------
\* The inductive invariant.

Name == STRING \cup {""}
Node == [name : Name, type : {"free", "dir", "reg", "char"}, refs : Nat,
         kids : SUBSET NodeIds, data : Seq(Nat), size : Nat, implicit : BOOLEAN,
         want : Seq(Nat)]

\* The contents of one node are what the calls so far make them.
Sound(r) ==
    /\ r.size <= Len(r.data) /\ Len(r.want) = r.size
    /\ \A k \in 1..r.size : r.data[k] = r.want[k]

\* Nobody counts the references of a NorthstarFS node.
Uncounted(n) == \A i \in NodeIds : i \in Heap \/ n[i].refs <= 1

Typed(n) ==
    /\ n \in [NodeIds -> Node] /\ \A i \in NodeIds : Sound(n[i])
    /\ Uncounted(n)

\* Kinship: only directories have children, which are in use, of the same file
\* system, each with one parent and a name of its own.
Kin(n) ==
    /\ \A i \in NodeIds : n[i].type = "free" => n[i] = FreeNode
    /\ \A i \in NodeIds : \A j \in n[i].kids :
        /\ n[i].type = "dir" /\ n[j].type # "free" /\ (i \in Heap <=> j \in Heap)
        /\ \A k \in NodeIds : j \in n[k].kids => k = i
        /\ \A k \in n[i].kids : n[k].name = n[j].name => k = j

\* Every set of nodes holds one that has no parent in it: there are no cycles.
Grounded(n) ==
    \A S \in SUBSET NodeIds :
        S # {} => \E i \in S : \A j \in S : i \notin n[j].kids

LinkedIn(n, i) == \E j \in NodeIds : i \in n[j].kids
InTree(n, R, i) == i \in R \/ LinkedIn(n, i)

\* R are the roots of the file systems; what is out of the tree has no children.
Rooted(n, R) ==
    /\ R \subseteq NodeIds
    /\ \A i \in R : n[i].type = "dir" /\ ~LinkedIn(n, i)
    /\ \A i \in NodeIds : n[i].kids # {} => InTree(n, R, i)

Tree(n, R) == Typed(n) /\ Kin(n) /\ Grounded(n) /\ Rooted(n, R)

\* What is in the tree stays there as it is, but for new children.
Grows(n, u, R) ==
    \A i \in NodeIds : InTree(n, R, i) =>
        /\ InTree(u, R, i) /\ u[i].type = n[i].type /\ u[i].name = n[i].name
        /\ n[i].kids \subseteq u[i].kids

\* M are the roots that are mounted; y is the node the call under way holds, or 0.
OnNode(f, i) == {k \in FileIds : f[k].kind = "vnode" /\ f[k].node = i}
One(b) == IF b THEN 1 ELSE 0
Exact(n, f, R, M, y) ==
    /\ M \subseteq R
    /\ \A i \in Heap :
        /\ n[i].refs = One(InTree(n, R, i)) + One(i \in M) + Cardinality(OnNode(f, i))
                        + One(i = y)
        /\ n[i].type = "free" <=> n[i].refs = 0

Good(n, f, R, M, y) == Tree(n, R) /\ Exact(n, f, R, M, y)

File == [kind : {"free", "vnode", "device", "custom"}, refs : Nat,
         flags : SUBSET StatusFlags, offset : Nat, cookie : Nat,
         node : NodeIds \cup {0}, ro : BOOLEAN]
Entry == [file : FileIds \cup {0}, cloexec : BOOLEAN]

\* E says which file each descriptor of each table refers to, 0 for none; x is
\* the file the call under way holds, or 0.
EntriesOf(E, k) == {e \in Tables \X Fds : E[e] = k}
FilesOK(f, E, x) ==
    /\ f \in [FileIds -> File]
    /\ \A k \in FileIds :
        /\ f[k].kind = "vnode" => f[k].node \in NodeIds
        /\ f[k].refs = Cardinality(EntriesOf(E, k)) + One(k = x)
        /\ f[k].kind = "free" <=> f[k].refs = 0

EntryMap(tb) ==
    [e \in Tables \X Fds |-> IF tb[e[1]] = NoTable THEN 0 ELSE tb[e[1]].fds[e[2]].file]

Table == [cwd : Seq(STRING), fds : [Fds -> Entry]]
TablesOK(tb) ==
    /\ tb \in [Tables -> Table \cup {NoTable}]
    /\ \A t \in Tables : Len(tb[t].cwd) <= MaxDepth

\* last steps along the names of path past the first from lead to node i.
Walks(n, root, path, from, last, i) ==
    \E g \in [0..last -> NodeIds] :
        /\ g[0] = root /\ g[last] = i
        /\ \A k \in 1..last : g[k] \in n[g[k - 1]].kids /\ n[g[k]].name = path[from + k]

\* Walking path below m's root arrives at node i.
Arrives(n, m, path, i) ==
    /\ IsPrefix(m.target, path)
    /\ Walks(n, m.root, path, Len(m.target), Len(path) - Len(m.target), i)

Mount == [target : Seq(STRING), root : Heap \cup {NsfsRoot}, ro : BOOLEAN,
          covered : NodeIds \cup {0}]
MountsOK(ms) ==
    /\ ms \subseteq Mount
    /\ \A m, o \in ms : m.root = o.root \/ m.target = o.target => m = o

\* The directory that is covered is still where the path of the mount leads in the
\* file system that the mount was made in.
Anchored(n, ms) ==
    \A m \in ms : m.target # <<>> =>
        n[m.covered].type = "dir" /\ \E o \in ms : Arrives(n, o, m.target, m.covered)

RootsOf(ms) == {m.root : m \in ms}

VfsInv ==
    /\ up \in BOOLEAN
    /\ MountsOK(mounts) /\ (IF up THEN \E m \in mounts : m.target = <<>> ELSE mounts = {})
    /\ TablesOK(table) /\ (~up => \A t \in Tables : table[t] = NoTable)
    /\ FilesOK(file, EntryMap(table), 0)
    /\ Good(node, file, RootsOf(mounts) \cup {NsfsRoot}, RootsOf(mounts), 0)
    /\ Anchored(node, mounts)

----------------------------------------------------------------------------
\* Numbers, and the loops of the code as sequences of states.

Doubled(c, required) == IF c >= required THEN c ELSE 2 * c

LEMMA SmallestIs ==
    ASSUME NEW S \in SUBSET Nat, S # {}
    PROVE  Smallest(S) \in S /\ \A y \in S : Smallest(S) <= y
  <1> DEFINE L == {p \in Nat \X Nat : p[1] < p[2]}
  <1>1. IsWellFoundedOn(L, Nat)
    BY NatLessThanWellFounded DEF OpToRel
  <1>2. \A x, n \in Nat : x < n => <<x, n>> \in L
    OBVIOUS
  <1> HIDE DEF L
  <1>3. PICK n \in S : \A x \in S : ~(<<x, n>> \in L)
    BY <1>1, WFMin
  <1>4. ASSUME NEW y \in S PROVE n <= y
    <2>1. n \in Nat /\ y \in Nat /\ ~(y < n)
      BY <1>2, <1>3
    <2> QED
      BY <2>1
  <1> QED
    BY <1>3, <1>4 DEF Smallest

\* A set of numbers up to N that goes on downwards and does not hold 0 is empty.
LEMMA Downwards ==
    ASSUME NEW N \in Nat, NEW B, B \subseteq 0..N, 0 \notin B,
           \A n \in 1..N : n \in B => n - 1 \in B
    PROVE  B = {}
  <1>1. SUFFICES ASSUME B # {} PROVE FALSE
    OBVIOUS
  <1>2. B \in SUBSET Nat
    OBVIOUS
  <1> DEFINE m == Smallest(B)
  <1>3. m \in B /\ \A y \in B : m <= y
    BY <1>1, <1>2, SmallestIs
  <1> HIDE DEF m
  <1>4. m \in 1..N /\ m \in Nat
    BY <1>3
  <1>5. m - 1 \in B /\ m - 1 \in Nat
    BY <1>3, <1>4
  <1> QED
    BY <1>3, <1>4, <1>5

IsDoubling(start, required, f) ==
    f = [n \in 0..required |-> IF n = 0 THEN start ELSE Doubled(f[n - 1], required)]

LEMMA DoublingExist ==
    ASSUME NEW start, NEW required, required \in Nat
    PROVE  \E f : IsDoubling(start, required, f)
  <1> DEFINE N == required
             b == start
             Upto(m, f) == f = [n \in 0..m |-> IF n = 0 THEN b ELSE Doubled(f[n - 1], required)]
             Bad == {m \in 0..N : ~\E f : Upto(m, f)}
  <1>1. N \in Nat
    OBVIOUS
  <1> HIDE DEF N, b
  <1>2. 0 \notin Bad
    <2> DEFINE f == [n \in 0..0 |-> b]
    <2>1. f = [n \in 0..0 |-> IF n = 0 THEN b ELSE Doubled(f[n - 1], required)]
      OBVIOUS
    <2>2. Upto(0, f)
      BY <2>1
    <2> HIDE DEF f, Upto
    <2> QED
      BY <2>2
  <1>3. ASSUME NEW m \in 1..N, m - 1 \notin Bad PROVE m \notin Bad
    <2>1. m \in Nat /\ m # 0 /\ m - 1 \in 0..N /\ m - 1 \in Nat
      BY <1>1
    <2>2. PICK g : Upto(m - 1, g)
      <3> HIDE DEF Upto
      <3> QED
        BY <1>3, <2>1
    <2> DEFINE f == [n \in 0..m |-> IF n = m THEN Doubled(g[m - 1], required) ELSE g[n]]
    <2>3. \A n \in 0..m : n # m => n \in 0..(m - 1)
      BY <2>1
    <2>4. \A n \in 0..m : f[n] = IF n = 0 THEN b ELSE Doubled(f[n - 1], required)
      <3> TAKE n \in 0..m
      <3>1. CASE n = m
        <4>1. f[m] = Doubled(g[m - 1], required) /\ f[m - 1] = g[m - 1]
          BY <2>1
        <4> QED
          BY <2>1, <3>1, <4>1
      <3>2. CASE n # m
        <4>1. n \in 0..(m - 1) /\ f[n] = g[n]
          BY <2>3, <3>2
        <4>2. g[n] = IF n = 0 THEN b ELSE Doubled(g[n - 1], required)
          BY <2>2, <4>1
        <4>3. n # 0 => n - 1 \in 0..m /\ n - 1 # m
          BY <2>1, <4>1
        <4>4. n # 0 => f[n - 1] = g[n - 1]
          BY <4>3
        <4> QED
          BY <4>1, <4>2, <4>4
      <3> QED
        BY <3>1, <3>2
    <2>5. Upto(m, f)
      <3>1. f = [n \in 0..m |-> f[n]]
        OBVIOUS
      <3> HIDE DEF f
      <3> QED
        BY <2>4, <3>1
    <2> HIDE DEF f, Upto
    <2> QED
      BY <2>5
  <1>4. Bad = {}
    <2>1. Bad \subseteq 0..N
      OBVIOUS
    <2> HIDE DEF Bad
    <2> QED
      BY <1>1, <1>2, <1>3, <2>1, Downwards
  <1>5. \E f : Upto(N, f)
    <2>1. N \in 0..N
      BY <1>1
    <2>2. N \notin Bad
      <3> HIDE DEF Bad
      <3> QED
        BY <1>4
    <2> HIDE DEF Upto
    <2> QED
      BY <2>1, <2>2
  <1>6. PICK f : Upto(N, f)
    BY <1>5
  <1>7. IsDoubling(start, required, f)
    BY <1>6, Zenon DEF IsDoubling, N, b
  <1> QED
    BY <1>7

DoublingTrace(start, required, f) ==
    /\ DoubledUpTo(start, required) = f[required] /\ f[0] = start
    /\ \A n \in 1..(required) : f[n] = Doubled(f[n - 1], required)

LEMMA DoublingStates ==
    ASSUME NEW start, NEW required, required \in Nat
    PROVE  \E f : DoublingTrace(start, required, f)
  <1> DEFINE f == CHOOSE f : IsDoubling(start, required, f)
             N == required
             b == start
  <1>1. IsDoubling(start, required, f)
    BY DoublingExist
  <1>2. DoubledUpTo(start, required) = f[required]
    BY DEF IsDoubling, DoubledUpTo, Doubled
  <1>3. N \in Nat
    OBVIOUS
  <1> HIDE DEF f
  <1>4. f = [n \in 0..N |-> IF n = 0 THEN b ELSE Doubled(f[n - 1], required)]
    BY <1>1 DEF IsDoubling
  <1> HIDE DEF N, b
  <1>5. f[0] = b /\ \A n \in 1..N : f[n] = Doubled(f[n - 1], required)
    <2>1. 0 \in 0..N /\ \A n \in 1..N : n \in 0..N /\ n # 0
      BY <1>3
    <2>2. \A n \in 0..N : f[n] = IF n = 0 THEN b ELSE Doubled(f[n - 1], required)
      BY <1>4
    <2> QED
      BY <2>1, <2>2
  <1>6. /\ DoubledUpTo(start, required) = f[required] /\ f[0] = b
        /\ \A n \in 1..N : f[n] = Doubled(f[n - 1], required)
    BY <1>2, <1>5
  <1>7. DoublingTrace(start, required, f)
    BY <1>6, Zenon DEF DoublingTrace, N, b
  <1> QED
    BY <1>7

IsInsertion(t, root, member, f) ==
    f = [n \in 0..Len(member.path) |->
            IF n = 0 THEN [n |-> t, st |-> "OK", id |-> root, saw |-> FALSE]
            ELSE insert_component(f[n - 1], member, n)]

LEMMA InsertionExist ==
    ASSUME NEW t, NEW root, NEW member, Len(member.path) \in Nat
    PROVE  \E f : IsInsertion(t, root, member, f)
  <1> DEFINE N == Len(member.path)
             b == [n |-> t, st |-> "OK", id |-> root, saw |-> FALSE]
             Upto(m, f) == f = [n \in 0..m |-> IF n = 0 THEN b ELSE insert_component(f[n - 1], member, n)]
             Bad == {m \in 0..N : ~\E f : Upto(m, f)}
  <1>1. N \in Nat
    OBVIOUS
  <1> HIDE DEF N, b
  <1>2. 0 \notin Bad
    <2> DEFINE f == [n \in 0..0 |-> b]
    <2>1. f = [n \in 0..0 |-> IF n = 0 THEN b ELSE insert_component(f[n - 1], member, n)]
      OBVIOUS
    <2>2. Upto(0, f)
      BY <2>1
    <2> HIDE DEF f, Upto
    <2> QED
      BY <2>2
  <1>3. ASSUME NEW m \in 1..N, m - 1 \notin Bad PROVE m \notin Bad
    <2>1. m \in Nat /\ m # 0 /\ m - 1 \in 0..N /\ m - 1 \in Nat
      BY <1>1
    <2>2. PICK g : Upto(m - 1, g)
      <3> HIDE DEF Upto
      <3> QED
        BY <1>3, <2>1
    <2> DEFINE f == [n \in 0..m |-> IF n = m THEN insert_component(g[m - 1], member, m) ELSE g[n]]
    <2>3. \A n \in 0..m : n # m => n \in 0..(m - 1)
      BY <2>1
    <2>4. \A n \in 0..m : f[n] = IF n = 0 THEN b ELSE insert_component(f[n - 1], member, n)
      <3> TAKE n \in 0..m
      <3>1. CASE n = m
        <4>1. f[m] = insert_component(g[m - 1], member, m) /\ f[m - 1] = g[m - 1]
          BY <2>1
        <4> QED
          BY <2>1, <3>1, <4>1
      <3>2. CASE n # m
        <4>1. n \in 0..(m - 1) /\ f[n] = g[n]
          BY <2>3, <3>2
        <4>2. g[n] = IF n = 0 THEN b ELSE insert_component(g[n - 1], member, n)
          BY <2>2, <4>1
        <4>3. n # 0 => n - 1 \in 0..m /\ n - 1 # m
          BY <2>1, <4>1
        <4>4. n # 0 => f[n - 1] = g[n - 1]
          BY <4>3
        <4> QED
          BY <4>1, <4>2, <4>4
      <3> QED
        BY <3>1, <3>2
    <2>5. Upto(m, f)
      <3>1. f = [n \in 0..m |-> f[n]]
        OBVIOUS
      <3> HIDE DEF f
      <3> QED
        BY <2>4, <3>1
    <2> HIDE DEF f, Upto
    <2> QED
      BY <2>5
  <1>4. Bad = {}
    <2>1. Bad \subseteq 0..N
      OBVIOUS
    <2> HIDE DEF Bad
    <2> QED
      BY <1>1, <1>2, <1>3, <2>1, Downwards
  <1>5. \E f : Upto(N, f)
    <2>1. N \in 0..N
      BY <1>1
    <2>2. N \notin Bad
      <3> HIDE DEF Bad
      <3> QED
        BY <1>4
    <2> HIDE DEF Upto
    <2> QED
      BY <2>1, <2>2
  <1>6. PICK f : Upto(N, f)
    BY <1>5
  <1>7. IsInsertion(t, root, member, f)
    BY <1>6, Zenon DEF IsInsertion, N, b
  <1> QED
    BY <1>7

InsertionTrace(t, root, member, f) ==
    /\ insert_member(t, root, member)
            = (IF member.abs \/ member.path = <<>> THEN Fail(t, "EINVAL")
               ELSE Inserted(f[Len(member.path)], t, member))
    /\ f[0] = [n |-> t, st |-> "OK", id |-> root, saw |-> FALSE]
    /\ \A n \in 1..(Len(member.path)) : f[n] = insert_component(f[n - 1], member, n)

LEMMA InsertionStates ==
    ASSUME NEW t, NEW root, NEW member, Len(member.path) \in Nat
    PROVE  \E f : InsertionTrace(t, root, member, f)
  <1> DEFINE f == CHOOSE f : IsInsertion(t, root, member, f)
             N == Len(member.path)
             b == [n |-> t, st |-> "OK", id |-> root, saw |-> FALSE]
  <1>1. IsInsertion(t, root, member, f)
    BY InsertionExist
  <1>2. insert_member(t, root, member)
            = (IF member.abs \/ member.path = <<>> THEN Fail(t, "EINVAL")
               ELSE Inserted(f[Len(member.path)], t, member))
    BY DEF IsInsertion, insert_member
  <1>3. N \in Nat
    OBVIOUS
  <1> HIDE DEF f
  <1>4. f = [n \in 0..N |-> IF n = 0 THEN b ELSE insert_component(f[n - 1], member, n)]
    BY <1>1 DEF IsInsertion
  <1> HIDE DEF N, b
  <1>5. f[0] = b /\ \A n \in 1..N : f[n] = insert_component(f[n - 1], member, n)
    <2>1. 0 \in 0..N /\ \A n \in 1..N : n \in 0..N /\ n # 0
      BY <1>3
    <2>2. \A n \in 0..N : f[n] = IF n = 0 THEN b ELSE insert_component(f[n - 1], member, n)
      BY <1>4
    <2> QED
      BY <2>1, <2>2
  <1>6. /\ insert_member(t, root, member)
                = (IF member.abs \/ member.path = <<>> THEN Fail(t, "EINVAL")
                   ELSE Inserted(f[Len(member.path)], t, member))
        /\ f[0] = b
        /\ \A n \in 1..N : f[n] = insert_component(f[n - 1], member, n)
    BY <1>2, <1>5
  <1>7. InsertionTrace(t, root, member, f)
    BY <1>6, Zenon DEF InsertionTrace, N, b
  <1> QED
    BY <1>7

IsParse(t, root, archive, f) ==
    f = [n \in 0..Len(archive.members) |->
            IF n = 0 THEN Done(t, root) ELSE parse_member(f[n - 1], root, archive.members[n])]

LEMMA ParseExist ==
    ASSUME NEW t, NEW root, NEW archive, Len(archive.members) \in Nat
    PROVE  \E f : IsParse(t, root, archive, f)
  <1> DEFINE N == Len(archive.members)
             b == Done(t, root)
             Upto(m, f) == f = [n \in 0..m |-> IF n = 0 THEN b ELSE parse_member(f[n - 1], root, archive.members[n])]
             Bad == {m \in 0..N : ~\E f : Upto(m, f)}
  <1>1. N \in Nat
    OBVIOUS
  <1> HIDE DEF N, b
  <1>2. 0 \notin Bad
    <2> DEFINE f == [n \in 0..0 |-> b]
    <2>1. f = [n \in 0..0 |-> IF n = 0 THEN b ELSE parse_member(f[n - 1], root, archive.members[n])]
      OBVIOUS
    <2>2. Upto(0, f)
      BY <2>1
    <2> HIDE DEF f, Upto
    <2> QED
      BY <2>2
  <1>3. ASSUME NEW m \in 1..N, m - 1 \notin Bad PROVE m \notin Bad
    <2>1. m \in Nat /\ m # 0 /\ m - 1 \in 0..N /\ m - 1 \in Nat
      BY <1>1
    <2>2. PICK g : Upto(m - 1, g)
      <3> HIDE DEF Upto
      <3> QED
        BY <1>3, <2>1
    <2> DEFINE f == [n \in 0..m |-> IF n = m THEN parse_member(g[m - 1], root, archive.members[m]) ELSE g[n]]
    <2>3. \A n \in 0..m : n # m => n \in 0..(m - 1)
      BY <2>1
    <2>4. \A n \in 0..m : f[n] = IF n = 0 THEN b ELSE parse_member(f[n - 1], root, archive.members[n])
      <3> TAKE n \in 0..m
      <3>1. CASE n = m
        <4>1. f[m] = parse_member(g[m - 1], root, archive.members[m]) /\ f[m - 1] = g[m - 1]
          BY <2>1
        <4> QED
          BY <2>1, <3>1, <4>1
      <3>2. CASE n # m
        <4>1. n \in 0..(m - 1) /\ f[n] = g[n]
          BY <2>3, <3>2
        <4>2. g[n] = IF n = 0 THEN b ELSE parse_member(g[n - 1], root, archive.members[n])
          BY <2>2, <4>1
        <4>3. n # 0 => n - 1 \in 0..m /\ n - 1 # m
          BY <2>1, <4>1
        <4>4. n # 0 => f[n - 1] = g[n - 1]
          BY <4>3
        <4> QED
          BY <4>1, <4>2, <4>4
      <3> QED
        BY <3>1, <3>2
    <2>5. Upto(m, f)
      <3>1. f = [n \in 0..m |-> f[n]]
        OBVIOUS
      <3> HIDE DEF f
      <3> QED
        BY <2>4, <3>1
    <2> HIDE DEF f, Upto
    <2> QED
      BY <2>5
  <1>4. Bad = {}
    <2>1. Bad \subseteq 0..N
      OBVIOUS
    <2> HIDE DEF Bad
    <2> QED
      BY <1>1, <1>2, <1>3, <2>1, Downwards
  <1>5. \E f : Upto(N, f)
    <2>1. N \in 0..N
      BY <1>1
    <2>2. N \notin Bad
      <3> HIDE DEF Bad
      <3> QED
        BY <1>4
    <2> HIDE DEF Upto
    <2> QED
      BY <2>1, <2>2
  <1>6. PICK f : Upto(N, f)
    BY <1>5
  <1>7. IsParse(t, root, archive, f)
    BY <1>6, Zenon DEF IsParse, N, b
  <1> QED
    BY <1>7

ParseTrace(t, root, archive, f) ==
    /\ parse_archive(t, root, archive)
            = (IF f[Len(archive.members)].st = "OK" /\ ~archive.trailer
               THEN [f[Len(archive.members)] EXCEPT !.st = "EINVAL"]
               ELSE f[Len(archive.members)])
    /\ f[0] = Done(t, root)
    /\ \A n \in 1..(Len(archive.members)) : f[n] = parse_member(f[n - 1], root, archive.members[n])

LEMMA ParseStates ==
    ASSUME NEW t, NEW root, NEW archive, Len(archive.members) \in Nat
    PROVE  \E f : ParseTrace(t, root, archive, f)
  <1> DEFINE f == CHOOSE f : IsParse(t, root, archive, f)
             N == Len(archive.members)
             b == Done(t, root)
  <1>1. IsParse(t, root, archive, f)
    BY ParseExist
  <1>2. parse_archive(t, root, archive)
            = (IF f[Len(archive.members)].st = "OK" /\ ~archive.trailer
               THEN [f[Len(archive.members)] EXCEPT !.st = "EINVAL"]
               ELSE f[Len(archive.members)])
    BY DEF IsParse, parse_archive
  <1>3. N \in Nat
    OBVIOUS
  <1> HIDE DEF f
  <1>4. f = [n \in 0..N |-> IF n = 0 THEN b ELSE parse_member(f[n - 1], root, archive.members[n])]
    BY <1>1 DEF IsParse
  <1> HIDE DEF N, b
  <1>5. f[0] = b /\ \A n \in 1..N : f[n] = parse_member(f[n - 1], root, archive.members[n])
    <2>1. 0 \in 0..N /\ \A n \in 1..N : n \in 0..N /\ n # 0
      BY <1>3
    <2>2. \A n \in 0..N : f[n] = IF n = 0 THEN b ELSE parse_member(f[n - 1], root, archive.members[n])
      BY <1>4
    <2> QED
      BY <2>1, <2>2
  <1>6. /\ parse_archive(t, root, archive)
                = (IF f[Len(archive.members)].st = "OK" /\ ~archive.trailer
                   THEN [f[Len(archive.members)] EXCEPT !.st = "EINVAL"]
                   ELSE f[Len(archive.members)])
        /\ f[0] = b
        /\ \A n \in 1..N : f[n] = parse_member(f[n - 1], root, archive.members[n])
    BY <1>2, <1>5
  <1>7. ParseTrace(t, root, archive, f)
    BY <1>6, Zenon DEF ParseTrace, N, b
  <1> QED
    BY <1>7

IsConsumption(path, names, f) ==
    f = [n \in 0..Len(names) |->
            IF n = 0 THEN [st |-> "OK", path |-> path] ELSE consume_component(f[n - 1], names[n])]

LEMMA ConsumptionExist ==
    ASSUME NEW path, NEW names, Len(names) \in Nat
    PROVE  \E f : IsConsumption(path, names, f)
  <1> DEFINE N == Len(names)
             b == [st |-> "OK", path |-> path]
             Upto(m, f) == f = [n \in 0..m |-> IF n = 0 THEN b ELSE consume_component(f[n - 1], names[n])]
             Bad == {m \in 0..N : ~\E f : Upto(m, f)}
  <1>1. N \in Nat
    OBVIOUS
  <1> HIDE DEF N, b
  <1>2. 0 \notin Bad
    <2> DEFINE f == [n \in 0..0 |-> b]
    <2>1. f = [n \in 0..0 |-> IF n = 0 THEN b ELSE consume_component(f[n - 1], names[n])]
      OBVIOUS
    <2>2. Upto(0, f)
      BY <2>1
    <2> HIDE DEF f, Upto
    <2> QED
      BY <2>2
  <1>3. ASSUME NEW m \in 1..N, m - 1 \notin Bad PROVE m \notin Bad
    <2>1. m \in Nat /\ m # 0 /\ m - 1 \in 0..N /\ m - 1 \in Nat
      BY <1>1
    <2>2. PICK g : Upto(m - 1, g)
      <3> HIDE DEF Upto
      <3> QED
        BY <1>3, <2>1
    <2> DEFINE f == [n \in 0..m |-> IF n = m THEN consume_component(g[m - 1], names[m]) ELSE g[n]]
    <2>3. \A n \in 0..m : n # m => n \in 0..(m - 1)
      BY <2>1
    <2>4. \A n \in 0..m : f[n] = IF n = 0 THEN b ELSE consume_component(f[n - 1], names[n])
      <3> TAKE n \in 0..m
      <3>1. CASE n = m
        <4>1. f[m] = consume_component(g[m - 1], names[m]) /\ f[m - 1] = g[m - 1]
          BY <2>1
        <4> QED
          BY <2>1, <3>1, <4>1
      <3>2. CASE n # m
        <4>1. n \in 0..(m - 1) /\ f[n] = g[n]
          BY <2>3, <3>2
        <4>2. g[n] = IF n = 0 THEN b ELSE consume_component(g[n - 1], names[n])
          BY <2>2, <4>1
        <4>3. n # 0 => n - 1 \in 0..m /\ n - 1 # m
          BY <2>1, <4>1
        <4>4. n # 0 => f[n - 1] = g[n - 1]
          BY <4>3
        <4> QED
          BY <4>1, <4>2, <4>4
      <3> QED
        BY <3>1, <3>2
    <2>5. Upto(m, f)
      <3>1. f = [n \in 0..m |-> f[n]]
        OBVIOUS
      <3> HIDE DEF f
      <3> QED
        BY <2>4, <3>1
    <2> HIDE DEF f, Upto
    <2> QED
      BY <2>5
  <1>4. Bad = {}
    <2>1. Bad \subseteq 0..N
      OBVIOUS
    <2> HIDE DEF Bad
    <2> QED
      BY <1>1, <1>2, <1>3, <2>1, Downwards
  <1>5. \E f : Upto(N, f)
    <2>1. N \in 0..N
      BY <1>1
    <2>2. N \notin Bad
      <3> HIDE DEF Bad
      <3> QED
        BY <1>4
    <2> HIDE DEF Upto
    <2> QED
      BY <2>1, <2>2
  <1>6. PICK f : Upto(N, f)
    BY <1>5
  <1>7. IsConsumption(path, names, f)
    BY <1>6, Zenon DEF IsConsumption, N, b
  <1> QED
    BY <1>7

ConsumptionTrace(path, names, f) ==
    /\ consume_path(path, names) = f[Len(names)] /\ f[0] = [st |-> "OK", path |-> path]
    /\ \A n \in 1..(Len(names)) : f[n] = consume_component(f[n - 1], names[n])

LEMMA ConsumptionStates ==
    ASSUME NEW path, NEW names, Len(names) \in Nat
    PROVE  \E f : ConsumptionTrace(path, names, f)
  <1> DEFINE f == CHOOSE f : IsConsumption(path, names, f)
             N == Len(names)
             b == [st |-> "OK", path |-> path]
  <1>1. IsConsumption(path, names, f)
    BY ConsumptionExist
  <1>2. consume_path(path, names) = f[Len(names)]
    BY DEF IsConsumption, consume_path
  <1>3. N \in Nat
    OBVIOUS
  <1> HIDE DEF f
  <1>4. f = [n \in 0..N |-> IF n = 0 THEN b ELSE consume_component(f[n - 1], names[n])]
    BY <1>1 DEF IsConsumption
  <1> HIDE DEF N, b
  <1>5. f[0] = b /\ \A n \in 1..N : f[n] = consume_component(f[n - 1], names[n])
    <2>1. 0 \in 0..N /\ \A n \in 1..N : n \in 0..N /\ n # 0
      BY <1>3
    <2>2. \A n \in 0..N : f[n] = IF n = 0 THEN b ELSE consume_component(f[n - 1], names[n])
      BY <1>4
    <2> QED
      BY <2>1, <2>2
  <1>6. /\ consume_path(path, names) = f[Len(names)] /\ f[0] = b
        /\ \A n \in 1..N : f[n] = consume_component(f[n - 1], names[n])
    BY <1>2, <1>5
  <1>7. ConsumptionTrace(path, names, f)
    BY <1>6, Zenon DEF ConsumptionTrace, N, b
  <1> QED
    BY <1>7

IsWalk(t, mt, path, f) ==
    f = [n \in 0..(Len(path) - Len(mt.target)) |->
            IF n = 0
            THEN [n |-> node_retain(t, mt.root), st |-> "OK", id |-> mt.root, mount |-> mt]
            ELSE resolve_component(f[n - 1], path[Len(mt.target) + n])]

LEMMA WalkExist ==
    ASSUME NEW t, NEW mt, NEW path, (Len(path) - Len(mt.target)) \in Nat
    PROVE  \E f : IsWalk(t, mt, path, f)
  <1> DEFINE N == (Len(path) - Len(mt.target))
             b == [n |-> node_retain(t, mt.root), st |-> "OK", id |-> mt.root, mount |-> mt]
             Upto(m, f) == f = [n \in 0..m |->
                    IF n = 0 THEN b ELSE resolve_component(f[n - 1], path[Len(mt.target) + n])]
             Bad == {m \in 0..N : ~\E f : Upto(m, f)}
  <1>1. N \in Nat
    OBVIOUS
  <1> HIDE DEF N, b
  <1>2. 0 \notin Bad
    <2> DEFINE f == [n \in 0..0 |-> b]
    <2>1. f = [n \in 0..0 |->
                    IF n = 0 THEN b ELSE resolve_component(f[n - 1], path[Len(mt.target) + n])]
      OBVIOUS
    <2>2. Upto(0, f)
      BY <2>1
    <2> HIDE DEF f, Upto
    <2> QED
      BY <2>2
  <1>3. ASSUME NEW m \in 1..N, m - 1 \notin Bad PROVE m \notin Bad
    <2>1. m \in Nat /\ m # 0 /\ m - 1 \in 0..N /\ m - 1 \in Nat
      BY <1>1
    <2>2. PICK g : Upto(m - 1, g)
      <3> HIDE DEF Upto
      <3> QED
        BY <1>3, <2>1
    <2> DEFINE f == [n \in 0..m |->
                        IF n = m THEN resolve_component(g[m - 1], path[Len(mt.target) + m])
                        ELSE g[n]]
    <2>3. \A n \in 0..m : n # m => n \in 0..(m - 1)
      BY <2>1
    <2>4. \A n \in 0..m : f[n] = IF n = 0 THEN b ELSE resolve_component(f[n - 1], path[Len(mt.target) + n])
      <3> TAKE n \in 0..m
      <3>1. CASE n = m
        <4>1. f[m] = resolve_component(g[m - 1], path[Len(mt.target) + m]) /\ f[m - 1] = g[m - 1]
          BY <2>1
        <4> QED
          BY <2>1, <3>1, <4>1
      <3>2. CASE n # m
        <4>1. n \in 0..(m - 1) /\ f[n] = g[n]
          BY <2>3, <3>2
        <4>2. g[n] = IF n = 0 THEN b ELSE resolve_component(g[n - 1], path[Len(mt.target) + n])
          BY <2>2, <4>1
        <4>3. n # 0 => n - 1 \in 0..m /\ n - 1 # m
          BY <2>1, <4>1
        <4>4. n # 0 => f[n - 1] = g[n - 1]
          BY <4>3
        <4> QED
          BY <4>1, <4>2, <4>4
      <3> QED
        BY <3>1, <3>2
    <2>5. Upto(m, f)
      <3>1. f = [n \in 0..m |-> f[n]]
        OBVIOUS
      <3> HIDE DEF f
      <3> QED
        BY <2>4, <3>1
    <2> HIDE DEF f, Upto
    <2> QED
      BY <2>5
  <1>4. Bad = {}
    <2>1. Bad \subseteq 0..N
      OBVIOUS
    <2> HIDE DEF Bad
    <2> QED
      BY <1>1, <1>2, <1>3, <2>1, Downwards
  <1>5. \E f : Upto(N, f)
    <2>1. N \in 0..N
      BY <1>1
    <2>2. N \notin Bad
      <3> HIDE DEF Bad
      <3> QED
        BY <1>4
    <2> HIDE DEF Upto
    <2> QED
      BY <2>1, <2>2
  <1>6. PICK f : Upto(N, f)
    BY <1>5
  <1>7. IsWalk(t, mt, path, f)
    BY <1>6, Zenon DEF IsWalk, N, b
  <1> QED
    BY <1>7

WalkTrace(t, mt, path, f) ==
    /\ resolve_from(t, mt, path) = f[(Len(path) - Len(mt.target))]
    /\ f[0] = [n |-> node_retain(t, mt.root), st |-> "OK", id |-> mt.root, mount |-> mt]
    /\ \A n \in 1..((Len(path) - Len(mt.target))) :
        f[n] = resolve_component(f[n - 1], path[Len(mt.target) + n])

LEMMA WalkStates ==
    ASSUME NEW t, NEW mt, NEW path, (Len(path) - Len(mt.target)) \in Nat
    PROVE  \E f : WalkTrace(t, mt, path, f)
  <1> DEFINE f == CHOOSE f : IsWalk(t, mt, path, f)
             N == (Len(path) - Len(mt.target))
             b == [n |-> node_retain(t, mt.root), st |-> "OK", id |-> mt.root, mount |-> mt]
  <1>1. IsWalk(t, mt, path, f)
    BY WalkExist
  <1>2. resolve_from(t, mt, path) = f[(Len(path) - Len(mt.target))]
    BY DEF IsWalk, resolve_from
  <1>3. N \in Nat
    OBVIOUS
  <1> HIDE DEF f
  <1>4. f = [n \in 0..N |->
                    IF n = 0 THEN b ELSE resolve_component(f[n - 1], path[Len(mt.target) + n])]
    BY <1>1 DEF IsWalk
  <1> HIDE DEF N, b
  <1>5. f[0] = b /\ \A n \in 1..N : f[n] = resolve_component(f[n - 1], path[Len(mt.target) + n])
    <2>1. 0 \in 0..N /\ \A n \in 1..N : n \in 0..N /\ n # 0
      BY <1>3
    <2>2. \A n \in 0..N : f[n] = IF n = 0 THEN b ELSE resolve_component(f[n - 1], path[Len(mt.target) + n])
      BY <1>4
    <2> QED
      BY <2>1, <2>2
  <1>6. /\ resolve_from(t, mt, path) = f[(Len(path) - Len(mt.target))] /\ f[0] = b
        /\ \A n \in 1..N : f[n] = resolve_component(f[n - 1], path[Len(mt.target) + n])
    BY <1>2, <1>5
  <1>7. WalkTrace(t, mt, path, f)
    BY <1>6, Zenon DEF WalkTrace, N, b
  <1> QED
    BY <1>7

IsRelease(s, fds, f) ==
    f = [n \in 0..MaximumFds |-> IF n = 0 THEN s ELSE ReleaseOne(f[n - 1], fds, n - 1)]

LEMMA ReleaseExist ==
    ASSUME NEW s, NEW fds, MaximumFds \in Nat
    PROVE  \E f : IsRelease(s, fds, f)
  <1> DEFINE N == MaximumFds
             b == s
             Upto(m, f) == f = [n \in 0..m |-> IF n = 0 THEN b ELSE ReleaseOne(f[n - 1], fds, n - 1)]
             Bad == {m \in 0..N : ~\E f : Upto(m, f)}
  <1>1. N \in Nat
    OBVIOUS
  <1> HIDE DEF N, b
  <1>2. 0 \notin Bad
    <2> DEFINE f == [n \in 0..0 |-> b]
    <2>1. f = [n \in 0..0 |-> IF n = 0 THEN b ELSE ReleaseOne(f[n - 1], fds, n - 1)]
      OBVIOUS
    <2>2. Upto(0, f)
      BY <2>1
    <2> HIDE DEF f, Upto
    <2> QED
      BY <2>2
  <1>3. ASSUME NEW m \in 1..N, m - 1 \notin Bad PROVE m \notin Bad
    <2>1. m \in Nat /\ m # 0 /\ m - 1 \in 0..N /\ m - 1 \in Nat
      BY <1>1
    <2>2. PICK g : Upto(m - 1, g)
      <3> HIDE DEF Upto
      <3> QED
        BY <1>3, <2>1
    <2> DEFINE f == [n \in 0..m |-> IF n = m THEN ReleaseOne(g[m - 1], fds, m - 1) ELSE g[n]]
    <2>3. \A n \in 0..m : n # m => n \in 0..(m - 1)
      BY <2>1
    <2>4. \A n \in 0..m : f[n] = IF n = 0 THEN b ELSE ReleaseOne(f[n - 1], fds, n - 1)
      <3> TAKE n \in 0..m
      <3>1. CASE n = m
        <4>1. f[m] = ReleaseOne(g[m - 1], fds, m - 1) /\ f[m - 1] = g[m - 1]
          BY <2>1
        <4> QED
          BY <2>1, <3>1, <4>1
      <3>2. CASE n # m
        <4>1. n \in 0..(m - 1) /\ f[n] = g[n]
          BY <2>3, <3>2
        <4>2. g[n] = IF n = 0 THEN b ELSE ReleaseOne(g[n - 1], fds, n - 1)
          BY <2>2, <4>1
        <4>3. n # 0 => n - 1 \in 0..m /\ n - 1 # m
          BY <2>1, <4>1
        <4>4. n # 0 => f[n - 1] = g[n - 1]
          BY <4>3
        <4> QED
          BY <4>1, <4>2, <4>4
      <3> QED
        BY <3>1, <3>2
    <2>5. Upto(m, f)
      <3>1. f = [n \in 0..m |-> f[n]]
        OBVIOUS
      <3> HIDE DEF f
      <3> QED
        BY <2>4, <3>1
    <2> HIDE DEF f, Upto
    <2> QED
      BY <2>5
  <1>4. Bad = {}
    <2>1. Bad \subseteq 0..N
      OBVIOUS
    <2> HIDE DEF Bad
    <2> QED
      BY <1>1, <1>2, <1>3, <2>1, Downwards
  <1>5. \E f : Upto(N, f)
    <2>1. N \in 0..N
      BY <1>1
    <2>2. N \notin Bad
      <3> HIDE DEF Bad
      <3> QED
        BY <1>4
    <2> HIDE DEF Upto
    <2> QED
      BY <2>1, <2>2
  <1>6. PICK f : Upto(N, f)
    BY <1>5
  <1>7. IsRelease(s, fds, f)
    BY <1>6, Zenon DEF IsRelease, N, b
  <1> QED
    BY <1>7

ReleaseTrace(s, fds, f) ==
    /\ ReleaseAll(s, fds) = f[MaximumFds] /\ f[0] = s
    /\ \A n \in 1..(MaximumFds) : f[n] = ReleaseOne(f[n - 1], fds, n - 1)

LEMMA ReleaseStates ==
    ASSUME NEW s, NEW fds, MaximumFds \in Nat
    PROVE  \E f : ReleaseTrace(s, fds, f)
  <1> DEFINE f == CHOOSE f : IsRelease(s, fds, f)
             N == MaximumFds
             b == s
  <1>1. IsRelease(s, fds, f)
    BY ReleaseExist
  <1>2. ReleaseAll(s, fds) = f[MaximumFds]
    BY DEF IsRelease, ReleaseAll
  <1>3. N \in Nat
    OBVIOUS
  <1> HIDE DEF f
  <1>4. f = [n \in 0..N |-> IF n = 0 THEN b ELSE ReleaseOne(f[n - 1], fds, n - 1)]
    BY <1>1 DEF IsRelease
  <1> HIDE DEF N, b
  <1>5. f[0] = b /\ \A n \in 1..N : f[n] = ReleaseOne(f[n - 1], fds, n - 1)
    <2>1. 0 \in 0..N /\ \A n \in 1..N : n \in 0..N /\ n # 0
      BY <1>3
    <2>2. \A n \in 0..N : f[n] = IF n = 0 THEN b ELSE ReleaseOne(f[n - 1], fds, n - 1)
      BY <1>4
    <2> QED
      BY <2>1, <2>2
  <1>6. /\ ReleaseAll(s, fds) = f[MaximumFds] /\ f[0] = b
        /\ \A n \in 1..N : f[n] = ReleaseOne(f[n - 1], fds, n - 1)
    BY <1>2, <1>5
  <1>7. ReleaseTrace(s, fds, f)
    BY <1>6, Zenon DEF ReleaseTrace, N, b
  <1> QED
    BY <1>7

IsClone(s, f) ==
    f = [n \in 0..MaximumFds |-> IF n = 0 THEN s ELSE CloneOne(f[n - 1], n - 1)]

LEMMA CloneExist ==
    ASSUME NEW s, MaximumFds \in Nat
    PROVE  \E f : IsClone(s, f)
  <1> DEFINE N == MaximumFds
             b == s
             Upto(m, f) == f = [n \in 0..m |-> IF n = 0 THEN b ELSE CloneOne(f[n - 1], n - 1)]
             Bad == {m \in 0..N : ~\E f : Upto(m, f)}
  <1>1. N \in Nat
    OBVIOUS
  <1> HIDE DEF N, b
  <1>2. 0 \notin Bad
    <2> DEFINE f == [n \in 0..0 |-> b]
    <2>1. f = [n \in 0..0 |-> IF n = 0 THEN b ELSE CloneOne(f[n - 1], n - 1)]
      OBVIOUS
    <2>2. Upto(0, f)
      BY <2>1
    <2> HIDE DEF f, Upto
    <2> QED
      BY <2>2
  <1>3. ASSUME NEW m \in 1..N, m - 1 \notin Bad PROVE m \notin Bad
    <2>1. m \in Nat /\ m # 0 /\ m - 1 \in 0..N /\ m - 1 \in Nat
      BY <1>1
    <2>2. PICK g : Upto(m - 1, g)
      <3> HIDE DEF Upto
      <3> QED
        BY <1>3, <2>1
    <2> DEFINE f == [n \in 0..m |-> IF n = m THEN CloneOne(g[m - 1], m - 1) ELSE g[n]]
    <2>3. \A n \in 0..m : n # m => n \in 0..(m - 1)
      BY <2>1
    <2>4. \A n \in 0..m : f[n] = IF n = 0 THEN b ELSE CloneOne(f[n - 1], n - 1)
      <3> TAKE n \in 0..m
      <3>1. CASE n = m
        <4>1. f[m] = CloneOne(g[m - 1], m - 1) /\ f[m - 1] = g[m - 1]
          BY <2>1
        <4> QED
          BY <2>1, <3>1, <4>1
      <3>2. CASE n # m
        <4>1. n \in 0..(m - 1) /\ f[n] = g[n]
          BY <2>3, <3>2
        <4>2. g[n] = IF n = 0 THEN b ELSE CloneOne(g[n - 1], n - 1)
          BY <2>2, <4>1
        <4>3. n # 0 => n - 1 \in 0..m /\ n - 1 # m
          BY <2>1, <4>1
        <4>4. n # 0 => f[n - 1] = g[n - 1]
          BY <4>3
        <4> QED
          BY <4>1, <4>2, <4>4
      <3> QED
        BY <3>1, <3>2
    <2>5. Upto(m, f)
      <3>1. f = [n \in 0..m |-> f[n]]
        OBVIOUS
      <3> HIDE DEF f
      <3> QED
        BY <2>4, <3>1
    <2> HIDE DEF f, Upto
    <2> QED
      BY <2>5
  <1>4. Bad = {}
    <2>1. Bad \subseteq 0..N
      OBVIOUS
    <2> HIDE DEF Bad
    <2> QED
      BY <1>1, <1>2, <1>3, <2>1, Downwards
  <1>5. \E f : Upto(N, f)
    <2>1. N \in 0..N
      BY <1>1
    <2>2. N \notin Bad
      <3> HIDE DEF Bad
      <3> QED
        BY <1>4
    <2> HIDE DEF Upto
    <2> QED
      BY <2>1, <2>2
  <1>6. PICK f : Upto(N, f)
    BY <1>5
  <1>7. IsClone(s, f)
    BY <1>6, Zenon DEF IsClone, N, b
  <1> QED
    BY <1>7

CloneTrace(s, f) ==
    /\ ns_vfs_fdtable_clone(s) = f[MaximumFds] /\ f[0] = s
    /\ \A n \in 1..(MaximumFds) : f[n] = CloneOne(f[n - 1], n - 1)

LEMMA CloneStates ==
    ASSUME NEW s, MaximumFds \in Nat
    PROVE  \E f : CloneTrace(s, f)
  <1> DEFINE f == CHOOSE f : IsClone(s, f)
             N == MaximumFds
             b == s
  <1>1. IsClone(s, f)
    BY CloneExist
  <1>2. ns_vfs_fdtable_clone(s) = f[MaximumFds]
    BY DEF IsClone, ns_vfs_fdtable_clone
  <1>3. N \in Nat
    OBVIOUS
  <1> HIDE DEF f
  <1>4. f = [n \in 0..N |-> IF n = 0 THEN b ELSE CloneOne(f[n - 1], n - 1)]
    BY <1>1 DEF IsClone
  <1> HIDE DEF N, b
  <1>5. f[0] = b /\ \A n \in 1..N : f[n] = CloneOne(f[n - 1], n - 1)
    <2>1. 0 \in 0..N /\ \A n \in 1..N : n \in 0..N /\ n # 0
      BY <1>3
    <2>2. \A n \in 0..N : f[n] = IF n = 0 THEN b ELSE CloneOne(f[n - 1], n - 1)
      BY <1>4
    <2> QED
      BY <2>1, <2>2
  <1>6. /\ ns_vfs_fdtable_clone(s) = f[MaximumFds] /\ f[0] = b
        /\ \A n \in 1..N : f[n] = CloneOne(f[n - 1], n - 1)
    BY <1>2, <1>5
  <1>7. CloneTrace(s, f)
    BY <1>6, Zenon DEF CloneTrace, N, b
  <1> QED
    BY <1>7

IsApply(s, cwd, actions, fault, f) ==
    f = [n \in 0..Len(actions) |-> IF n = 0 THEN [s |-> s, ok |-> TRUE]
                                ELSE ApplyNext(f[n - 1], cwd, actions[n], fault)]

LEMMA ApplyExist ==
    ASSUME NEW s, NEW cwd, NEW actions, NEW fault, Len(actions) \in Nat
    PROVE  \E f : IsApply(s, cwd, actions, fault, f)
  <1> DEFINE N == Len(actions)
             b == [s |-> s, ok |-> TRUE]
             Upto(m, f) == f = [n \in 0..m |-> IF n = 0 THEN b ELSE ApplyNext(f[n - 1], cwd, actions[n], fault)]
             Bad == {m \in 0..N : ~\E f : Upto(m, f)}
  <1>1. N \in Nat
    OBVIOUS
  <1> HIDE DEF N, b
  <1>2. 0 \notin Bad
    <2> DEFINE f == [n \in 0..0 |-> b]
    <2>1. f = [n \in 0..0 |-> IF n = 0 THEN b ELSE ApplyNext(f[n - 1], cwd, actions[n], fault)]
      OBVIOUS
    <2>2. Upto(0, f)
      BY <2>1
    <2> HIDE DEF f, Upto
    <2> QED
      BY <2>2
  <1>3. ASSUME NEW m \in 1..N, m - 1 \notin Bad PROVE m \notin Bad
    <2>1. m \in Nat /\ m # 0 /\ m - 1 \in 0..N /\ m - 1 \in Nat
      BY <1>1
    <2>2. PICK g : Upto(m - 1, g)
      <3> HIDE DEF Upto
      <3> QED
        BY <1>3, <2>1
    <2> DEFINE f == [n \in 0..m |-> IF n = m THEN ApplyNext(g[m - 1], cwd, actions[m], fault) ELSE g[n]]
    <2>3. \A n \in 0..m : n # m => n \in 0..(m - 1)
      BY <2>1
    <2>4. \A n \in 0..m : f[n] = IF n = 0 THEN b ELSE ApplyNext(f[n - 1], cwd, actions[n], fault)
      <3> TAKE n \in 0..m
      <3>1. CASE n = m
        <4>1. f[m] = ApplyNext(g[m - 1], cwd, actions[m], fault) /\ f[m - 1] = g[m - 1]
          BY <2>1
        <4> QED
          BY <2>1, <3>1, <4>1
      <3>2. CASE n # m
        <4>1. n \in 0..(m - 1) /\ f[n] = g[n]
          BY <2>3, <3>2
        <4>2. g[n] = IF n = 0 THEN b ELSE ApplyNext(g[n - 1], cwd, actions[n], fault)
          BY <2>2, <4>1
        <4>3. n # 0 => n - 1 \in 0..m /\ n - 1 # m
          BY <2>1, <4>1
        <4>4. n # 0 => f[n - 1] = g[n - 1]
          BY <4>3
        <4> QED
          BY <4>1, <4>2, <4>4
      <3> QED
        BY <3>1, <3>2
    <2>5. Upto(m, f)
      <3>1. f = [n \in 0..m |-> f[n]]
        OBVIOUS
      <3> HIDE DEF f
      <3> QED
        BY <2>4, <3>1
    <2> HIDE DEF f, Upto
    <2> QED
      BY <2>5
  <1>4. Bad = {}
    <2>1. Bad \subseteq 0..N
      OBVIOUS
    <2> HIDE DEF Bad
    <2> QED
      BY <1>1, <1>2, <1>3, <2>1, Downwards
  <1>5. \E f : Upto(N, f)
    <2>1. N \in 0..N
      BY <1>1
    <2>2. N \notin Bad
      <3> HIDE DEF Bad
      <3> QED
        BY <1>4
    <2> HIDE DEF Upto
    <2> QED
      BY <2>1, <2>2
  <1>6. PICK f : Upto(N, f)
    BY <1>5
  <1>7. IsApply(s, cwd, actions, fault, f)
    BY <1>6, Zenon DEF IsApply, N, b
  <1> QED
    BY <1>7

ApplyTrace(s, cwd, actions, fault, f) ==
    /\ ns_proc_fd_apply_actions(s, cwd, actions, fault) = f[Len(actions)]
    /\ f[0] = [s |-> s, ok |-> TRUE]
    /\ \A n \in 1..(Len(actions)) : f[n] = ApplyNext(f[n - 1], cwd, actions[n], fault)

LEMMA ApplyStates ==
    ASSUME NEW s, NEW cwd, NEW actions, NEW fault, Len(actions) \in Nat
    PROVE  \E f : ApplyTrace(s, cwd, actions, fault, f)
  <1> DEFINE f == CHOOSE f : IsApply(s, cwd, actions, fault, f)
             N == Len(actions)
             b == [s |-> s, ok |-> TRUE]
  <1>1. IsApply(s, cwd, actions, fault, f)
    BY ApplyExist
  <1>2. ns_proc_fd_apply_actions(s, cwd, actions, fault) = f[Len(actions)]
    BY DEF IsApply, ns_proc_fd_apply_actions
  <1>3. N \in Nat
    OBVIOUS
  <1> HIDE DEF f
  <1>4. f = [n \in 0..N |-> IF n = 0 THEN b ELSE ApplyNext(f[n - 1], cwd, actions[n], fault)]
    BY <1>1 DEF IsApply
  <1> HIDE DEF N, b
  <1>5. f[0] = b /\ \A n \in 1..N : f[n] = ApplyNext(f[n - 1], cwd, actions[n], fault)
    <2>1. 0 \in 0..N /\ \A n \in 1..N : n \in 0..N /\ n # 0
      BY <1>3
    <2>2. \A n \in 0..N : f[n] = IF n = 0 THEN b ELSE ApplyNext(f[n - 1], cwd, actions[n], fault)
      BY <1>4
    <2> QED
      BY <2>1, <2>2
  <1>6. /\ ns_proc_fd_apply_actions(s, cwd, actions, fault) = f[Len(actions)] /\ f[0] = b
        /\ \A n \in 1..N : f[n] = ApplyNext(f[n - 1], cwd, actions[n], fault)
    BY <1>2, <1>5
  <1>7. ApplyTrace(s, cwd, actions, fault, f)
    BY <1>6, Zenon DEF ApplyTrace, N, b
  <1> QED
    BY <1>7

----------------------------------------------------------------------------
\* Single nodes.

LEMMA Ids ==
    /\ Heap \subseteq NodeIds /\ NodeIds \subseteq Nat /\ NsfsRoot \in NodeIds
    /\ 0 \notin NodeIds /\ 1 \in Heap /\ NsfsRoot \notin Heap /\ Heap \subseteq Nat
    /\ NsfsNodes \subseteq NodeIds
    /\ \A i \in NodeIds : i \in NsfsNodes <=> i \notin Heap
  BY NodesAssumption DEF Heap, NodeIds

LEMMA EmptyIsSeq == <<>> \in Seq(Nat) /\ Len(<<>>) = 0
  OBVIOUS

WithRefs(a, k) == [a EXCEPT !.refs = k]

LEMMA RefsOnly ==
    ASSUME NEW a \in Node, NEW k \in Nat
    PROVE  LET r == WithRefs(a, k)
           IN  /\ r \in Node /\ r.kids = a.kids /\ r.name = a.name /\ r.type = a.type
               /\ r.data = a.data /\ r.size = a.size /\ r.want = a.want /\ r.refs = k
               /\ WithRefs(r, a.refs) = a
  BY DEF Node, WithRefs

LEMMA NewNodeIs ==
    ASSUME NEW name \in Name, NEW type \in {"free", "dir", "reg", "char"}, NEW refs \in Nat
    PROVE  /\ NewNode(name, type, refs) \in Node /\ Sound(NewNode(name, type, refs))
           /\ NewNode(name, type, refs).name = name /\ NewNode(name, type, refs).type = type
           /\ NewNode(name, type, refs).refs = refs /\ NewNode(name, type, refs).kids = {}
           /\ NewNode(name, type, refs).size = 0
  BY EmptyIsSeq DEF NewNode, Node, Sound

LEMMA FreeNodeIs ==
    /\ FreeNode \in Node /\ Sound(FreeNode) /\ FreeNode.type = "free" /\ FreeNode.refs = 0
    /\ FreeNode.kids = {}
  BY EmptyIsSeq DEF FreeNode, NewNode, Node, Sound, Name

\* A change to a node that leaves its place in the tree alone.
LEMMA AlikeTree ==
    ASSUME NEW n, NEW R, Tree(n, R), NEW u \in [NodeIds -> Node],
           \A i \in NodeIds : /\ Sound(u[i]) /\ u[i].kids = n[i].kids
                              /\ u[i].name = n[i].name /\ u[i].type = n[i].type
                              /\ u[i].type = "free" => u[i] = FreeNode
                              /\ i \notin Heap => u[i].refs = n[i].refs
    PROVE  Tree(u, R) /\ \A i \in NodeIds : InTree(u, R, i) <=> InTree(n, R, i)
  <1>1. Typed(u)
    <2>1. Uncounted(u)
      BY DEF Tree, Typed, Uncounted
    <2> QED
      BY <2>1 DEF Typed
  <1>2. \A i \in NodeIds : n[i].kids \subseteq NodeIds
    BY DEF Tree, Typed, Node
  <1>3. Kin(u)
    BY <1>2 DEF Tree, Kin
  <1>4. Grounded(u)
    BY DEF Tree, Grounded
  <1>5. \A i \in NodeIds : LinkedIn(u, i) <=> LinkedIn(n, i)
    BY DEF LinkedIn
  <1>6. Rooted(u, R)
    BY <1>5 DEF Tree, Rooted, InTree
  <1> QED
    BY <1>1, <1>3, <1>4, <1>5, <1>6 DEF Tree, InTree

LEMMA OneIs == One(TRUE) = 1 /\ One(FALSE) = 0 /\ \A b \in BOOLEAN : One(b) \in Nat
  BY DEF One

LEMMA OnNodeFinite ==
    ASSUME NEW f, NEW i
    PROVE  IsFiniteSet(OnNode(f, i)) /\ Cardinality(OnNode(f, i)) \in Nat
  <1>1. IsFiniteSet(FileIds)
    BY VfsAssumption, FS_Interval DEF FileIds
  <1>2. OnNode(f, i) \subseteq FileIds
    BY DEF OnNode
  <1> QED
    BY <1>1, <1>2, FS_Subset, FS_CardinalityType

LEMMA InDataOnly ==
    ASSUME NEW n, NEW f, NEW R, NEW M, NEW y, Good(n, f, R, M, y),
           NEW i \in NodeIds, n[i].type # "free", NEW r \in Node, Sound(r),
           r.name = n[i].name, r.type = n[i].type, r.refs = n[i].refs, r.kids = n[i].kids
    PROVE  Good([n EXCEPT ![i] = r], f, R, M, y) /\ Grows(n, [n EXCEPT ![i] = r], R)
  <1> DEFINE u == [n EXCEPT ![i] = r]
  <1>1. n \in [NodeIds -> Node] /\ Tree(n, R)
    BY DEF Good, Tree, Typed
  <1>2. u \in [NodeIds -> Node] /\ \A j \in NodeIds : u[j] = IF j = i THEN r ELSE n[j]
    BY <1>1
  <1> HIDE DEF u
  <1>3. \A j \in NodeIds : /\ Sound(u[j]) /\ u[j].kids = n[j].kids
                           /\ u[j].name = n[j].name /\ u[j].type = n[j].type
                           /\ u[j].type = "free" => u[j] = FreeNode
                           /\ j \notin Heap => u[j].refs = n[j].refs
    BY <1>1, <1>2 DEF Tree, Typed, Kin
  <1>4. Tree(u, R) /\ \A j \in NodeIds : InTree(u, R, j) <=> InTree(n, R, j)
    BY <1>1, <1>2, <1>3, AlikeTree
  <1>5. \A j \in Heap : u[j].refs = n[j].refs /\ u[j].type = n[j].type /\ j \in NodeIds
    BY <1>2, Ids
  <1>6. \A j \in Heap : One(InTree(u, R, j)) = One(InTree(n, R, j))
    BY <1>4, <1>5 DEF One
  <1>7. Exact(u, f, R, M, y)
    BY <1>5, <1>6 DEF Good, Exact
  <1>8. Grows(n, u, R)
    BY <1>3, <1>4 DEF Grows
  <1> QED
    BY <1>4, <1>7, <1>8 DEF Good, u

----------------------------------------------------------------------------
\* Retaining and releasing.

LEMMA RetainIs ==
    ASSUME NEW n, n \in [NodeIds -> Node], NEW i \in NodeIds
    PROVE  LET u == node_retain(n, i)
           IN  /\ u \in [NodeIds -> Node]
               /\ \A j \in NodeIds : j # i => u[j] = n[j]
               /\ u[i] = IF i \in Heap THEN WithRefs(n[i], n[i].refs + 1) ELSE n[i]
               /\ u[i].kids = n[i].kids /\ u[i].name = n[i].name /\ u[i].type = n[i].type
               /\ u[i].data = n[i].data /\ u[i].size = n[i].size /\ u[i].want = n[i].want
               /\ u[i].refs = IF i \in Heap THEN n[i].refs + 1 ELSE n[i].refs
  <1> DEFINE r == WithRefs(n[i], n[i].refs + 1)
             u == node_retain(n, i)
  <1>1. n[i] \in Node /\ n[i].refs \in Nat /\ n[i].refs + 1 \in Nat
    BY DEF Node
  <1>2. /\ r \in Node /\ r.kids = n[i].kids /\ r.name = n[i].name /\ r.type = n[i].type
        /\ r.data = n[i].data /\ r.size = n[i].size /\ r.want = n[i].want
        /\ r.refs = n[i].refs + 1
    BY <1>1, RefsOnly
  <1>3. CASE i \in Heap
    <2>1. u = [n EXCEPT ![i] = r]
      BY <1>3 DEF node_retain, Counted, WithRefs
    <2> HIDE DEF r, u
    <2>2. u \in [NodeIds -> Node] /\ u[i] = r /\ \A j \in NodeIds : j # i => u[j] = n[j]
      BY <1>2, <2>1
    <2> QED
      BY <1>2, <1>3, <2>2 DEF r, u
  <1>4. CASE i \notin Heap
    BY <1>4 DEF node_retain, Counted
  <1> QED
    BY <1>3, <1>4

LEMMA ReleaseIs ==
    ASSUME NEW n, n \in [NodeIds -> Node], NEW i \in NodeIds, i \in Heap => n[i].refs # 0
    PROVE  LET u == node_release(n, i)
           IN  /\ u \in [NodeIds -> Node]
               /\ \A j \in NodeIds : j # i => u[j] = n[j]
               /\ i \notin Heap => u = n
               /\ i \in Heap /\ n[i].refs = 1 => u[i] = FreeNode
               /\ i \in Heap /\ n[i].refs # 1 =>
                    /\ u[i] = WithRefs(n[i], n[i].refs - 1)
                    /\ u[i].kids = n[i].kids /\ u[i].name = n[i].name /\ u[i].type = n[i].type
                    /\ u[i].data = n[i].data /\ u[i].size = n[i].size
                    /\ u[i].want = n[i].want /\ u[i].refs = n[i].refs - 1
  <1> DEFINE r == WithRefs(n[i], n[i].refs - 1)
             u == node_release(n, i)
  <1>1. n[i] \in Node /\ n[i].refs \in Nat
    BY DEF Node
  <1>2. CASE i \notin Heap
    BY <1>2 DEF node_release, Counted
  <1>3. CASE i \in Heap /\ n[i].refs = 1
    <2>1. u = [n EXCEPT ![i] = FreeNode]
      BY <1>3 DEF node_release, Counted
    <2> HIDE DEF u
    <2>2. u \in [NodeIds -> Node] /\ u[i] = FreeNode /\ \A j \in NodeIds : j # i => u[j] = n[j]
      BY <2>1, FreeNodeIs
    <2> QED
      BY <1>3, <2>2 DEF u
  <1>4. CASE i \in Heap /\ n[i].refs # 1
    <2>1. u = [n EXCEPT ![i] = r]
      BY <1>4 DEF node_release, Counted, WithRefs
    <2>2. /\ r \in Node /\ r.kids = n[i].kids /\ r.name = n[i].name /\ r.type = n[i].type
          /\ r.data = n[i].data /\ r.size = n[i].size /\ r.want = n[i].want
          /\ r.refs = n[i].refs - 1
      <3>1. n[i].refs - 1 \in Nat
        BY <1>1, <1>4
      <3> QED
        BY <1>1, <3>1, RefsOnly
    <2> HIDE DEF r, u
    <2>3. u \in [NodeIds -> Node] /\ u[i] = r /\ \A j \in NodeIds : j # i => u[j] = n[j]
      BY <2>1, <2>2
    <2> QED
      BY <1>4, <2>2, <2>3 DEF r, u
  <1> QED
    BY <1>2, <1>3, <1>4

\* A node in use has a reference to spare for as long as one more is held.
LEMMA ReleaseRetained ==
    ASSUME NEW n, n \in [NodeIds -> Node], NEW i \in NodeIds, i \in Heap => n[i].refs # 0
    PROVE  node_release(node_retain(n, i), i) = n
  <1> DEFINE u == node_retain(n, i)
             v == node_release(u, i)
  <1>1. CASE i \notin Heap
    BY <1>1 DEF node_retain, node_release, Counted
  <1>2. CASE i \in Heap
    <2>1. n[i] \in Node /\ n[i].refs \in Nat
      BY DEF Node
    <2>2. /\ u \in [NodeIds -> Node] /\ \A j \in NodeIds : j # i => u[j] = n[j]
          /\ u[i] = WithRefs(n[i], n[i].refs + 1) /\ u[i].refs = n[i].refs + 1
      BY <1>2, RetainIs
    <2> HIDE DEF u
    <2>3. u[i].refs # 1 /\ u[i].refs # 0 /\ u[i].refs - 1 = n[i].refs /\ n[i].refs + 1 \in Nat
      BY <1>2, <2>1, <2>2
    <2>4. /\ v \in [NodeIds -> Node] /\ \A j \in NodeIds : j # i => v[j] = u[j]
          /\ v[i] = WithRefs(u[i], u[i].refs - 1)
      BY <1>2, <2>2, <2>3, ReleaseIs
    <2> HIDE DEF v
    <2>5. v[i] = n[i]
      BY <2>1, <2>2, <2>3, <2>4, RefsOnly
    <2>6. \A j \in NodeIds : v[j] = n[j]
      BY <2>2, <2>4, <2>5
    <2> QED
      BY <2>4, <2>6 DEF u, v
  <1> QED
    BY <1>1, <1>2

LEMMA ReleasedInOrder ==
    ASSUME NEW n, n \in [NodeIds -> Node], NEW i \in NodeIds, NEW j \in NodeIds,
           i \in Heap => n[i].refs # 0
    PROVE  node_release(node_retain(node_retain(n, i), j), i) = node_retain(n, j)
  <1>1. CASE i \notin Heap
    BY <1>1 DEF node_retain, node_release, Counted
  <1>2. CASE i \in Heap
    <2>1. node_retain(node_retain(n, i), j) = node_retain(node_retain(n, j), i)
      <3> DEFINE u == node_retain(n, i)
                 v == node_retain(n, j)
                 uu == node_retain(u, j)
                 vv == node_retain(v, i)
      <3>1. CASE i = j
        BY <3>1
      <3>2. CASE i # j
        <4>1. /\ u \in [NodeIds -> Node] /\ \A k \in NodeIds : k # i => u[k] = n[k]
              /\ u[i] = IF i \in Heap THEN WithRefs(n[i], n[i].refs + 1) ELSE n[i]
          BY RetainIs
        <4>2. /\ v \in [NodeIds -> Node] /\ \A k \in NodeIds : k # j => v[k] = n[k]
              /\ v[j] = IF j \in Heap THEN WithRefs(n[j], n[j].refs + 1) ELSE n[j]
          BY RetainIs
        <4> HIDE DEF u, v
        <4>3. /\ uu \in [NodeIds -> Node] /\ \A k \in NodeIds : k # j => uu[k] = u[k]
              /\ uu[j] = IF j \in Heap THEN WithRefs(u[j], u[j].refs + 1) ELSE u[j]
          BY <4>1, RetainIs
        <4>4. /\ vv \in [NodeIds -> Node] /\ \A k \in NodeIds : k # i => vv[k] = v[k]
              /\ vv[i] = IF i \in Heap THEN WithRefs(v[i], v[i].refs + 1) ELSE v[i]
          BY <4>2, RetainIs
        <4> HIDE DEF uu, vv
        <4>5. \A k \in NodeIds : uu[k] = vv[k]
          BY <3>2, <4>1, <4>2, <4>3, <4>4
        <4> QED
          BY <4>3, <4>4, <4>5 DEF u, v, uu, vv
      <3> QED
        BY <3>1, <3>2
    <2> DEFINE w == node_retain(n, j)
    <2>2. w \in [NodeIds -> Node] /\ (i \in Heap => w[i].refs # 0)
      <3>1. n[i].refs \in Nat
        BY DEF Node
      <3>2. w \in [NodeIds -> Node] /\ (i # j => w[i] = n[i])
            /\ (i = j => w[i].refs = n[i].refs + 1)
        <4>1. /\ w \in [NodeIds -> Node] /\ \A k \in NodeIds : k # j => w[k] = n[k]
              /\ w[j].refs = IF j \in Heap THEN n[j].refs + 1 ELSE n[j].refs
          BY RetainIs
        <4> QED
          BY <1>2, <4>1
      <3> QED
        BY <1>2, <3>1, <3>2
    <2> HIDE DEF w
    <2>3. node_release(node_retain(w, i), i) = w
      BY <2>2, ReleaseRetained
    <2> QED
      BY <2>1, <2>3 DEF w
  <1> QED
    BY <1>1, <1>2

\* A call that takes a reference holds it.
LEMMA RetainGood ==
    ASSUME NEW n, NEW f, NEW R, NEW M, Good(n, f, R, M, 0), NEW i \in NodeIds,
           n[i].type # "free"
    PROVE  Good(node_retain(n, i), f, R, M, i) /\ Grows(n, node_retain(n, i), R)
  <1> DEFINE u == node_retain(n, i)
  <1>1. n \in [NodeIds -> Node] /\ Tree(n, R)
    BY DEF Good, Tree, Typed
  <1>2. /\ u \in [NodeIds -> Node]
        /\ \A j \in NodeIds : j # i => u[j] = n[j]
        /\ u[i].kids = n[i].kids /\ u[i].name = n[i].name /\ u[i].type = n[i].type
        /\ u[i].data = n[i].data /\ u[i].size = n[i].size /\ u[i].want = n[i].want
        /\ u[i].refs = IF i \in Heap THEN n[i].refs + 1 ELSE n[i].refs
    BY <1>1, RetainIs
  <1> HIDE DEF u
  <1>3. \A j \in NodeIds : /\ Sound(u[j]) /\ u[j].kids = n[j].kids
                           /\ u[j].name = n[j].name /\ u[j].type = n[j].type
                           /\ u[j].type = "free" => u[j] = FreeNode
                           /\ j \notin Heap => u[j].refs = n[j].refs
    BY <1>1, <1>2 DEF Tree, Typed, Kin, Sound
  <1>4. Tree(u, R) /\ \A j \in NodeIds : InTree(u, R, j) <=> InTree(n, R, j)
    BY <1>1, <1>2, <1>3, AlikeTree
  <1>5. ASSUME NEW j \in Heap
        PROVE  /\ u[j].refs = One(InTree(u, R, j)) + One(j \in M) + Cardinality(OnNode(f, j))
                                + One(j = i)
               /\ u[j].type = "free" <=> u[j].refs = 0
    <2> DEFINE a == One(InTree(n, R, j))
               b == One(j \in M)
               c == Cardinality(OnNode(f, j))
    <2>1. j \in NodeIds /\ a \in Nat /\ b \in Nat /\ c \in Nat /\ One(j = 0) = 0
      BY Ids, OnNodeFinite DEF One
    <2>2. n[j].refs = a + b + c + One(j = 0) /\ (n[j].type = "free" <=> n[j].refs = 0)
      BY DEF Good, Exact
    <2>3. One(InTree(u, R, j)) = a
      BY <1>4, <2>1 DEF One
    <2> HIDE DEF a, b, c
    <2>4. CASE j = i
      <3>1. u[j].refs = a + b + c + 1 /\ One(j = i) = 1 /\ u[j].type # "free"
        BY <1>2, <2>1, <2>2, <2>4 DEF One
      <3> QED
        BY <2>1, <2>3, <3>1 DEF b, c
    <2>5. CASE j # i
      <3>1. u[j] = n[j] /\ One(j = i) = 0
        BY <1>2, <2>1, <2>5 DEF One
      <3> QED
        BY <2>1, <2>2, <2>3, <3>1 DEF b, c
    <2> QED
      BY <2>4, <2>5
  <1>6. Exact(u, f, R, M, i)
    BY <1>5 DEF Good, Exact
  <1>7. Grows(n, u, R)
    BY <1>3, <1>4 DEF Grows
  <1> QED
    BY <1>4, <1>6, <1>7 DEF Good, u

\* A node out of the tree may go.
LEMMA FreeTree ==
    ASSUME NEW n, NEW R, Tree(n, R), NEW i \in NodeIds, ~InTree(n, R, i)
    PROVE  LET u == [n EXCEPT ![i] = FreeNode]
           IN  /\ Tree(u, R) /\ u \in [NodeIds -> Node] /\ u[i] = FreeNode
               /\ \A j \in NodeIds : j # i => u[j] = n[j]
               /\ \A j \in NodeIds : InTree(u, R, j) <=> InTree(n, R, j)
  <1> DEFINE u == [n EXCEPT ![i] = FreeNode]
  <1>1. n \in [NodeIds -> Node] /\ (\A j \in NodeIds : n[j].kids \subseteq NodeIds)
    BY DEF Tree, Typed, Node
  <1>2. u \in [NodeIds -> Node] /\ u[i] = FreeNode /\ \A j \in NodeIds : j # i => u[j] = n[j]
    BY <1>1, FreeNodeIs
  <1> HIDE DEF u
  <1>3. n[i].kids = {} /\ u[i].kids = {} /\ u[i].type = "free"
    BY <1>2, FreeNodeIs DEF Tree, Rooted
  <1>4. \A j \in NodeIds : u[j].kids = n[j].kids
    BY <1>2, <1>3
  <1>5. \A j \in NodeIds : i \notin n[j].kids
    BY DEF InTree, LinkedIn
  <1>6. Typed(u)
    BY <1>2, FreeNodeIs DEF Tree, Typed, Uncounted
  <1>7. Kin(u)
    <2>1. \A j \in NodeIds : u[j].type = "free" => u[j] = FreeNode
      BY <1>2 DEF Tree, Kin
    <2>2. ASSUME NEW a \in NodeIds, NEW b \in u[a].kids
          PROVE  /\ u[a].type = "dir" /\ u[b].type # "free" /\ (a \in Heap <=> b \in Heap)
                 /\ \A k \in NodeIds : b \in u[k].kids => k = a
                 /\ \A k \in u[a].kids : u[k].name = u[b].name => k = b
      <3>1. b \in n[a].kids /\ b \in NodeIds /\ b # i /\ a # i
        BY <1>1, <1>3, <1>4, <1>5
      <3>2. u[a] = n[a] /\ u[b] = n[b] /\ \A k \in u[a].kids : k \in NodeIds /\ u[k] = n[k]
        BY <1>1, <1>2, <1>4, <1>5, <3>1
      <3> QED
        BY <1>4, <3>1, <3>2 DEF Tree, Kin
    <2> QED
      BY <2>1, <2>2 DEF Kin
  <1>8. Grounded(u)
    BY <1>4 DEF Tree, Grounded
  <1>9. \A j \in NodeIds : LinkedIn(u, j) <=> LinkedIn(n, j)
    BY <1>4 DEF LinkedIn
  <1>10. Rooted(u, R)
    <2>1. i \notin R
      BY DEF InTree
    <2> QED
      BY <1>2, <1>4, <1>9, <2>1 DEF Tree, Rooted, InTree
  <1>11. \A j \in NodeIds : InTree(u, R, j) <=> InTree(n, R, j)
    BY <1>9 DEF InTree
  <1> QED
    BY <1>2, <1>6, <1>7, <1>8, <1>10, <1>11 DEF Tree, u

\* The last reference goes with its node, any other leaves it where it is.
LEMMA ReleaseGood ==
    ASSUME NEW n, NEW f, NEW R, NEW M, NEW i \in NodeIds, Good(n, f, R, M, i)
    PROVE  Good(node_release(n, i), f, R, M, 0) /\ Grows(n, node_release(n, i), R)
  <1> DEFINE u == node_release(n, i)
  <1>1. n \in [NodeIds -> Node] /\ Tree(n, R)
    BY DEF Good, Tree, Typed
  <1>2. ASSUME NEW j \in Heap
        PROVE  /\ One(InTree(n, R, j)) \in Nat /\ One(j \in M) \in Nat
               /\ Cardinality(OnNode(f, j)) \in Nat
               /\ One(j = i) = (IF j = i THEN 1 ELSE 0) /\ One(j = 0) = 0 /\ j \in NodeIds
    BY Ids, OnNodeFinite DEF One
  <1>3. i \in Heap => n[i].refs # 0 /\ n[i].refs \in Nat
    BY <1>2 DEF Good, Exact
  <1>4. /\ u \in [NodeIds -> Node]
        /\ \A j \in NodeIds : j # i => u[j] = n[j]
        /\ i \notin Heap => u = n
        /\ i \in Heap /\ n[i].refs = 1 => u[i] = FreeNode
        /\ i \in Heap /\ n[i].refs # 1 =>
             /\ u[i].kids = n[i].kids /\ u[i].name = n[i].name /\ u[i].type = n[i].type
             /\ u[i].data = n[i].data /\ u[i].size = n[i].size
             /\ u[i].want = n[i].want /\ u[i].refs = n[i].refs - 1
    BY <1>1, <1>3, ReleaseIs
  <1> HIDE DEF u
  <1>5. Tree(u, R) /\ \A j \in NodeIds : InTree(u, R, j) <=> InTree(n, R, j)
    <2>1. CASE i \notin Heap
      BY <1>1, <1>4, <2>1
    <2>2. CASE i \in Heap /\ n[i].refs = 1
      <3>1. One(InTree(n, R, i)) = 0
        BY <1>2, <2>2 DEF Good, Exact
      <3>2. ~InTree(n, R, i)
        BY <3>1 DEF One
      <3>3. u = [n EXCEPT ![i] = FreeNode]
        <4> DEFINE v == [n EXCEPT ![i] = FreeNode]
        <4>1. v \in [NodeIds -> Node] /\ v[i] = FreeNode /\ \A j \in NodeIds : j # i => v[j] = n[j]
          BY <1>1, FreeNodeIs
        <4> HIDE DEF v
        <4>2. \A j \in NodeIds : u[j] = v[j]
          BY <1>4, <2>2, <4>1
        <4>3. u = v
          BY <1>4, <4>1, <4>2
        <4> QED
          BY <4>3 DEF v
      <3> QED
        BY <1>1, <3>2, <3>3, FreeTree
    <2>3. CASE i \in Heap /\ n[i].refs # 1
      <3>1. n[i].type # "free"
        BY <1>3, <2>3 DEF Good, Exact
      <3>2. \A j \in NodeIds : /\ Sound(u[j]) /\ u[j].kids = n[j].kids
                               /\ u[j].name = n[j].name /\ u[j].type = n[j].type
                               /\ u[j].type = "free" => u[j] = FreeNode
                               /\ j \notin Heap => u[j].refs = n[j].refs
        BY <1>1, <1>4, <2>3, <3>1 DEF Tree, Typed, Kin, Sound
      <3> QED
        BY <1>1, <1>4, <3>2, AlikeTree
    <2> QED
      BY <2>1, <2>2, <2>3
  <1>6. ASSUME NEW j \in Heap
        PROVE  /\ u[j].refs = One(InTree(u, R, j)) + One(j \in M) + Cardinality(OnNode(f, j))
                                + One(j = 0)
               /\ u[j].type = "free" <=> u[j].refs = 0
    <2> DEFINE a == One(InTree(n, R, j))
               b == One(j \in M)
               c == Cardinality(OnNode(f, j))
    <2>1. /\ n[j].refs = a + b + c + One(j = i) /\ (n[j].type = "free" <=> n[j].refs = 0)
          /\ a \in Nat /\ b \in Nat /\ c \in Nat /\ j \in NodeIds
          /\ One(j = i) = (IF j = i THEN 1 ELSE 0) /\ One(j = 0) = 0
      BY <1>2 DEF Good, Exact
    <2>2. One(InTree(u, R, j)) = a
      BY <1>5, <2>1 DEF One
    <2> HIDE DEF a, b, c
    <2>3. u[j].refs = a + b + c /\ (u[j].type = "free" <=> u[j].refs = 0)
      <3>1. CASE j # i
        BY <1>4, <2>1, <3>1
      <3>2. CASE j = i /\ n[i].refs = 1
        BY <1>4, <2>1, <3>2, FreeNodeIs
      <3>3. CASE j = i /\ n[i].refs # 1
        BY <1>4, <2>1, <3>3
      <3> QED
        BY <3>1, <3>2, <3>3
    <2> QED
      BY <2>1, <2>2, <2>3 DEF b, c
  <1>7. Exact(u, f, R, M, 0)
    BY <1>6 DEF Good, Exact
  <1>8. Grows(n, u, R)
    <2>1. ASSUME NEW j \in NodeIds, InTree(n, R, j)
          PROVE  /\ InTree(u, R, j) /\ u[j].type = n[j].type /\ u[j].name = n[j].name
                 /\ n[j].kids \subseteq u[j].kids
      <3>1. CASE j = i /\ i \in Heap /\ n[i].refs = 1
        <4>1. One(InTree(n, R, i)) = 0
          BY <1>2, <3>1 DEF Good, Exact
        <4> QED
          BY <2>1, <3>1, <4>1 DEF One
      <3>2. CASE ~(j = i /\ i \in Heap /\ n[i].refs = 1)
        BY <1>4, <1>5, <2>1, <3>2
      <3> QED
        BY <3>1, <3>2
    <2> QED
      BY <2>1 DEF Grows
  <1> QED
    BY <1>5, <1>7, <1>8 DEF Good, u

\* A reference passes from the call to the file it opens, and back.
LEMMA HoldsFile ==
    ASSUME NEW n, NEW f, NEW g, NEW R, NEW M, NEW i \in NodeIds, NEW k \in FileIds,
           Good(n, f, R, M, i), f[k].kind # "vnode", g[k].kind = "vnode", g[k].node = i,
           \A m \in FileIds : m # k => g[m] = f[m]
    PROVE  Good(n, g, R, M, 0)
  <1>1. ASSUME NEW j \in Heap
        PROVE  n[j].refs = One(InTree(n, R, j)) + One(j \in M) + Cardinality(OnNode(g, j))
                            + One(j = 0)
    <2> DEFINE a == One(InTree(n, R, j))
               b == One(j \in M)
               c == Cardinality(OnNode(f, j))
               d == Cardinality(OnNode(g, j))
    <2>1. /\ n[j].refs = a + b + c + One(j = i)
          /\ a \in Nat /\ b \in Nat /\ c \in Nat /\ d \in Nat
          /\ One(j = i) = (IF j = i THEN 1 ELSE 0) /\ One(j = 0) = 0
      BY Ids, OnNodeFinite DEF Good, Exact, One
    <2>2. d = IF j = i THEN c + 1 ELSE c
      <3>1. CASE j = i
        <4>1. OnNode(g, j) = OnNode(f, j) \cup {k} /\ k \notin OnNode(f, j)
          BY <3>1 DEF OnNode
        <4>2. IsFiniteSet(OnNode(f, j))
          BY OnNodeFinite
        <4>3. Cardinality(OnNode(f, j) \cup {k}) = Cardinality(OnNode(f, j)) + 1
          BY <4>1, <4>2, FS_AddElement
        <4> QED
          BY <3>1, <4>1, <4>3
      <3>2. CASE j # i
        <4>1. OnNode(g, j) = OnNode(f, j)
          BY <3>2 DEF OnNode
        <4> QED
          BY <3>2, <4>1
      <3> QED
        BY <3>1, <3>2
    <2> HIDE DEF a, b, c, d
    <2>3. n[j].refs = a + b + d + 0
      BY <2>1, <2>2
    <2> QED
      BY <2>1, <2>3 DEF a, b, d
  <1>2. Exact(n, g, R, M, 0)
    BY <1>1 DEF Good, Exact
  <1> QED
    BY <1>2 DEF Good

LEMMA DropsFile ==
    ASSUME NEW n, NEW f, NEW g, NEW R, NEW M, NEW i \in NodeIds, NEW k \in FileIds,
           Good(n, f, R, M, 0), f[k].kind = "vnode", f[k].node = i, g[k].kind # "vnode",
           \A m \in FileIds : m # k => g[m] = f[m]
    PROVE  Good(n, g, R, M, i)
  <1>1. ASSUME NEW j \in Heap
        PROVE  n[j].refs = One(InTree(n, R, j)) + One(j \in M) + Cardinality(OnNode(g, j))
                            + One(j = i)
    <2> DEFINE a == One(InTree(n, R, j))
               b == One(j \in M)
               c == Cardinality(OnNode(f, j))
               d == Cardinality(OnNode(g, j))
    <2>1. /\ n[j].refs = a + b + c + One(j = 0)
          /\ a \in Nat /\ b \in Nat /\ c \in Nat /\ d \in Nat
          /\ One(j = i) = (IF j = i THEN 1 ELSE 0) /\ One(j = 0) = 0
      BY Ids, OnNodeFinite DEF Good, Exact, One
    <2>2. c = IF j = i THEN d + 1 ELSE d
      <3>1. CASE j = i
        <4>1. OnNode(f, j) = OnNode(g, j) \cup {k} /\ k \notin OnNode(g, j)
          BY <3>1 DEF OnNode
        <4>2. IsFiniteSet(OnNode(g, j))
          BY OnNodeFinite
        <4>3. Cardinality(OnNode(g, j) \cup {k}) = Cardinality(OnNode(g, j)) + 1
          BY <4>1, <4>2, FS_AddElement
        <4> QED
          BY <3>1, <4>1, <4>3
      <3>2. CASE j # i
        <4>1. OnNode(g, j) = OnNode(f, j)
          BY <3>2 DEF OnNode
        <4> QED
          BY <3>2, <4>1
      <3> QED
        BY <3>1, <3>2
    <2>3. n[j].refs = a + b + d + One(j = i)
      <3> HIDE DEF a, b, c, d
      <3> QED
        BY <2>1, <2>2
    <2> QED
      BY <2>3
  <1>2. Exact(n, g, R, M, i)
    BY <1>1 DEF Good, Exact
  <1> QED
    BY <1>2 DEF Good

\* Files that hold no node do not matter to the nodes.
LEMMA OtherFiles ==
    ASSUME NEW n, NEW f, NEW g, NEW R, NEW M, NEW y, Good(n, f, R, M, y),
           \A k \in FileIds : (f[k].kind = "vnode" <=> g[k].kind = "vnode")
                              /\ (f[k].kind = "vnode" => g[k].node = f[k].node)
    PROVE  Good(n, g, R, M, y)
  <1>1. \A i \in Heap : OnNode(g, i) = OnNode(f, i)
    BY DEF OnNode
  <1> QED
    BY <1>1 DEF Good, Exact

----------------------------------------------------------------------------
\* Placing a node in the tree and taking it out.

WithKids(a, K) == [a EXCEPT !.kids = K]

LEMMA KidsOnly ==
    ASSUME NEW a \in Node, NEW K \in SUBSET NodeIds
    PROVE  LET r == WithKids(a, K)
           IN  /\ r \in Node /\ r.kids = K /\ r.name = a.name /\ r.type = a.type
               /\ r.data = a.data /\ r.size = a.size /\ r.want = a.want /\ r.refs = a.refs
  BY DEF Node, WithKids

PlacedAt(n, dir, i, r) == [n EXCEPT ![i] = r, ![dir].kids = @ \cup {i}]

IsPlaced(u, n, dir, i, r) ==
    /\ u \in [NodeIds -> Node] /\ u[i] = r
    /\ \A j \in NodeIds : j # i /\ j # dir => u[j] = n[j]
    /\ u[dir].kids = n[dir].kids \cup {i} /\ u[dir].name = n[dir].name
    /\ u[dir].type = n[dir].type /\ u[dir].refs = n[dir].refs
    /\ u[dir].data = n[dir].data /\ u[dir].size = n[dir].size
    /\ u[dir].want = n[dir].want /\ u[dir] = WithKids(n[dir], n[dir].kids \cup {i})

LEMMA PlacedIs ==
    ASSUME NEW n, n \in [NodeIds -> Node], NEW dir \in NodeIds, NEW i \in NodeIds, i # dir,
           NEW r \in Node
    PROVE  IsPlaced(PlacedAt(n, dir, i, r), n, dir, i, r)
  <1> DEFINE d == WithKids(n[dir], n[dir].kids \cup {i})
             u == PlacedAt(n, dir, i, r)
  <1>1. n[dir] \in Node /\ n[dir].kids \cup {i} \in SUBSET NodeIds
    BY DEF Node
  <1>2. /\ d \in Node /\ d.kids = n[dir].kids \cup {i} /\ d.name = n[dir].name
        /\ d.type = n[dir].type /\ d.refs = n[dir].refs /\ d.data = n[dir].data
        /\ d.size = n[dir].size /\ d.want = n[dir].want
    BY <1>1, KidsOnly
  <1>3. u = [n EXCEPT ![i] = r, ![dir] = d]
    BY DEF WithKids, PlacedAt
  <1> HIDE DEF u, d
  <1>4. u \in [NodeIds -> Node] /\ u[i] = r /\ u[dir] = d
        /\ \A j \in NodeIds : j # i /\ j # dir => u[j] = n[j]
    BY <1>2, <1>3
  <1> QED
    BY <1>2, <1>4 DEF u, d, IsPlaced

LEMMA FreeIs ==
    ASSUME NEW n, NEW R, Tree(n, R), NEW i \in NodeIds, n[i].type = "free"
    PROVE  /\ n[i] = FreeNode /\ n[i].kids = {} /\ ~InTree(n, R, i)
           /\ \A j \in NodeIds : i \notin n[j].kids
  BY FreeNodeIs DEF Tree, Kin, Rooted, InTree, LinkedIn

LEMMA PlacedTree ==
    ASSUME NEW n, NEW R, Tree(n, R), NEW dir \in NodeIds, n[dir].type = "dir",
           InTree(n, R, dir), NEW i \in NodeIds, n[i].type = "free", dir \in Heap <=> i \in Heap,
           NEW r \in Node, Sound(r), r.type # "free", r.kids = {}, i \in Heap \/ r.refs <= 1,
           \A k \in n[dir].kids : n[k].name # r.name
    PROVE  LET u == PlacedAt(n, dir, i, r)
           IN  /\ Tree(u, R) /\ InTree(u, R, i)
               /\ \A j \in NodeIds : j # i => (InTree(u, R, j) <=> InTree(n, R, j))
  <1> DEFINE u == PlacedAt(n, dir, i, r)
  <1>1. n \in [NodeIds -> Node] /\ (\A j \in NodeIds : n[j].kids \subseteq NodeIds) /\ i # dir
    BY DEF Tree, Typed, Node
  <1>2. n[i].kids = {} /\ ~InTree(n, R, i) /\ \A j \in NodeIds : i \notin n[j].kids
    BY FreeIs
  <1>3. /\ u \in [NodeIds -> Node] /\ u[i] = r
        /\ \A j \in NodeIds : j # i /\ j # dir => u[j] = n[j]
        /\ u[dir].kids = n[dir].kids \cup {i} /\ u[dir].name = n[dir].name
        /\ u[dir].type = n[dir].type /\ u[dir].refs = n[dir].refs
        /\ u[dir].data = n[dir].data /\ u[dir].size = n[dir].size
        /\ u[dir].want = n[dir].want
    <2>1. IsPlaced(u, n, dir, i, r)
      BY <1>1, PlacedIs
    <2> HIDE DEF u
    <2> QED
      BY <2>1 DEF IsPlaced
  <1> HIDE DEF u
  <1>4. \A j \in NodeIds : u[j].kids = IF j = dir THEN n[j].kids \cup {i} ELSE n[j].kids
    BY <1>1, <1>2, <1>3
  <1>5. \A j \in NodeIds : j # i => u[j].type = n[j].type /\ u[j].name = n[j].name
    BY <1>3
  <1>6. Typed(u)
    <2>1. \A j \in NodeIds : Sound(n[j])
      BY DEF Tree, Typed
    <2>2. Sound(u[dir])
      BY <1>3, <2>1 DEF Sound
    <2>3. \A j \in NodeIds : Sound(u[j])
      BY <1>3, <2>1, <2>2
    <2>4. Uncounted(u)
      BY <1>1, <1>3 DEF Tree, Typed, Uncounted
    <2> QED
      BY <1>3, <2>3, <2>4 DEF Typed
  <1>7. Kin(u)
    <2>1. \A j \in NodeIds : u[j].type = "free" => u[j] = FreeNode
      BY <1>3 DEF Tree, Kin
    <2>2. ASSUME NEW a \in NodeIds, NEW b \in u[a].kids
          PROVE  /\ u[a].type = "dir" /\ u[b].type # "free" /\ (a \in Heap <=> b \in Heap)
                 /\ \A k \in NodeIds : b \in u[k].kids => k = a
                 /\ \A k \in u[a].kids : u[k].name = u[b].name => k = b
      <3>1. CASE b = i
        <4>1. a = dir
          BY <1>2, <1>4, <3>1
        <4>2. \A k \in NodeIds : b \in u[k].kids => k = a
          BY <1>2, <1>4, <3>1, <4>1
        <4>3. ASSUME NEW k \in u[a].kids, u[k].name = u[b].name PROVE k = b
          <5>1. k # i => k \in n[dir].kids /\ u[k].name = n[k].name
            BY <1>1, <1>4, <1>5, <4>1
          <5> QED
            BY <1>3, <3>1, <4>3, <5>1
        <4> QED
          BY <1>3, <1>5, <3>1, <4>1, <4>2, <4>3
      <3>2. CASE b # i
        <4>1. b \in n[a].kids /\ b \in NodeIds /\ a # i
          <5>1. u[a].kids \subseteq n[a].kids \cup {i}
            BY <1>4
          <5>2. b \in n[a].kids
            BY <3>2, <5>1
          <5> QED
            BY <1>1, <1>2, <5>2
        <4>2. /\ n[a].type = "dir" /\ n[b].type # "free" /\ (a \in Heap <=> b \in Heap)
              /\ \A k \in NodeIds : b \in n[k].kids => k = a
              /\ \A k \in n[a].kids : n[k].name = n[b].name => k = b
          BY <4>1 DEF Tree, Kin
        <4>3. \A k \in NodeIds : b \in u[k].kids => k = a
          BY <1>4, <3>2, <4>2
        <4>4. ASSUME NEW k \in u[a].kids, u[k].name = u[b].name PROVE k = b
          <5>1. CASE k = i
            <6>1. a = dir /\ n[b].name # r.name
              BY <1>2, <1>4, <4>1, <5>1
            <6> QED
              BY <1>3, <1>5, <3>2, <4>1, <4>4, <5>1, <6>1
          <5>2. CASE k # i
            <6>1. k \in n[a].kids /\ k \in NodeIds
              BY <1>1, <1>4, <5>2
            <6> QED
              BY <1>5, <3>2, <4>1, <4>2, <4>4, <5>2, <6>1
          <5> QED
            BY <5>1, <5>2
        <4> QED
          BY <1>5, <3>2, <4>1, <4>2, <4>3, <4>4
      <3> QED
        BY <3>1, <3>2
    <2> QED
      BY <2>1, <2>2 DEF Kin
  <1>8. Grounded(u)
    <2> SUFFICES ASSUME NEW S \in SUBSET NodeIds, S # {}
                 PROVE  \E a \in S : \A j \in S : a \notin u[j].kids
      BY DEF Grounded
    <2>1. CASE S = {i}
      BY <1>1, <1>2, <1>4, <2>1
    <2>2. CASE S # {i}
      <3>1. S \ {i} \in SUBSET NodeIds /\ S \ {i} # {}
        BY <2>2
      <3>2. PICK a \in S \ {i} : \A j \in S \ {i} : a \notin n[j].kids
        BY <3>1 DEF Tree, Grounded
      <3>3. \A j \in S : a \notin u[j].kids
        BY <1>2, <1>4, <3>2
      <3> QED
        BY <3>2, <3>3
    <2> QED
      BY <2>1, <2>2
  <1>9. LinkedIn(u, i) /\ \A j \in NodeIds : j # i => (LinkedIn(u, j) <=> LinkedIn(n, j))
    BY <1>4 DEF LinkedIn
  <1>10. i \notin R
    BY <1>2 DEF InTree
  <1>11. InTree(u, R, i) /\ \A j \in NodeIds : j # i => (InTree(u, R, j) <=> InTree(n, R, j))
    BY <1>9 DEF InTree
  <1>12. Rooted(u, R)
    <2>1. R \subseteq NodeIds /\ \A j \in R : u[j].type = "dir" /\ ~LinkedIn(u, j)
      BY <1>5, <1>9, <1>10 DEF Tree, Rooted
    <2>2. \A j \in NodeIds : u[j].kids # {} => InTree(u, R, j)
      BY <1>1, <1>2, <1>4, <1>11 DEF Tree, Rooted
    <2> QED
      BY <2>1, <2>2 DEF Rooted
  <1> QED
    BY <1>6, <1>7, <1>8, <1>11, <1>12 DEF Tree, u

\* The new node carries the tree's reference, and the caller's where there is one.
LEMMA PlacedGood ==
    ASSUME NEW n, NEW f, NEW R, NEW M, Good(n, f, R, M, 0),
           NEW dir \in NodeIds, n[dir].type = "dir",
           InTree(n, R, dir), NEW i \in NodeIds, n[i].type = "free", dir \in Heap <=> i \in Heap,
           NEW r \in Node, Sound(r), r.type # "free", r.kids = {},
           \A k \in n[dir].kids : n[k].name # r.name,
           NEW y \in {0, i}, IF i \in Heap THEN r.refs = 1 + One(y = i) ELSE r.refs <= 1
    PROVE  Good(PlacedAt(n, dir, i, r), f, R, M, y) /\ Grows(n, PlacedAt(n, dir, i, r), R)
  <1> DEFINE u == PlacedAt(n, dir, i, r)
  <1>1. n \in [NodeIds -> Node] /\ i # dir /\ Tree(n, R)
    BY DEF Good, Tree, Typed
  <1>2. /\ u[i] = r /\ \A j \in NodeIds : j # i /\ j # dir => u[j] = n[j]
        /\ u[dir].type = n[dir].type /\ u[dir].refs = n[dir].refs
        /\ u[dir].name = n[dir].name /\ n[dir].kids \subseteq u[dir].kids
    <2>1. IsPlaced(u, n, dir, i, r)
      BY <1>1, PlacedIs
    <2> HIDE DEF u
    <2> QED
      BY <2>1 DEF IsPlaced
  <1>3. /\ Tree(u, R) /\ InTree(u, R, i)
        /\ \A j \in NodeIds : j # i => (InTree(u, R, j) <=> InTree(n, R, j))
    BY <1>1, PlacedTree
  <1>4. ~InTree(n, R, i) /\ n[i] = FreeNode
    BY <1>1, FreeIs
  <1> HIDE DEF u
  <1>5. ASSUME NEW j \in Heap
        PROVE  /\ u[j].refs = One(InTree(u, R, j)) + One(j \in M) + Cardinality(OnNode(f, j))
                                + One(j = y)
               /\ u[j].type = "free" <=> u[j].refs = 0
    <2> DEFINE a == One(InTree(n, R, j))
               b == One(j \in M)
               c == Cardinality(OnNode(f, j))
    <2>1. /\ n[j].refs = a + b + c /\ (n[j].type = "free" <=> n[j].refs = 0)
          /\ a \in Nat /\ b \in Nat /\ c \in Nat /\ j \in NodeIds
          /\ (j # i => One(j = y) = 0) /\ One(j = y) \in Nat
      BY Ids, OnNodeFinite DEF Good, Exact, One
    <2>2. CASE j = i
      <3>1. n[j].refs = 0 /\ One(InTree(u, R, j)) = 1
        BY <1>3, <1>4, <2>2, FreeNodeIs DEF One
      <3>2. b = 0 /\ c = 0
        <4> HIDE DEF a, b, c
        <4> QED
          BY <2>1, <3>1
      <3>3. u[j].refs = 1 + One(j = y) /\ u[j].type # "free"
        BY <1>2, <2>2 DEF One
      <3> QED
        BY <2>1, <3>1, <3>2, <3>3
    <2>3. CASE j # i
      <3>1. u[j].refs = n[j].refs /\ u[j].type = n[j].type /\ One(InTree(u, R, j)) = a
        BY <1>2, <1>3, <2>1, <2>3 DEF One
      <3> QED
        BY <2>1, <2>3, <3>1
    <2> QED
      BY <2>2, <2>3
  <1>6. Exact(u, f, R, M, y)
    BY <1>5 DEF Good, Exact
  <1>7. Grows(n, u, R)
    BY <1>2, <1>3, <1>4 DEF Grows
  <1> QED
    BY <1>3, <1>6, <1>7 DEF Good, u

LEMMA GrowsOn ==
    ASSUME NEW n, NEW u, NEW v, NEW R
    PROVE  Grows(n, n, R) /\ (Grows(n, u, R) /\ Grows(u, v, R) => Grows(n, v, R))
  BY DEF Grows

IsWithout(u, n, dir, i) ==
    /\ u \in [NodeIds -> Node] /\ \A j \in NodeIds : j # dir => u[j] = n[j]
    /\ u[dir].kids = n[dir].kids \ {i} /\ u[dir].name = n[dir].name
    /\ u[dir].type = n[dir].type /\ u[dir].refs = n[dir].refs
    /\ u[dir].data = n[dir].data /\ u[dir].size = n[dir].size
    /\ u[dir].want = n[dir].want /\ u[dir] = WithKids(n[dir], n[dir].kids \ {i})

LEMMA WithoutIs ==
    ASSUME NEW n, n \in [NodeIds -> Node], NEW dir \in NodeIds, NEW i
    PROVE  IsWithout(Without(n, dir, i), n, dir, i)
  <1> DEFINE d == WithKids(n[dir], n[dir].kids \ {i})
             u == Without(n, dir, i)
  <1>1. n[dir] \in Node /\ n[dir].kids \ {i} \in SUBSET NodeIds
    BY DEF Node
  <1>2. /\ d \in Node /\ d.kids = n[dir].kids \ {i} /\ d.name = n[dir].name
        /\ d.type = n[dir].type /\ d.refs = n[dir].refs /\ d.data = n[dir].data
        /\ d.size = n[dir].size /\ d.want = n[dir].want
    BY <1>1, KidsOnly
  <1>3. u = [n EXCEPT ![dir] = d]
    BY DEF WithKids, Without
  <1> HIDE DEF u, d
  <1>4. u \in [NodeIds -> Node] /\ u[dir] = d /\ \A j \in NodeIds : j # dir => u[j] = n[j]
    BY <1>2, <1>3
  <1> QED
    BY <1>2, <1>4 DEF u, d, IsWithout

LEMMA NoSelf ==
    ASSUME NEW n, NEW R, Tree(n, R), NEW dir \in NodeIds
    PROVE  dir \notin n[dir].kids
  <1>1. {dir} \in SUBSET NodeIds /\ {dir} # {}
    OBVIOUS
  <1>2. \E i \in {dir} : \A j \in {dir} : i \notin n[j].kids
    BY <1>1 DEF Tree, Grounded
  <1> QED
    BY <1>2

LEMMA WithoutTree ==
    ASSUME NEW n, NEW R, Tree(n, R), NEW dir \in NodeIds, NEW i \in n[dir].kids, n[i].kids = {}
    PROVE  LET u == Without(n, dir, i)
           IN  /\ Tree(u, R) /\ ~InTree(u, R, i) /\ InTree(n, R, i)
               /\ \A j \in NodeIds : j # i => (InTree(u, R, j) <=> InTree(n, R, j))
  <1> DEFINE u == Without(n, dir, i)
  <1>1. /\ n \in [NodeIds -> Node] /\ (\A j \in NodeIds : n[j].kids \subseteq NodeIds)
        /\ i \in NodeIds /\ i # dir
    <2>1. n \in [NodeIds -> Node] /\ (\A j \in NodeIds : n[j].kids \subseteq NodeIds)
      BY DEF Tree, Typed, Node
    <2> QED
      BY <2>1, NoSelf
  <1>2. /\ u \in [NodeIds -> Node] /\ \A j \in NodeIds : j # dir => u[j] = n[j]
        /\ u[dir].kids = n[dir].kids \ {i} /\ u[dir].name = n[dir].name
        /\ u[dir].type = n[dir].type /\ u[dir].refs = n[dir].refs
        /\ u[dir].data = n[dir].data /\ u[dir].size = n[dir].size
        /\ u[dir].want = n[dir].want
    <2>1. IsWithout(u, n, dir, i)
      BY <1>1, WithoutIs
    <2> HIDE DEF u
    <2> QED
      BY <2>1 DEF IsWithout
  <1> HIDE DEF u
  <1>3. /\ \A k \in NodeIds : i \in n[k].kids => k = dir
        /\ n[dir].type = "dir"
    BY <1>1 DEF Tree, Kin
  <1>4. \A j \in NodeIds : u[j].kids = n[j].kids \ {i}
    BY <1>2, <1>3
  <1>5. \A j \in NodeIds : u[j].type = n[j].type /\ u[j].name = n[j].name
    BY <1>2
  <1>6. Typed(u)
    BY <1>2 DEF Tree, Typed, Sound, Uncounted
  <1>7. Kin(u)
    <2>1. \A j \in NodeIds : u[j].type = "free" => u[j] = FreeNode
      BY <1>2, <1>3 DEF Tree, Kin
    <2>2. ASSUME NEW a \in NodeIds, NEW b \in u[a].kids
          PROVE  /\ u[a].type = "dir" /\ u[b].type # "free" /\ (a \in Heap <=> b \in Heap)
                 /\ \A k \in NodeIds : b \in u[k].kids => k = a
                 /\ \A k \in u[a].kids : u[k].name = u[b].name => k = b
      <3>1. b \in n[a].kids /\ b \in NodeIds
        BY <1>1, <1>4
      <3>2. /\ n[a].type = "dir" /\ n[b].type # "free" /\ (a \in Heap <=> b \in Heap)
            /\ \A k \in NodeIds : b \in n[k].kids => k = a
            /\ \A k \in n[a].kids : n[k].name = n[b].name => k = b
        BY <3>1 DEF Tree, Kin
      <3>3. \A k \in u[a].kids : k \in NodeIds /\ k \in n[a].kids /\ u[k].name = n[k].name
        BY <1>1, <1>4, <1>5
      <3> QED
        BY <1>4, <1>5, <3>1, <3>2, <3>3
    <2> QED
      BY <2>1, <2>2 DEF Kin
  <1>8. Grounded(u)
    BY <1>4 DEF Tree, Grounded
  <1>9. LinkedIn(n, i) /\ ~LinkedIn(u, i)
        /\ \A j \in NodeIds : j # i => (LinkedIn(u, j) <=> LinkedIn(n, j))
    BY <1>4 DEF LinkedIn
  <1>10. i \notin R
    BY <1>9 DEF Tree, Rooted
  <1>11. /\ InTree(n, R, i) /\ ~InTree(u, R, i)
         /\ \A j \in NodeIds : j # i => (InTree(u, R, j) <=> InTree(n, R, j))
    BY <1>9, <1>10 DEF InTree
  <1>12. Rooted(u, R)
    <2>1. R \subseteq NodeIds /\ \A j \in R : u[j].type = "dir" /\ ~LinkedIn(u, j)
      BY <1>5, <1>9, <1>10 DEF Tree, Rooted
    <2>2. \A j \in NodeIds : u[j].kids # {} => InTree(u, R, j)
      BY <1>1, <1>4, <1>11 DEF Tree, Rooted
    <2> QED
      BY <2>1, <2>2 DEF Rooted
  <1> QED
    BY <1>6, <1>7, <1>8, <1>11, <1>12 DEF Tree, u

\* What is in the tree stays there as it is, but for i, which has gone.
Shrinks(n, u, R, i) ==
    \A j \in NodeIds : j # i /\ InTree(n, R, j) =>
        /\ InTree(u, R, j) /\ u[j].type = n[j].type /\ u[j].name = n[j].name
        /\ n[j].kids \ {i} \subseteq u[j].kids

\* The reference of the tree is the call's once the node is taken out.
LEMMA WithoutGood ==
    ASSUME NEW n, NEW f, NEW R, NEW M, Good(n, f, R, M, 0),
           NEW dir \in NodeIds, NEW i \in n[dir].kids, n[i].kids = {}
    PROVE  Good(Without(n, dir, i), f, R, M, i) /\ Shrinks(n, Without(n, dir, i), R, i)
           /\ ~InTree(Without(n, dir, i), R, i)
  <1> DEFINE u == Without(n, dir, i)
  <1>1. /\ n \in [NodeIds -> Node] /\ Tree(n, R) /\ i \in NodeIds
    BY DEF Good, Tree, Typed, Node
  <1>2. /\ Tree(u, R) /\ ~InTree(u, R, i) /\ InTree(n, R, i)
        /\ \A j \in NodeIds : j # i => (InTree(u, R, j) <=> InTree(n, R, j))
    BY <1>1, WithoutTree
  <1>3. /\ \A j \in NodeIds : j # dir => u[j] = n[j]
        /\ u[dir].kids = n[dir].kids \ {i} /\ u[dir].name = n[dir].name
        /\ u[dir].type = n[dir].type /\ u[dir].refs = n[dir].refs
    <2>1. IsWithout(u, n, dir, i)
      BY <1>1, WithoutIs
    <2> HIDE DEF u
    <2> QED
      BY <2>1 DEF IsWithout
  <1> HIDE DEF u
  <1>4. ASSUME NEW j \in Heap
        PROVE  /\ u[j].refs = One(InTree(u, R, j)) + One(j \in M) + Cardinality(OnNode(f, j))
                                + One(j = i)
               /\ u[j].type = "free" <=> u[j].refs = 0
    <2> DEFINE a == One(InTree(n, R, j))
               b == One(j \in M)
               c == Cardinality(OnNode(f, j))
    <2>1. /\ n[j].refs = a + b + c /\ (n[j].type = "free" <=> n[j].refs = 0)
          /\ a \in Nat /\ b \in Nat /\ c \in Nat /\ j \in NodeIds
          /\ One(j = i) = IF j = i THEN 1 ELSE 0
      BY Ids, OnNodeFinite DEF Good, Exact, One
    <2>2. u[j].refs = n[j].refs /\ u[j].type = n[j].type
      BY <1>3, <2>1
    <2>3. One(InTree(u, R, j)) = IF j = i THEN 0 ELSE a
      BY <1>2, <2>1 DEF One
    <2>4. j = i => a = 1
      BY <1>2 DEF One
    <2> HIDE DEF a, b, c
    <2>5. u[j].refs = One(InTree(u, R, j)) + b + c + One(j = i)
      BY <2>1, <2>2, <2>3, <2>4
    <2> QED
      BY <2>1, <2>2, <2>5 DEF b, c
  <1>5. Exact(u, f, R, M, i)
    BY <1>4 DEF Good, Exact
  <1>6. Shrinks(n, u, R, i)
    BY <1>2, <1>3 DEF Shrinks
  <1> QED
    BY <1>2, <1>5, <1>6 DEF Good, u

LEMMA NamedIs ==
    ASSUME NEW n, n \in [NodeIds -> Node], NEW dir \in NodeIds, NEW name,
           Named(n, dir, name) # {}
    PROVE  LET i == Smallest(Named(n, dir, name))
           IN  i \in n[dir].kids /\ i \in NodeIds /\ n[i].name = name
  <1>1. n[dir].kids \subseteq NodeIds
    BY DEF Node
  <1>2. Named(n, dir, name) \in SUBSET Nat
    BY <1>1, Ids DEF Named
  <1>3. Smallest(Named(n, dir, name)) \in Named(n, dir, name)
    BY <1>2, SmallestIs
  <1> QED
    BY <1>1, <1>3 DEF Named

LEMMA NotInNsfs ==
    ASSUME NEW n, NEW f, NEW R, NEW M, NEW y, NEW z, Good(n, f, R, M, y),
           y \notin Heap, z \notin Heap
    PROVE  Good(n, f, R, M, z)
  <1>1. \A j \in Heap : One(j = y) = One(j = z)
    BY DEF One
  <1> QED
    BY <1>1 DEF Good, Exact

LEMMA NsfsFreed ==
    ASSUME NEW n, NEW f, NEW R, NEW M, Good(n, f, R, M, 0), NEW i \in NodeIds, i \notin Heap,
           ~InTree(n, R, i)
    PROVE  Good([n EXCEPT ![i] = FreeNode], f, R, M, 0)
  <1> DEFINE u == [n EXCEPT ![i] = FreeNode]
  <1>1. Tree(n, R)
    BY DEF Good
  <1>2. /\ Tree(u, R) /\ u \in [NodeIds -> Node]
        /\ \A j \in NodeIds : j # i => u[j] = n[j]
        /\ \A j \in NodeIds : InTree(u, R, j) <=> InTree(n, R, j)
    BY <1>1, FreeTree
  <1> HIDE DEF u
  <1>3. \A j \in Heap : u[j] = n[j] /\ One(InTree(u, R, j)) = One(InTree(n, R, j))
    BY <1>2, Ids DEF One
  <1>4. Exact(u, f, R, M, 0)
    BY <1>3 DEF Good, Exact
  <1> QED
    BY <1>2, <1>4 DEF Good, u

LEMMA ShrinksOn ==
    ASSUME NEW n, NEW u, NEW v, NEW R, NEW i, Shrinks(n, u, R, i), Shrinks(u, v, R, i)
    PROVE  Shrinks(n, v, R, i)
  BY DEF Shrinks

LEMMA GrowsShrinks ==
    ASSUME NEW n, NEW u, NEW R, NEW i, Grows(n, u, R)
    PROVE  Shrinks(n, u, R, i)
  BY DEF Shrinks, Grows

LEMMA UnlinkOne ==
    ASSUME NEW n, NEW f, NEW R, NEW M, Good(n, f, R, M, 0), NEW dir \in NodeIds, NEW name,
           NEW rmdir \in BOOLEAN, UnlinkStatus(n, dir, name, rmdir) = "OK"
    PROVE  LET i == Smallest(Named(n, dir, name))
               u == fs_unlink(n, dir, name, rmdir)
           IN  /\ i \in n[dir].kids /\ i \in NodeIds /\ n[i].name = name /\ n[i].kids = {}
               /\ n[i].type = "dir" => rmdir
               /\ Good(u, f, R, M, 0) /\ Shrinks(n, u, R, i)
  <1> DEFINE i == Smallest(Named(n, dir, name))
             w == Without(n, dir, i)
             u == fs_unlink(n, dir, name, rmdir)
  <1>1. /\ Named(n, dir, name) # {} /\ n[dir].type = "dir"
        /\ n[i].type = "dir" => rmdir /\ n[i].kids = {}
    BY Zenon DEF UnlinkStatus
  <1>2. n \in [NodeIds -> Node] /\ Tree(n, R)
    BY DEF Good, Tree, Typed
  <1>3. i \in n[dir].kids /\ i \in NodeIds /\ n[i].name = name
    BY <1>1, <1>2, NamedIs
  <1>4. n[i].kids = {}
    BY <1>1, <1>2, <1>3 DEF Tree, Kin
  <1>5. i \in Heap <=> dir \in Heap
    BY <1>2, <1>3 DEF Tree, Kin
  <1>6. /\ dir \in Heap => u = node_release(w, i)
        /\ dir \notin Heap => u = [w EXCEPT ![i] = FreeNode]
    BY DEF fs_unlink, Counted, ramfs_unlink, nsfs_vfs_unlink
  <1> HIDE DEF i
  <1>7. Good(w, f, R, M, i) /\ Shrinks(n, w, R, i) /\ ~InTree(w, R, i)
    BY <1>3, <1>4, WithoutGood
  <1> HIDE DEF w, u
  <1>8. Good(u, f, R, M, 0) /\ Shrinks(w, u, R, i)
    <2>1. CASE dir \in Heap
      <3>1. Good(u, f, R, M, 0) /\ Grows(w, u, R)
        BY <1>3, <1>6, <1>7, <2>1, ReleaseGood
      <3> QED
        BY <3>1, GrowsShrinks
    <2>2. CASE dir \notin Heap
      <3>1. Good(w, f, R, M, 0)
        BY <1>5, <1>7, <2>2, NotInNsfs, Ids
      <3>2. Good(u, f, R, M, 0)
        BY <1>3, <1>5, <1>6, <1>7, <2>2, <3>1, NsfsFreed
      <3>3. /\ \A j \in NodeIds : j # i => u[j] = w[j]
            /\ \A j \in NodeIds : InTree(u, R, j) <=> InTree(w, R, j)
        <4>1. Tree(w, R)
          BY <1>7 DEF Good
        <4> QED
          BY <1>3, <1>6, <1>7, <2>2, <4>1, FreeTree
      <3> QED
        BY <3>2, <3>3 DEF Shrinks
    <2> QED
      BY <2>1, <2>2
  <1>9. Shrinks(n, u, R, i)
    BY <1>7, <1>8, ShrinksOn
  <1> QED
    BY <1>1, <1>3, <1>4, <1>8, <1>9 DEF i, u

----------------------------------------------------------------------------
\* The directory a call works in is retained meanwhile, which makes no difference.

LEMMA RetainShows ==
    ASSUME NEW n, n \in [NodeIds -> Node], NEW i \in NodeIds
    PROVE  LET u == node_retain(n, i)
           IN  /\ u \in [NodeIds -> Node]
               /\ \A j \in NodeIds : /\ u[j].type = n[j].type /\ u[j].kids = n[j].kids
                                     /\ u[j].name = n[j].name /\ n[j].kids \subseteq NodeIds
               /\ \A dir \in NodeIds : \A name : Named(u, dir, name) = Named(n, dir, name)
               /\ FreeOf(u, Heap) = FreeOf(n, Heap)
               /\ FreeOf(u, NsfsNodes) = FreeOf(n, NsfsNodes)
  <1> DEFINE u == node_retain(n, i)
  <1>1. /\ u \in [NodeIds -> Node]
        /\ \A j \in NodeIds : j # i => u[j] = n[j]
        /\ u[i].kids = n[i].kids /\ u[i].name = n[i].name /\ u[i].type = n[i].type
    BY RetainIs
  <1> HIDE DEF u
  <1>2. \A j \in NodeIds : /\ u[j].type = n[j].type /\ u[j].kids = n[j].kids
                           /\ u[j].name = n[j].name /\ n[j].kids \subseteq NodeIds
    BY <1>1 DEF Node
  <1>3. \A dir \in NodeIds : \A name : Named(u, dir, name) = Named(n, dir, name)
    BY <1>2 DEF Named
  <1>4. FreeOf(u, Heap) = FreeOf(n, Heap) /\ FreeOf(u, NsfsNodes) = FreeOf(n, NsfsNodes)
    BY <1>2, Ids DEF FreeOf
  <1> QED
    BY <1>1, <1>2, <1>3, <1>4 DEF u

LEMMA RefsThenKids ==
    ASSUME NEW a \in Node, NEW k \in Nat, NEW K \in SUBSET NodeIds
    PROVE  WithKids(WithRefs(a, k), K) = WithRefs(WithKids(a, K), k)
  BY DEF Node, WithKids, WithRefs

LEMMA RetainWithout ==
    ASSUME NEW n, n \in [NodeIds -> Node], NEW d \in Heap, NEW i \in NodeIds
    PROVE  Without(node_retain(n, d), d, i) = node_retain(Without(n, d, i), d)
  <1> DEFINE u == node_retain(n, d)
             w == Without(n, d, i)
             uw == Without(u, d, i)
             wu == node_retain(w, d)
  <1>1. d \in NodeIds /\ n[d] \in Node /\ n[d].refs + 1 \in Nat
        /\ n[d].kids \ {i} \in SUBSET NodeIds
    <2>1. d \in NodeIds
      BY Ids
    <2>2. n[d] \in Node
      BY <2>1
    <2>3. n[d].refs \in Nat /\ n[d].kids \in SUBSET NodeIds
      BY <2>2 DEF Node
    <2> QED
      BY <2>1, <2>2, <2>3
  <1>2. /\ u \in [NodeIds -> Node] /\ \A j \in NodeIds : j # d => u[j] = n[j]
        /\ u[d] = WithRefs(n[d], n[d].refs + 1) /\ u[d].kids = n[d].kids
    BY <1>1, RetainIs
  <1>3. IsWithout(w, n, d, i)
    BY <1>1, WithoutIs
  <1> HIDE DEF u, w
  <1>4. IsWithout(uw, u, d, i)
    BY <1>1, <1>2, WithoutIs
  <1>5. /\ w \in [NodeIds -> Node] /\ \A j \in NodeIds : j # d => w[j] = n[j]
        /\ w[d] = WithKids(n[d], n[d].kids \ {i}) /\ w[d].refs = n[d].refs
    BY <1>3 DEF IsWithout
  <1>6. /\ wu \in [NodeIds -> Node] /\ \A j \in NodeIds : j # d => wu[j] = w[j]
        /\ wu[d] = WithRefs(w[d], w[d].refs + 1)
    BY <1>1, <1>5, RetainIs
  <1> HIDE DEF uw, wu
  <1>7. /\ uw \in [NodeIds -> Node] /\ \A j \in NodeIds : j # d => uw[j] = u[j]
        /\ uw[d] = WithKids(u[d], u[d].kids \ {i})
    BY <1>4 DEF IsWithout
  <1>8. uw[d] = wu[d]
    BY <1>1, <1>2, <1>5, <1>6, <1>7, RefsThenKids
  <1>9. \A j \in NodeIds : uw[j] = wu[j]
    BY <1>2, <1>5, <1>6, <1>7, <1>8
  <1> QED
    BY <1>6, <1>7, <1>9 DEF u, w, uw, wu

LEMMA RetainPlaced ==
    ASSUME NEW n, n \in [NodeIds -> Node], NEW d \in NodeIds, NEW i \in NodeIds, i # d,
           NEW r \in Node
    PROVE  PlacedAt(node_retain(n, d), d, i, r) = node_retain(PlacedAt(n, d, i, r), d)
  <1>1. CASE d \notin Heap
    BY <1>1 DEF node_retain, Counted
  <1>2. CASE d \in Heap
    <2> DEFINE u == node_retain(n, d)
               w == PlacedAt(n, d, i, r)
               uw == PlacedAt(u, d, i, r)
               wu == node_retain(w, d)
    <2>1. n[d] \in Node /\ n[d].refs + 1 \in Nat /\ n[d].kids \cup {i} \in SUBSET NodeIds
      BY DEF Node
    <2>2. /\ u \in [NodeIds -> Node] /\ \A j \in NodeIds : j # d => u[j] = n[j]
          /\ u[d] = WithRefs(n[d], n[d].refs + 1) /\ u[d].kids = n[d].kids
      BY <1>2, RetainIs
    <2>3. IsPlaced(w, n, d, i, r)
      BY PlacedIs
    <2> HIDE DEF u, w
    <2>4. IsPlaced(uw, u, d, i, r)
      BY <2>2, PlacedIs
    <2>5. /\ w \in [NodeIds -> Node] /\ w[i] = r
          /\ \A j \in NodeIds : j # d /\ j # i => w[j] = n[j]
          /\ w[d] = WithKids(n[d], n[d].kids \cup {i}) /\ w[d].refs = n[d].refs
      BY <2>3 DEF IsPlaced
    <2>6. /\ wu \in [NodeIds -> Node] /\ \A j \in NodeIds : j # d => wu[j] = w[j]
          /\ wu[d] = WithRefs(w[d], w[d].refs + 1)
      BY <1>2, <2>5, RetainIs
    <2> HIDE DEF uw, wu
    <2>7. /\ uw \in [NodeIds -> Node] /\ uw[i] = r
          /\ \A j \in NodeIds : j # d /\ j # i => uw[j] = u[j]
          /\ uw[d] = WithKids(u[d], u[d].kids \cup {i})
      BY <2>4 DEF IsPlaced
    <2>8. uw[d] = wu[d]
      BY <2>1, <2>2, <2>5, <2>6, <2>7, RefsThenKids
    <2>9. \A j \in NodeIds : uw[j] = wu[j]
      BY <2>2, <2>5, <2>6, <2>7, <2>8
    <2> QED
      BY <2>6, <2>7, <2>9 DEF u, w, uw, wu
  <1> QED
    BY <1>1, <1>2

LEMMA ReleaseOther ==
    ASSUME NEW n, n \in [NodeIds -> Node], NEW d \in NodeIds, NEW i \in NodeIds, i # d,
           i \in Heap => n[i].refs # 0
    PROVE  node_release(node_retain(n, d), i) = node_retain(node_release(n, i), d)
  <1>1. CASE i \notin Heap \/ d \notin Heap
    BY <1>1 DEF node_retain, node_release, Counted
  <1>2. CASE i \in Heap /\ d \in Heap
    <2> DEFINE u == node_retain(n, d)
               w == node_release(n, i)
               uw == node_release(u, i)
               wu == node_retain(w, d)
    <2>1. /\ u \in [NodeIds -> Node] /\ \A j \in NodeIds : j # d => u[j] = n[j]
          /\ u[d] = WithRefs(n[d], n[d].refs + 1)
      BY <1>2, RetainIs
    <2>2. /\ w \in [NodeIds -> Node] /\ \A j \in NodeIds : j # i => w[j] = n[j]
          /\ n[i].refs = 1 => w[i] = FreeNode
          /\ n[i].refs # 1 => w[i] = WithRefs(n[i], n[i].refs - 1)
      BY <1>2, ReleaseIs
    <2> HIDE DEF u, w
    <2>3. /\ wu \in [NodeIds -> Node] /\ \A j \in NodeIds : j # d => wu[j] = w[j]
          /\ wu[d] = WithRefs(w[d], w[d].refs + 1)
      BY <1>2, <2>2, RetainIs
    <2>4. /\ uw \in [NodeIds -> Node] /\ \A j \in NodeIds : j # i => uw[j] = u[j]
          /\ u[i].refs = 1 => uw[i] = FreeNode
          /\ u[i].refs # 1 => uw[i] = WithRefs(u[i], u[i].refs - 1)
      BY <1>2, <2>1, ReleaseIs
    <2> HIDE DEF uw, wu
    <2>5. uw[d] = wu[d]
      BY <2>1, <2>2, <2>3, <2>4
    <2>6. uw[i] = wu[i]
      BY <2>1, <2>2, <2>3, <2>4
    <2>7. \A j \in NodeIds : uw[j] = wu[j]
      BY <2>1, <2>2, <2>3, <2>4, <2>5, <2>6
    <2> QED
      BY <2>3, <2>4, <2>7 DEF u, w, uw, wu
  <1> QED
    BY <1>1, <1>2

\* What is in the tree has a reference.
LEMMA LiveRefs ==
    ASSUME NEW n, NEW f, NEW R, NEW M, NEW y, Good(n, f, R, M, y), NEW i \in NodeIds
    PROVE  /\ InTree(n, R, i) => n[i].type # "free"
           /\ n[i].type # "free" => (i \in Heap => n[i].refs # 0)
  <1>1. InTree(n, R, i) => n[i].type # "free"
    BY DEF Good, Tree, Kin, Rooted, InTree, LinkedIn
  <1> QED
    BY <1>1 DEF Good, Exact

LEMMA UnlinkHeld ==
    ASSUME NEW n, NEW f, NEW R, NEW M, Good(n, f, R, M, 0), NEW d \in NodeIds,
           n[d].type # "free", NEW name, NEW rmdir \in BOOLEAN
    PROVE  node_release(fs_unlink(node_retain(n, d), d, name, rmdir), d)
            = fs_unlink(n, d, name, rmdir)
  <1>1. n \in [NodeIds -> Node] /\ Tree(n, R)
    BY DEF Good, Tree, Typed
  <1>2. CASE d \notin Heap
    BY <1>2 DEF node_retain, node_release, Counted
  <1>3. CASE d \in Heap
    <2> DEFINE u == node_retain(n, d)
               i == Smallest(Named(n, d, name))
               w == Without(n, d, i)
    <2>1. /\ u \in [NodeIds -> Node] /\ Named(u, d, name) = Named(n, d, name)
          /\ \A j \in NodeIds : /\ u[j].type = n[j].type /\ u[j].kids = n[j].kids
                                /\ u[j].name = n[j].name /\ n[j].kids \subseteq NodeIds
      BY <1>1, RetainShows
    <2>2. Named(n, d, name) # {} => i \in n[d].kids /\ i \in NodeIds
      BY <1>1, NamedIs
    <2>3. UnlinkStatus(u, d, name, rmdir) = "OK" <=> UnlinkStatus(n, d, name, rmdir) = "OK"
      <3>1. CASE Named(n, d, name) = {}
        <4> HIDE DEF u
        <4>1. UnlinkStatus(u, d, name, rmdir) # "OK"
          BY <2>1, <3>1, Zenon DEF UnlinkStatus
        <4>2. UnlinkStatus(n, d, name, rmdir) # "OK"
          BY <3>1, Zenon DEF UnlinkStatus
        <4> QED
          BY <4>1, <4>2
      <3>2. CASE Named(n, d, name) # {}
        <4>1. u[i].type = n[i].type /\ u[i].kids = n[i].kids /\ u[d].type = n[d].type
          BY <2>1, <2>2, <3>2
        <4> HIDE DEF u
        <4>2. UnlinkStatus(u, d, name, rmdir) = UnlinkStatus(n, d, name, rmdir)
          BY <2>1, <4>1, Zenon DEF UnlinkStatus
        <4> QED
          BY <4>2
      <3> QED
        BY <3>1, <3>2
    <2>4. n[d].refs # 0
      BY <1>3, LiveRefs
    <2>5. CASE UnlinkStatus(n, d, name, rmdir) # "OK"
      <3>1. node_release(u, d) = n
        BY <1>1, <2>4, ReleaseRetained
      <3> QED
        BY <2>3, <2>5, <3>1 DEF fs_unlink
    <2>6. CASE UnlinkStatus(n, d, name, rmdir) = "OK"
      <3>1. i \in n[d].kids /\ n[i].kids = {} /\ i \in NodeIds
        BY <2>6, UnlinkOne
      <3>2. i # d
        BY <1>1, <3>1, NoSelf
      <3>3. fs_unlink(u, d, name, rmdir) = node_release(Without(u, d, i), i)
        <4> HIDE DEF u
        <4> QED
          BY <1>3, <2>1, <2>3, <2>6 DEF fs_unlink, ramfs_unlink, Counted
      <3>4. fs_unlink(n, d, name, rmdir) = node_release(w, i)
        BY <1>3, <2>6 DEF fs_unlink, ramfs_unlink, Counted
      <3>5. Without(u, d, i) = node_retain(w, d)
        BY <1>1, <1>3, <3>1, RetainWithout
      <3>6. w \in [NodeIds -> Node] /\ (i \in Heap => w[i].refs # 0) /\ w[d].refs # 0
        <4>1. IsWithout(w, n, d, i)
          BY <1>1, WithoutIs
        <4>2. i \in Heap => n[i].refs # 0
          <5>1. n[i].type # "free"
            BY <1>1, <3>1 DEF Tree, Kin
          <5> QED
            BY <3>1, <5>1, LiveRefs
        <4> HIDE DEF w, i
        <4> QED
          BY <2>4, <3>1, <3>2, <4>1, <4>2 DEF IsWithout
      <3> HIDE DEF u, w, i
      <3>7. node_release(node_retain(w, d), i) = node_retain(node_release(w, i), d)
        BY <3>1, <3>2, <3>6, ReleaseOther
      <3>8. node_release(w, i) \in [NodeIds -> Node] /\ node_release(w, i)[d] = w[d]
        BY <3>1, <3>2, <3>6, ReleaseIs
      <3>9. node_release(node_retain(node_release(w, i), d), d) = node_release(w, i)
        BY <3>6, <3>8, ReleaseRetained
      <3> QED
        BY <3>3, <3>4, <3>5, <3>7, <3>9 DEF u
    <2> QED
      BY <2>5, <2>6
  <1> QED
    BY <1>2, <1>3

----------------------------------------------------------------------------
\* Resolving paths.

LEMMA WalksNowhere ==
    ASSUME NEW n, NEW root \in NodeIds, NEW path, NEW from
    PROVE  Walks(n, root, path, from, 0, root)
  <1> DEFINE g == [k \in 0..0 |-> root]
  <1>1. g \in [0..0 -> NodeIds] /\ g[0] = root /\ 1..0 = {}
    OBVIOUS
  <1> HIDE DEF g
  <1> QED
    BY <1>1 DEF Walks

LEMMA WalksOn ==
    ASSUME NEW n, NEW root, NEW path, NEW from, NEW last \in Nat, NEW i \in NodeIds,
           Walks(n, root, path, from, last, i), NEW j \in NodeIds, j \in n[i].kids,
           n[j].name = path[from + (last + 1)]
    PROVE  Walks(n, root, path, from, last + 1, j)
  <1>1. PICK g \in [0..last -> NodeIds] :
            /\ g[0] = root /\ g[last] = i
            /\ \A k \in 1..last : g[k] \in n[g[k - 1]].kids /\ n[g[k]].name = path[from + k]
    BY DEF Walks
  <1> DEFINE h == [k \in 0..(last + 1) |-> IF k = last + 1 THEN j ELSE g[k]]
  <1>2. h \in [0..(last + 1) -> NodeIds] /\ h[0] = root /\ h[last + 1] = j
        /\ \A k \in 0..last : h[k] = g[k]
    BY <1>1
  <1> HIDE DEF h
  <1>3. ASSUME NEW k \in 1..(last + 1)
        PROVE  h[k] \in n[h[k - 1]].kids /\ n[h[k]].name = path[from + k]
    <2>1. CASE k = last + 1
      <3>1. h[k - 1] = i /\ h[k] = j
        BY <1>1, <1>2, <2>1
      <3> QED
        BY <2>1, <3>1
    <2>2. CASE k # last + 1
      <3>1. k \in 1..last /\ k \in 0..last /\ k - 1 \in 0..last
        BY <2>2
      <3> QED
        BY <1>1, <1>2, <3>1
    <2> QED
      BY <2>1, <2>2
  <1> QED
    BY <1>2, <1>3 DEF Walks

LEMMA WalksIn ==
    ASSUME NEW n, NEW R, Tree(n, R), NEW root \in R, NEW path, NEW from, NEW last \in Nat,
           NEW i, Walks(n, root, path, from, last, i)
    PROVE  i \in NodeIds /\ InTree(n, R, i) /\ (last = 0 => i = root)
           /\ (last # 0 => LinkedIn(n, i))
  <1>1. PICK g \in [0..last -> NodeIds] :
            /\ g[0] = root /\ g[last] = i
            /\ \A k \in 1..last : g[k] \in n[g[k - 1]].kids /\ n[g[k]].name = path[from + k]
    BY DEF Walks
  <1>2. last # 0 => last \in 1..last /\ last - 1 \in 0..last
    OBVIOUS
  <1>3. i \in NodeIds /\ (last # 0 => LinkedIn(n, i)) /\ (last = 0 => i = root)
    BY <1>1, <1>2 DEF LinkedIn
  <1> QED
    BY <1>3 DEF InTree

LEMMA WalksGrow ==
    ASSUME NEW n, NEW u, NEW R, Tree(n, R), Grows(n, u, R), NEW root \in R, NEW path, NEW from,
           NEW last \in Nat, NEW i, Walks(n, root, path, from, last, i)
    PROVE  Walks(u, root, path, from, last, i)
  <1>1. PICK g \in [0..last -> NodeIds] :
            /\ g[0] = root /\ g[last] = i
            /\ \A k \in 1..last : g[k] \in n[g[k - 1]].kids /\ n[g[k]].name = path[from + k]
    BY DEF Walks
  <1>2. ASSUME NEW k \in 1..last
        PROVE  g[k] \in u[g[k - 1]].kids /\ u[g[k]].name = path[from + k]
    <2>1. g[k] \in NodeIds /\ g[k - 1] \in NodeIds
      BY <1>1
    <2>2. g[k] \in n[g[k - 1]].kids /\ n[g[k]].name = path[from + k]
      BY <1>1
    <2>3. InTree(n, R, g[k]) /\ InTree(n, R, g[k - 1])
      BY <2>1, <2>2 DEF InTree, LinkedIn, Tree, Rooted
    <2> QED
      BY <2>1, <2>2, <2>3 DEF Grows
  <1> QED
    BY <1>1, <1>2 DEF Walks

\* What a walk of k names has come to: a node of the tree, held, or an error with
\* every reference given back.
IsResult(r) == DOMAIN r = {"n", "st", "id", "mount"}
Resolved(r, n, R, mt, path, k) ==
    /\ IsResult(r) /\ r.mount = mt
    /\ r.st = "OK" => /\ r.id \in NodeIds /\ r.n = node_retain(n, r.id)
                      /\ InTree(n, R, r.id)
                      /\ Walks(n, mt.root, path, Len(mt.target), k, r.id)
    /\ r.st # "OK" => r.n = n /\ r.id = 0

LEMMA ResolveStep ==
    ASSUME NEW n, NEW f, NEW R, NEW M, Good(n, f, R, M, 0), NEW mt, NEW path, NEW k \in Nat,
           NEW r, Resolved(r, n, R, mt, path, k)
    PROVE  Resolved(resolve_component(r, path[Len(mt.target) + (k + 1)]), n, R, mt, path, k + 1)
  <1> DEFINE name == path[Len(mt.target) + (k + 1)]
             v == resolve_component(r, name)
  <1>1. n \in [NodeIds -> Node]
    BY DEF Good, Tree, Typed
  <1>2. CASE r.st # "OK"
    <2>1. v = r
      BY <1>2 DEF resolve_component
    <2> QED
      BY <1>2, <2>1 DEF Resolved
  <1>3. CASE r.st = "OK"
    <2> DEFINE d == r.id
               u == node_retain(n, d)
               next == fs_lookup(r.n, d, name)
    <2>1. d \in NodeIds /\ r.n = u /\ InTree(n, R, d) /\ r.mount = mt
          /\ Walks(n, mt.root, path, Len(mt.target), k, d)
      BY <1>3 DEF Resolved
    <2>2. d \in Heap => n[d].refs # 0
      BY <2>1, LiveRefs
    <2>3. Named(u, d, name) = Named(n, d, name) /\ u[d].type = n[d].type
      BY <1>1, <2>1, RetainShows
    <2>4. v = [n |-> node_release(next.n, d), st |-> next.st, id |-> next.id, mount |-> mt]
      BY <1>3, <2>1 DEF resolve_component, WalkTo
    <2> HIDE DEF d, name
    <2>5. CASE n[d].type # "dir" \/ Named(n, d, name) = {}
      <3>1. next.n = u /\ next.st # "OK" /\ next.id = 0
        BY <2>1, <2>3, <2>5 DEF fs_lookup, Fail
      <3>2. node_release(u, d) = n
        BY <1>1, <2>1, <2>2, ReleaseRetained
      <3> HIDE DEF next, u, v
      <3>3. v.n = n /\ v.st # "OK" /\ v.id = 0 /\ v.mount = mt /\ IsResult(v)
        BY <2>4, <3>1, <3>2 DEF IsResult
      <3> QED
        BY <3>3 DEF Resolved, v, name
    <2>6. CASE n[d].type = "dir" /\ Named(n, d, name) # {}
      <3> DEFINE j == Smallest(Named(n, d, name))
      <3>1. j \in n[d].kids /\ j \in NodeIds /\ n[j].name = name
        BY <1>1, <2>1, <2>6, NamedIs
      <3>2. next.n = node_retain(u, j) /\ next.st = "OK" /\ next.id = j
        BY <2>1, <2>3, <2>6 DEF fs_lookup, Retained, Done
      <3> HIDE DEF j
      <3>3. node_release(node_retain(u, j), d) = node_retain(n, j)
        BY <1>1, <2>1, <2>2, <3>1, ReleasedInOrder
      <3>4. InTree(n, R, j)
        BY <2>1, <3>1 DEF InTree, LinkedIn
      <3>5. Walks(n, mt.root, path, Len(mt.target), k + 1, j)
        BY <2>1, <3>1, WalksOn DEF name
      <3> HIDE DEF next, u, v
      <3>6. v.n = node_retain(n, j) /\ v.st = "OK" /\ v.id = j /\ v.mount = mt /\ IsResult(v)
        BY <2>4, <3>2, <3>3 DEF IsResult
      <3>7. Resolved(v, n, R, mt, path, k + 1)
        BY <3>1, <3>4, <3>5, <3>6 DEF Resolved
      <3> QED
        BY <3>7 DEF v, name
    <2> QED
      BY <2>5, <2>6
  <1> QED
    BY <1>2, <1>3

LEMMA ResolveFrom ==
    ASSUME NEW n, NEW f, NEW R, NEW M, Good(n, f, R, M, 0), NEW mt, NEW path,
           mt.root \in R, Len(path) - Len(mt.target) \in Nat
    PROVE  /\ Resolved(resolve_from(n, mt, path), n, R, mt, path, Len(path) - Len(mt.target))
           /\ Len(path) = Len(mt.target) => resolve_from(n, mt, path).st = "OK"
  <1> DEFINE last == Len(path) - Len(mt.target)
  <1>1. PICK at : /\ resolve_from(n, mt, path) = at[last]
                  /\ at[0] = [n |-> node_retain(n, mt.root), st |-> "OK", id |-> mt.root,
                              mount |-> mt]
                  /\ \A k \in 1..last : at[k] = resolve_component(at[k - 1],
                                                    path[Len(mt.target) + k])
    <2>1. PICK at : WalkTrace(n, mt, path, at)
      BY WalkStates
    <2> QED
      BY <2>1 DEF WalkTrace
  <1>2. mt.root \in NodeIds /\ InTree(n, R, mt.root)
    BY DEF Good, Tree, Rooted, InTree
  <1>3. Walks(n, mt.root, path, Len(mt.target), 0, mt.root)
    BY <1>2, WalksNowhere
  <1>4. Resolved(at[0], n, R, mt, path, 0) /\ at[0].st = "OK"
    BY <1>1, <1>2, <1>3 DEF Resolved, IsResult
  <1> DEFINE Bad == {k \in 0..last : ~Resolved(at[k], n, R, mt, path, k)}
  <1>5. ASSUME NEW k \in 1..last, k - 1 \notin Bad PROVE k \notin Bad
    <2>1. k - 1 \in Nat /\ k - 1 \in 0..last /\ (k - 1) + 1 = k
      OBVIOUS
    <2>2. Resolved(at[k - 1], n, R, mt, path, k - 1)
      BY <1>5, <2>1
    <2>3. Resolved(resolve_component(at[k - 1], path[Len(mt.target) + k]), n, R, mt, path, k)
      <3>1. Resolved(resolve_component(at[k - 1], path[Len(mt.target) + ((k - 1) + 1)]),
                     n, R, mt, path, (k - 1) + 1)
        BY <2>1, <2>2, ResolveStep
      <3> QED
        BY <2>1, <3>1
    <2> QED
      BY <1>1, <2>3
  <1>6. Bad = {}
    <2>1. last \in Nat /\ Bad \subseteq 0..last /\ 0 \notin Bad
      BY <1>4
    <2> HIDE DEF Bad, last
    <2> QED
      BY <1>5, <2>1, Downwards
  <1>7. last \in 0..last
    OBVIOUS
  <1>8. Resolved(at[last], n, R, mt, path, last)
    BY <1>6, <1>7
  <1>9. Len(path) = Len(mt.target) => last = 0
    BY SMT
  <1> QED
    BY <1>1, <1>4, <1>8, <1>9

LEMMA FrontIs ==
    ASSUME NEW path \in Seq(STRING), path # <<>>
    PROVE  /\ Len(path) \in Nat \ {0} /\ Front(path) \in Seq(STRING)
           /\ Len(Front(path)) = Len(path) - 1 /\ Last(path) \in STRING
           /\ \A i \in 1..(Len(path) - 1) : Front(path)[i] = path[i]
  <1>1. Len(path) \in Nat \ {0}
    BY EmptySeq, LenProperties
  <1>2. \A i \in 1..(Len(path) - 1) : path[i] \in STRING
    BY <1>1, ElementOfSeq
  <1>3. /\ SubSeq(path, 1, Len(path) - 1) \in Seq(STRING)
        /\ Len(SubSeq(path, 1, Len(path) - 1))
            = IF 1 <= Len(path) - 1 THEN (Len(path) - 1) - 1 + 1 ELSE 0
        /\ \A i \in 1..((Len(path) - 1) - 1 + 1) :
            SubSeq(path, 1, Len(path) - 1)[i] = path[1 + i - 1]
    BY <1>1, <1>2, SubSeqProperties
  <1>4. Len(path) \in 1..Len(path)
    BY <1>1
  <1>5. Last(path) \in STRING
    BY <1>4, ElementOfSeq DEF Last
  <1> DEFINE u == SubSeq(path, 1, Len(path) - 1)
             q == Len(path)
  <1> HIDE DEF u, q
  <1>6. /\ q \in Nat \ {0} /\ Len(u) = IF 1 <= q - 1 THEN (q - 1) - 1 + 1 ELSE 0
        /\ \A i \in 1..((q - 1) - 1 + 1) : u[i] = path[1 + i - 1]
    BY <1>1, <1>3 DEF u, q
  <1>7. Len(u) = q - 1 /\ \A i \in 1..(q - 1) : u[i] = path[i]
    BY <1>6
  <1> QED
    BY <1>1, <1>3, <1>5, <1>7 DEF Front, u, q

LEMMA PrefixIs ==
    ASSUME NEW s \in Seq(STRING), NEW t \in Seq(STRING)
    PROVE  /\ Len(s) \in Nat /\ Len(t) \in Nat
           /\ IsPrefix(s, t) <=> Len(s) <= Len(t) /\ \A i \in 1..Len(s) : s[i] = t[i]
  <1>1. Len(s) \in Nat /\ Len(t) \in Nat
    BY LenProperties
  <1>2. ASSUME Len(s) <= Len(t)
        PROVE  SubSeq(s, 1, Len(s)) = SubSeq(t, 1, Len(s)) <=> \A i \in 1..Len(s) : s[i] = t[i]
    <2> DEFINE a == SubSeq(s, 1, Len(s))
               b == SubSeq(t, 1, Len(s))
    <2>1. \A i \in 1..Len(s) : s[i] \in STRING /\ t[i] \in STRING
      BY <1>1, <1>2, ElementOfSeq
    <2>2. /\ a \in Seq(STRING) /\ Len(a) = IF 1 <= Len(s) THEN Len(s) - 1 + 1 ELSE 0
          /\ \A i \in 1..(Len(s) - 1 + 1) : a[i] = s[1 + i - 1]
      BY <1>1, <2>1, SubSeqProperties
    <2>3. /\ b \in Seq(STRING) /\ Len(b) = IF 1 <= Len(s) THEN Len(s) - 1 + 1 ELSE 0
          /\ \A i \in 1..(Len(s) - 1 + 1) : b[i] = t[1 + i - 1]
      BY <1>1, <2>1, SubSeqProperties
    <2> HIDE DEF a, b
    <2>4. /\ Len(a) = Len(s) /\ Len(b) = Len(s)
          /\ \A i \in 1..Len(s) : a[i] = s[i] /\ b[i] = t[i]
      BY <1>1, <2>2, <2>3
    <2>5. a = b => \A i \in 1..Len(s) : s[i] = t[i]
      BY <2>4
    <2>6. (\A i \in 1..Len(s) : s[i] = t[i]) => a = b
      <3> SUFFICES ASSUME \A i \in 1..Len(s) : s[i] = t[i] PROVE a = b
        OBVIOUS
      <3>1. Len(a) = Len(b) /\ \A i \in 1..Len(a) : a[i] = b[i]
        BY <2>4
      <3> QED
        BY <2>2, <2>3, <3>1, SeqEqual
    <2> QED
      BY <2>5, <2>6 DEF a, b
  <1> QED
    BY <1>1, <1>2 DEF IsPrefix

Canonical(path) == path \in Seq(STRING) /\ Len(path) <= MaxDepth

LEMMA CanonicalizeIs ==
    ASSUME NEW cwd, Canonical(cwd), NEW p \in Paths
    PROVE  Canonical(ns_vfs_canonicalize(cwd, p).path)
  <1> DEFINE Fine(r) == r = [st |-> r.st, path |-> r.path] /\ Canonical(r.path)
  <1>0. Canonical(<<>>)
    BY VfsAssumption, EmptySeq DEF Canonical
  <1>1. p.names \in Seq(STRING) /\ p.abs \in BOOLEAN
    BY VfsAssumption
  <1>2. ASSUME NEW r, Fine(r), NEW name \in STRING PROVE Fine(consume_component(r, name))
    <2>1. r.path \in Seq(STRING) /\ Len(r.path) <= MaxDepth /\ Len(r.path) \in Nat
      BY <1>2, LenProperties DEF Canonical
    <2>2. Canonical(pop_component(r.path))
      <3>1. CASE r.path = <<>>
        BY <1>2, <3>1 DEF pop_component
      <3>2. CASE r.path # <<>>
        BY <2>1, <3>2, FrontIs, VfsAssumption DEF pop_component, Canonical
      <3> QED
        BY <3>1, <3>2
    <2>3. Fine([r EXCEPT !.path = pop_component(@)])
      <3> DEFINE v == [r EXCEPT !.path = pop_component(@)]
      <3>1. v = [st |-> r.st, path |-> pop_component(r.path)]
        BY <1>2
      <3> HIDE DEF v
      <3>2. Fine(v)
        BY <2>2, <3>1
      <3> QED
        BY <3>2 DEF v
    <2>4. Fine(append_component(r.path, name))
      <3>1. CASE Len(r.path) = MaxDepth
        BY <1>2, <3>1 DEF append_component
      <3>2. CASE Len(r.path) # MaxDepth
        <4>1. Canonical(Append(r.path, name))
          <5>1. Append(r.path, name) \in Seq(STRING) /\ Len(Append(r.path, name)) = Len(r.path) + 1
            BY <2>1, AppendProperties
          <5> QED
            BY <2>1, <3>2, <5>1, VfsAssumption DEF Canonical
        <4> QED
          BY <3>2, <4>1 DEF append_component
      <3> QED
        BY <3>1, <3>2
    <2> HIDE DEF Fine
    <2> QED
      BY <1>2, <2>3, <2>4, Zenon DEF consume_component
  <1>3. ASSUME NEW path, Canonical(path) PROVE Canonical(consume_path(path, p.names).path)
    <2>1. Len(p.names) \in Nat
      BY <1>1, LenProperties
    <2>2. PICK at : ConsumptionTrace(path, p.names, at)
      BY <2>1, ConsumptionStates
    <2>3. /\ consume_path(path, p.names) = at[Len(p.names)]
          /\ at[0] = [st |-> "OK", path |-> path]
          /\ \A k \in 1..Len(p.names) : at[k] = consume_component(at[k - 1], p.names[k])
      BY <2>2 DEF ConsumptionTrace
    <2> DEFINE Bad == {k \in 0..Len(p.names) : ~Fine(at[k])}
    <2>4. 0 \notin Bad
      BY <1>3, <2>3
    <2> HIDE DEF Fine
    <2>5. ASSUME NEW k \in 1..Len(p.names), k - 1 \notin Bad PROVE k \notin Bad
      <3>1. p.names[k] \in STRING
        BY <1>1, ElementOfSeq
      <3>2. k - 1 \in 0..Len(p.names)
        BY <2>1
      <3>3. Fine(at[k - 1])
        BY <2>5, <3>2
      <3> QED
        BY <1>2, <2>3, <3>1, <3>3
    <2>6. Bad = {}
      <3>1. Bad \subseteq 0..Len(p.names)
        OBVIOUS
      <3> HIDE DEF Bad
      <3> QED
        BY <2>1, <2>4, <2>5, <3>1, Downwards
    <2>7. Len(p.names) \in 0..Len(p.names)
      BY <2>1
    <2>8. Fine(at[Len(p.names)])
      BY <2>6, <2>7
    <2> QED
      BY <2>3, <2>8 DEF Fine
  <1> QED
    BY <1>0, <1>3 DEF ns_vfs_canonicalize

\* Some mount is at the root, so there is one with the longest target.
LEMMA SelectMount ==
    ASSUME MountsOK(mounts), \E m \in mounts : m.target = <<>>, NEW path \in Seq(STRING)
    PROVE  LET o == select_mount(path)
           IN  /\ o \in mounts /\ IsPrefix(o.target, path) /\ o.target \in Seq(STRING)
               /\ Len(path) - Len(o.target) \in Nat /\ o.root \in NodeIds
  <1> DEFINE fit == {m \in mounts : mount_matches(m, path)}
             below == {Len(path) - Len(m.target) : m \in fit}
  <1>1. \A m \in mounts : m.target \in Seq(STRING) /\ Len(m.target) \in Nat /\ m.root \in NodeIds
    BY LenProperties, Ids DEF MountsOK, Mount
  <1>2. Len(path) \in Nat
    BY LenProperties
  <1>3. \A m \in fit : Len(path) - Len(m.target) \in Nat
    BY <1>1, <1>2, PrefixIs DEF mount_matches
  <1>4. fit # {}
    <2>1. PICK m \in mounts : m.target = <<>>
      OBVIOUS
    <2>2. Len(m.target) = 0 /\ m.target \in Seq(STRING)
      BY <2>1, EmptySeq
    <2>3. IsPrefix(m.target, path)
      BY <1>2, <2>2, PrefixIs
    <2> QED
      BY <2>3 DEF mount_matches
  <1>5. below \in SUBSET Nat /\ below # {}
    BY <1>3, <1>4
  <1>6. PICK m \in fit : \A o \in fit : Len(path) - Len(m.target) <= Len(path) - Len(o.target)
    <2>1. Smallest(below) \in below /\ \A y \in below : Smallest(below) <= y
      <3> HIDE DEF below
      <3> QED
        BY <1>5, SmallestIs
    <2> QED
      BY <2>1
  <1>7. \A o \in fit : Len(o.target) <= Len(m.target)
    BY <1>1, <1>2, <1>6
  <1> DEFINE sel == CHOOSE o \in fit : \A q \in fit : Len(q.target) <= Len(o.target)
  <1>8. sel \in fit
    <2> HIDE DEF fit
    <2> QED
      BY <1>7
  <1>9. select_mount(path) = sel
    BY DEF select_mount
  <1> HIDE DEF sel
  <1>10. sel \in mounts /\ IsPrefix(sel.target, path)
    BY <1>8 DEF mount_matches
  <1> QED
    BY <1>1, <1>3, <1>8, <1>9, <1>10

MountsUp == MountsOK(mounts) /\ \E m \in mounts : m.target = <<>>

\* A node of the tree, held, or an error with every reference given back.
Holds(r, n, R) ==
    /\ IsResult(r)
    /\ r.st = "OK" => r.id \in NodeIds /\ r.n = node_retain(n, r.id) /\ InTree(n, R, r.id)
    /\ r.st # "OK" => r.n = n /\ r.id = 0

LEMMA ResolveIs ==
    ASSUME MountsUp, NEW n, NEW f, NEW R, NEW M, Good(n, f, R, M, 0), RootsOf(mounts) \subseteq R,
           NEW path \in Seq(STRING)
    PROVE  LET r == resolve_canonical(n, path)
           IN  /\ Holds(r, n, R) /\ r.mount \in mounts
               /\ r.st = "OK" => Arrives(n, r.mount, path, r.id)
               /\ path = <<>> => r.st = "OK"
  <1> DEFINE o == select_mount(path)
             r == resolve_canonical(n, path)
             last == Len(path) - Len(o.target)
  <1>1. /\ o \in mounts /\ IsPrefix(o.target, path) /\ o.target \in Seq(STRING)
        /\ last \in Nat /\ o.root \in NodeIds
    BY SelectMount DEF MountsUp
  <1>2. r = resolve_from(n, o, path)
    BY DEF resolve_canonical
  <1>3. o.root \in R
    BY <1>1 DEF RootsOf
  <1> HIDE DEF o, r
  <1>4. /\ Resolved(r, n, R, o, path, last)
        /\ Len(path) = Len(o.target) => r.st = "OK"
    BY <1>1, <1>2, <1>3, ResolveFrom
  <1>5. path = <<>> => r.st = "OK"
    <2> SUFFICES ASSUME path = <<>> PROVE r.st = "OK"
      OBVIOUS
    <2>1. Len(path) = 0 /\ Len(o.target) \in Nat
      BY <1>1, EmptySeq, LenProperties
    <2>2. Len(o.target) = 0
      BY <1>1, <2>1
    <2> QED
      BY <1>4, <2>1, <2>2
  <1>6. Holds(r, n, R) /\ r.mount \in mounts
    BY <1>1, <1>4 DEF Resolved, Holds
  <1>7. r.st = "OK" => Arrives(n, r.mount, path, r.id)
    BY <1>1, <1>4 DEF Resolved, Arrives
  <1> QED
    BY <1>5, <1>6, <1>7 DEF r

\* A held node, found or made, or an error that changed nothing.
Obtained(r, n, f, R, M) ==
    /\ IsResult(r)
    /\ r.st = "OK" => /\ r.id \in NodeIds /\ Good(r.n, f, R, M, r.id) /\ Grows(n, r.n, R)
                      /\ r.n[r.id].type # "free"
    /\ r.st # "OK" => r.n = n /\ r.id = 0

LEMMA HeldIsObtained ==
    ASSUME NEW n, NEW f, NEW R, NEW M, Good(n, f, R, M, 0), NEW r, Holds(r, n, R)
    PROVE  Obtained(r, n, f, R, M)
  <1>1. CASE r.st = "OK"
    <2>1. r.id \in NodeIds /\ r.n = node_retain(n, r.id) /\ InTree(n, R, r.id)
      BY <1>1 DEF Holds
    <2>2. n[r.id].type # "free"
      BY <2>1, LiveRefs
    <2>3. Good(r.n, f, R, M, r.id) /\ Grows(n, r.n, R)
      BY <2>1, <2>2, RetainGood
    <2>4. r.n[r.id].type # "free"
      BY <2>1, <2>2, RetainShows DEF Good, Tree, Typed
    <2> QED
      BY <1>1, <2>1, <2>3, <2>4 DEF Obtained, Holds
  <1>2. CASE r.st # "OK"
    BY <1>2 DEF Obtained, Holds
  <1> QED
    BY <1>1, <1>2

\* Released again, the node table is what it was.
LEMMA HeldReleased ==
    ASSUME NEW n, NEW f, NEW R, NEW M, Good(n, f, R, M, 0), NEW r, Holds(r, n, R)
    PROVE  node_release(r.n, r.id) = n
  <1>1. CASE r.st = "OK"
    <2>1. r.id \in NodeIds /\ r.n = node_retain(n, r.id) /\ InTree(n, R, r.id)
      BY <1>1 DEF Holds
    <2>2. r.id \in Heap => n[r.id].refs # 0
      BY <2>1, LiveRefs
    <2> QED
      BY <2>1, <2>2, ReleaseRetained DEF Good, Tree, Typed
  <1>2. CASE r.st # "OK"
    <2>1. r.n = n /\ r.id = 0
      BY <1>2 DEF Holds
    <2> QED
      BY <2>1, Ids DEF node_release, Counted
  <1> QED
    BY <1>1, <1>2

LEMMA RefusedIs ==
    ASSUME NEW n, NEW f, NEW R, NEW M, Good(n, f, R, M, 0), NEW r, Holds(r, n, R), NEW code,
           code # "OK"
    PROVE  LET v == Refused(r, code)
           IN  IsResult(v) /\ v.n = n /\ v.st = code /\ v.id = 0 /\ v.mount = r.mount
  <1>1. node_release(r.n, r.id) = n
    BY HeldReleased
  <1>2. IsResult(r)
    BY DEF Holds
  <1> QED
    BY <1>1, <1>2 DEF Refused, IsResult

SameMount(r, q) == r.mount = q.mount

\* A name is made in a directory of the tree, or nothing happens.
LEMMA CreateInIs ==
    ASSUME NEW n, NEW f, NEW R, NEW M, Good(n, f, R, M, 0), NEW parent, Holds(parent, n, R),
           NEW name, parent.st = "OK" => name \in STRING,
           NEW type \in {"dir", "reg", "char"}, NEW oom \in BOOLEAN
    PROVE  LET r == CreateIn(parent, name, type, oom)
           IN  Obtained(r, n, f, R, M) /\ SameMount(r, parent)
  <1> DEFINE r == CreateIn(parent, name, type, oom)
             d == parent.id
             u == node_retain(n, d)
             made == fs_create(parent.n, d, name, type, oom)
  <1>1. n \in [NodeIds -> Node] /\ Tree(n, R) /\ IsResult(parent)
    BY DEF Good, Tree, Typed, Holds
  <1>2. CASE r = parent /\ parent.st # "OK"
    BY <1>2 DEF Obtained, Holds, SameMount
  <1>3. CASE r = Refused(parent, "EROFS")
    <2>1. IsResult(r) /\ r.n = n /\ r.st = "EROFS" /\ r.id = 0 /\ r.mount = parent.mount
      BY <1>3, RefusedIs
    <2> HIDE DEF r
    <2>2. Obtained(r, n, f, R, M)
      BY <2>1 DEF Obtained
    <2> QED
      BY <2>1, <2>2 DEF r, SameMount
  <1>4. CASE /\ parent.st = "OK"
             /\ r = [parent EXCEPT !.n = node_release(made.n, d), !.st = made.st, !.id = made.id]
    <2>1. d \in NodeIds /\ parent.n = u /\ InTree(n, R, d)
      BY <1>4 DEF Holds
    <2>2. n[d].type # "free" /\ (d \in Heap => n[d].refs # 0)
      BY <2>1, LiveRefs
    <2>3. /\ u \in [NodeIds -> Node] /\ Named(u, d, name) = Named(n, d, name)
          /\ FreeOf(u, Heap) = FreeOf(n, Heap) /\ FreeOf(u, NsfsNodes) = FreeOf(n, NsfsNodes)
          /\ u[d].type = n[d].type
      BY <1>1, <2>1, RetainShows
    <2>4. /\ IsResult(r) /\ r.mount = parent.mount /\ r.n = node_release(made.n, d)
          /\ r.st = made.st /\ r.id = made.id
      BY <1>1, <1>4 DEF IsResult
    <2> DEFINE ids == IF d \in Heap THEN FreeOf(n, Heap) ELSE FreeOf(n, NsfsNodes)
               i == Smallest(ids)
               new == NewNode(name, type, IF d \in Heap THEN 2 ELSE 1)
    <2>5. \/ made.n = u /\ made.st # "OK" /\ made.id = 0
          \/ /\ made = Done(PlacedAt(u, d, i, new), i)
             /\ n[d].type = "dir" /\ Named(n, d, name) = {} /\ ids # {}
      <3> HIDE DEF u
      <3>1. CASE d \in Heap
        <4>1. made = ramfs_create(u, d, name, type, oom)
          BY <2>1, <3>1 DEF fs_create, Counted
        <4>2. ids = FreeOf(u, Heap) /\ new = NewNode(name, type, 2)
          BY <2>3, <3>1
        <4> HIDE DEF made, ids, new, r
        <4>3. \/ made \in {Fail(u, "ENOTDIR"), Fail(u, "ENOMEM"), Fail(u, "EEXIST")}
              \/ /\ u[d].type = "dir" /\ FreeOf(u, Heap) # {} /\ Named(u, d, name) = {}
                 /\ made = Placed(u, d, name, type, 2, Smallest(FreeOf(u, Heap)))
          BY <4>1, Zenon DEF ramfs_create
        <4>4. CASE made \in {Fail(u, "ENOTDIR"), Fail(u, "ENOMEM"), Fail(u, "EEXIST")}
          BY <4>4 DEF Fail
        <4>5. CASE /\ u[d].type = "dir" /\ FreeOf(u, Heap) # {} /\ Named(u, d, name) = {}
                   /\ made = Placed(u, d, name, type, 2, Smallest(FreeOf(u, Heap)))
          <5>1. made = Done(PlacedAt(u, d, i, new), i)
            BY <4>2, <4>5 DEF Placed, PlacedAt
          <5> QED
            BY <2>3, <4>2, <4>5, <5>1
        <4> QED
          BY <4>3, <4>4, <4>5
      <3>2. CASE d \notin Heap
        <4>1. made = nsfs_vfs_create(u, d, name, type)
          BY <2>1, <3>2 DEF fs_create, Counted
        <4>2. ids = FreeOf(u, NsfsNodes) /\ new = NewNode(name, type, 1)
          BY <2>3, <3>2
        <4> HIDE DEF made, ids, new, r
        <4>3. \/ made \in {Fail(u, "EINVAL"), Fail(u, "ENOTDIR"), Fail(u, "EEXIST"),
                           Fail(u, "ENOSPC")}
              \/ /\ u[d].type = "dir" /\ FreeOf(u, NsfsNodes) # {} /\ Named(u, d, name) = {}
                 /\ made = Placed(u, d, name, type, 1, Smallest(FreeOf(u, NsfsNodes)))
          BY <4>1, Zenon DEF nsfs_vfs_create
        <4>4. CASE made \in {Fail(u, "EINVAL"), Fail(u, "ENOTDIR"), Fail(u, "EEXIST"),
                             Fail(u, "ENOSPC")}
          BY <4>4 DEF Fail
        <4>5. CASE /\ u[d].type = "dir" /\ FreeOf(u, NsfsNodes) # {} /\ Named(u, d, name) = {}
                   /\ made = Placed(u, d, name, type, 1, Smallest(FreeOf(u, NsfsNodes)))
          <5>1. made = Done(PlacedAt(u, d, i, new), i)
            BY <4>2, <4>5 DEF Placed, PlacedAt
          <5> QED
            BY <2>3, <4>2, <4>5, <5>1
        <4> QED
          BY <4>3, <4>4, <4>5
      <3> QED
        BY <3>1, <3>2
    <2> HIDE DEF r, made
    <2>6. CASE made.n = u /\ made.st # "OK" /\ made.id = 0
      <3>1. node_release(u, d) = n
        BY <1>1, <2>1, <2>2, ReleaseRetained
      <3>2. r.n = n /\ r.st # "OK" /\ r.id = 0
        BY <2>4, <2>6, <3>1
      <3> QED
        BY <2>4, <3>2 DEF Obtained, r, SameMount
    <2>7. CASE /\ made = Done(PlacedAt(u, d, i, new), i)
               /\ n[d].type = "dir" /\ Named(n, d, name) = {} /\ ids # {}
      <3> DEFINE w == PlacedAt(n, d, i, new)
      <3>1. /\ new \in Node /\ Sound(new) /\ new.name = name /\ new.type = type
            /\ new.refs = (IF d \in Heap THEN 2 ELSE 1) /\ new.kids = {}
        <4> DEFINE refs == IF d \in Heap THEN 2 ELSE 1
        <4>1. refs \in Nat /\ name \in Name /\ type \in {"free", "dir", "reg", "char"}
          BY <1>4 DEF Name
        <4>2. new = NewNode(name, type, refs)
          OBVIOUS
        <4> HIDE DEF refs, new
        <4>3. /\ new \in Node /\ Sound(new) /\ new.name = name /\ new.type = type
              /\ new.refs = refs /\ new.kids = {}
          BY <4>1, <4>2, NewNodeIs
        <4> QED
          BY <4>3 DEF refs
      <3>2. i \in NodeIds /\ n[i].type = "free" /\ (i \in Heap <=> d \in Heap)
        <4>1. ids \in SUBSET NodeIds /\ (\A j \in ids : n[j].type = "free")
              /\ \A j \in ids : j \in Heap <=> d \in Heap
          BY <2>1, Ids DEF FreeOf
        <4>2. ids \in SUBSET Nat
          BY <4>1, Ids
        <4> HIDE DEF ids
        <4>3. i \in ids
          BY <2>7, <4>2, SmallestIs
        <4> QED
          BY <4>1, <4>3
      <3>3. i # d
        BY <2>7, <3>2
      <3>4. \A k \in n[d].kids : n[k].name # new.name
        BY <2>7, <3>1 DEF Named
      <3> HIDE DEF i, new
      <3>5. PlacedAt(u, d, i, new) = node_retain(w, d)
        BY <1>1, <2>1, <3>1, <3>2, <3>3, RetainPlaced
      <3>6. w \in [NodeIds -> Node] /\ w[d].refs = n[d].refs /\ w[i] = new
        <4>1. IsPlaced(w, n, d, i, new)
          BY <1>1, <2>1, <3>1, <3>2, <3>3, PlacedIs
        <4> HIDE DEF w
        <4> QED
          BY <4>1 DEF IsPlaced
      <3>7. Good(w, f, R, M, i) /\ Grows(n, w, R)
        <4>1. IF i \in Heap THEN new.refs = 1 + One(i = i) ELSE new.refs <= 1
          BY <3>1, <3>2 DEF One
        <4>2. new.type # "free" /\ i \in {0, i}
          BY <3>1
        <4> HIDE DEF w
        <4> QED
          BY <2>1, <2>7, <3>1, <3>2, <3>4, <4>1, <4>2, PlacedGood DEF w
      <3> HIDE DEF w
      <3>8. node_release(node_retain(w, d), d) = w
        BY <2>1, <2>2, <3>6, ReleaseRetained
      <3>9. r.n = w /\ r.st = "OK" /\ r.id = i
        BY <2>4, <2>7, <3>5, <3>8 DEF Done
      <3>10. w[i].type # "free"
        BY <3>1, <3>6
      <3>11. Obtained(r, n, f, R, M)
        BY <2>4, <3>2, <3>7, <3>9, <3>10 DEF Obtained
      <3> QED
        BY <2>4, <3>11 DEF r, SameMount
    <2> QED
      BY <2>5, <2>6, <2>7
  <1>5. \/ r = parent /\ parent.st # "OK"
        \/ r = Refused(parent, "EROFS")
        \/ /\ parent.st = "OK"
           /\ r = [parent EXCEPT !.n = node_release(made.n, d), !.st = made.st, !.id = made.id]
    <2> DEFINE last == [parent EXCEPT !.n = node_release(made.n, d), !.st = made.st,
                                      !.id = made.id]
    <2>1. r = CASE parent.st # "OK" -> parent
                [] parent.mount.ro -> Refused(parent, "EROFS")
                [] OTHER -> last
      BY DEF CreateIn
    <2> HIDE DEF last, r
    <2>2. \/ r = parent /\ parent.st # "OK"
          \/ r = Refused(parent, "EROFS")
          \/ parent.st = "OK" /\ r = last
      BY <2>1
    <2> QED
      BY <2>2 DEF last
  <1> QED
    BY <1>2, <1>3, <1>4, <1>5 DEF SameMount

LEMMA SplitIs ==
    ASSUME MountsUp, NEW n, NEW f, NEW R, NEW M, Good(n, f, R, M, 0), RootsOf(mounts) \subseteq R,
           NEW path \in Seq(STRING)
    PROVE  LET r == split_parent(n, path)
           IN  /\ Holds(r, n, R)
               /\ r.st = "OK" => /\ path # <<>> /\ r.mount \in mounts
                                 /\ Arrives(n, r.mount, Front(path), r.id)
  <1>1. CASE path = <<>>
    BY <1>1 DEF split_parent, Holds, IsResult
  <1>2. CASE path # <<>>
    <2> DEFINE r == resolve_canonical(n, Front(path))
    <2>1. split_parent(n, path) = r
      BY <1>2 DEF split_parent
    <2>2. Front(path) \in Seq(STRING)
      BY <1>2, FrontIs
    <2>3. Holds(r, n, R) /\ r.mount \in mounts
          /\ (r.st = "OK" => Arrives(n, r.mount, Front(path), r.id))
      BY <2>2, ResolveIs
    <2> QED
      BY <1>2, <2>1, <2>3
  <1> QED
    BY <1>1, <1>2

LEMMA CreateAtIs ==
    ASSUME MountsUp, NEW n, NEW f, NEW R, NEW M, Good(n, f, R, M, 0), RootsOf(mounts) \subseteq R,
           NEW path \in Seq(STRING), NEW type \in {"dir", "reg", "char"}, NEW oom \in BOOLEAN
    PROVE  LET r == CreateAt(n, path, type, oom)
           IN  Obtained(r, n, f, R, M) /\ (r.st = "OK" => r.mount \in mounts)
  <1> DEFINE parent == split_parent(n, path)
             r == CreateIn(parent, Last(path), type, oom)
  <1>1. Holds(parent, n, R) /\ (parent.st = "OK" => path # <<>> /\ parent.mount \in mounts)
    BY SplitIs
  <1>2. parent.st = "OK" => Last(path) \in STRING
    BY <1>1, FrontIs
  <1> HIDE DEF parent
  <1>3. Obtained(r, n, f, R, M) /\ r.mount = parent.mount
    <2>1. Obtained(r, n, f, R, M)
      BY <1>1, <1>2, CreateInIs
    <2>2. SameMount(r, parent)
      BY <1>1, <1>2, CreateInIs
    <2> QED
      BY <2>1, <2>2 DEF SameMount
  <1>4. parent.st # "OK" => r.st # "OK"
    <2> DEFINE last == LET Made(q) == [parent EXCEPT !.n = node_release(q.n, parent.id),
                                                     !.st = q.st, !.id = q.id]
                       IN  Made(fs_create(parent.n, parent.id, Last(path), type, oom))
    <2>1. r = CASE parent.st # "OK" -> parent
                [] parent.mount.ro -> Refused(parent, "EROFS")
                [] OTHER -> last
      BY DEF CreateIn
    <2>2. Refused(parent, "EROFS").st = "EROFS"
      BY <1>1, RefusedIs
    <2> HIDE DEF last, r
    <2>3. parent.st # "OK" => r = parent \/ r = Refused(parent, "EROFS")
      BY <2>1
    <2> QED
      BY <2>2, <2>3
  <1> HIDE DEF r
  <1>5. r.st = "OK" => r.mount \in mounts
    BY <1>1, <1>3, <1>4
  <1> QED
    BY <1>3, <1>5 DEF CreateAt, parent, r

----------------------------------------------------------------------------
\* A node of the tree is at one path only, so what is unlinked covers no mount.

Chain(n, g, k) ==
    g \in [0..k -> NodeIds] /\ \A j \in 1..k : g[j] \in n[g[j - 1]].kids

LEMMA SameWalk ==
    ASSUME NEW n, NEW R, Tree(n, R), NEW k \in Nat, NEW l \in Nat, k <= l,
           NEW g, NEW h, Chain(n, g, k), Chain(n, h, l), g[0] \in R, g[k] = h[l]
    PROVE  k = l /\ \A j \in 0..k : g[j] = h[j]
  <1>0. /\ g \in [0..k -> NodeIds] /\ \A j \in 1..k : g[j] \in n[g[j - 1]].kids
        /\ h \in [0..l -> NodeIds] /\ \A j \in 1..l : h[j] \in n[h[j - 1]].kids
    BY DEF Chain
  <1> DEFINE Bad == {j \in 0..k : g[k - j] # h[l - j]}
  <1>1. 0 \notin Bad
    OBVIOUS
  <1>2. ASSUME NEW j \in 1..k, j - 1 \notin Bad PROVE j \notin Bad
    <2>1. /\ j - 1 \in 0..k /\ k - (j - 1) \in 1..k /\ l - (j - 1) \in 1..l
          /\ (k - (j - 1)) - 1 = k - j /\ (l - (j - 1)) - 1 = l - j
          /\ k - j \in 0..k /\ l - j \in 0..l /\ k - (j - 1) \in 0..k
      OBVIOUS
    <2>2. g[k - (j - 1)] = h[l - (j - 1)]
      BY <1>2, <2>1
    <2>3. g[k - (j - 1)] \in n[g[k - j]].kids /\ h[l - (j - 1)] \in n[h[l - j]].kids
      BY <1>0, <2>1
    <2>4. g[k - j] \in NodeIds /\ h[l - j] \in NodeIds /\ g[k - (j - 1)] \in NodeIds
      BY <1>0, <2>1
    <2>5. g[k - j] = h[l - j]
      BY <2>2, <2>3, <2>4 DEF Tree, Kin
    <2> QED
      BY <2>5
  <1>3. Bad = {}
    <2>1. Bad \subseteq 0..k
      OBVIOUS
    <2> HIDE DEF Bad
    <2> QED
      BY <1>1, <1>2, <2>1, Downwards
  <1>4. \A j \in 0..k : g[k - j] = h[l - j]
    BY <1>3
  <1>5. k = l
    <2> SUFFICES ASSUME k # l PROVE FALSE
      OBVIOUS
    <2>1. k \in 0..k /\ k - k = 0 /\ l - k \in 1..l /\ (l - k) - 1 \in 0..l
      OBVIOUS
    <2>2. g[0] = h[l - k]
      BY <1>4, <2>1
    <2>3. h[l - k] \in n[h[(l - k) - 1]].kids /\ h[(l - k) - 1] \in NodeIds
      BY <1>0, <2>1
    <2>4. LinkedIn(n, g[0])
      BY <2>2, <2>3 DEF LinkedIn
    <2> QED
      BY <2>4 DEF Tree, Rooted
  <1>6. ASSUME NEW j \in 0..k PROVE g[j] = h[j]
    <2>1. k - j \in 0..k /\ k - (k - j) = j /\ l - (k - j) = j
      BY <1>5
    <2>2. g[k - (k - j)] = h[l - (k - j)]
      BY <1>4, <2>1
    <2> QED
      BY <2>1, <2>2
  <1> QED
    BY <1>5, <1>6

SameNames(p, s, q, t, k) == \A j \in 1..k : p[s + j] = q[t + j]

LEMMA WalksSame ==
    ASSUME NEW n, NEW R, Tree(n, R), NEW a \in R, NEW b \in R, NEW p, NEW q,
           NEW s, NEW t, NEW k, NEW l, NEW i, {s, t, k, l} \subseteq Nat,
           Walks(n, a, p, s, k, i), Walks(n, b, q, t, l, i)
    PROVE  a = b /\ k = l /\ SameNames(p, s, q, t, k)
  <1>0. s \in Nat /\ t \in Nat /\ k \in Nat /\ l \in Nat
    OBVIOUS
  <1>1. PICK g \in [0..k -> NodeIds] :
            /\ g[0] = a /\ g[k] = i
            /\ \A j \in 1..k : g[j] \in n[g[j - 1]].kids /\ n[g[j]].name = p[s + j]
    BY DEF Walks
  <1>2. PICK h \in [0..l -> NodeIds] :
            /\ h[0] = b /\ h[l] = i
            /\ \A j \in 1..l : h[j] \in n[h[j - 1]].kids /\ n[h[j]].name = q[t + j]
    BY DEF Walks
  <1>3. k = l /\ \A j \in 0..k : g[j] = h[j]
    <2>0. /\ Chain(n, g, k) /\ Chain(n, h, l)
          /\ g[0] \in R /\ h[0] \in R /\ g[k] = h[l]
      BY <1>1, <1>2 DEF Chain
    <2>1. CASE k <= l
      BY <1>0, <2>0, <2>1, SameWalk
    <2>2. CASE l <= k
      <3>1. l = k /\ \A j \in 0..l : h[j] = g[j]
        BY <1>0, <2>0, <2>2, SameWalk
      <3> QED
        BY <3>1
    <2> QED
      BY <1>0, <2>1, <2>2
  <1>4. 0 \in 0..k /\ \A j \in 1..k : j \in 0..k
    BY <1>0
  <1> QED
    BY <1>1, <1>2, <1>3, <1>4 DEF SameNames

LEMMA ArrivesSame ==
    ASSUME MountsOK(mounts), NEW n, NEW R, Tree(n, R), RootsOf(mounts) \subseteq R,
           NEW o \in mounts, NEW m \in mounts, NEW p \in Seq(STRING), NEW q \in Seq(STRING), NEW i,
           Arrives(n, o, p, i), Arrives(n, m, q, i)
    PROVE  o = m /\ p = q
  <1>1. /\ o.target \in Seq(STRING) /\ m.target \in Seq(STRING) /\ o.root \in R /\ m.root \in R
        /\ Len(o.target) \in Nat /\ Len(m.target) \in Nat /\ Len(p) \in Nat /\ Len(q) \in Nat
    BY LenProperties, Ids DEF MountsOK, Mount, RootsOf
  <1>2. /\ Len(o.target) <= Len(p) /\ \A j \in 1..Len(o.target) : o.target[j] = p[j]
        /\ Len(m.target) <= Len(q) /\ \A j \in 1..Len(m.target) : m.target[j] = q[j]
    BY <1>1, PrefixIs DEF Arrives
  <1> DEFINE k == Len(p) - Len(o.target)
             l == Len(q) - Len(m.target)
  <1>3. k \in Nat /\ l \in Nat
    BY <1>1, <1>2
  <1>4. Walks(n, o.root, p, Len(o.target), k, i) /\ Walks(n, m.root, q, Len(m.target), l, i)
    BY DEF Arrives
  <1> HIDE DEF k, l
  <1>5. /\ o.root = m.root /\ k = l
        /\ \A j \in 1..k : p[Len(o.target) + j] = q[Len(m.target) + j]
    <2> DEFINE a == o.root
               b == m.root
               s == Len(o.target)
               t == Len(m.target)
    <2>1. a \in R /\ b \in R /\ s \in Nat /\ t \in Nat /\ k \in Nat /\ l \in Nat
      BY <1>1, <1>3
    <2>2. Walks(n, a, p, s, k, i)
      BY <1>4
    <2>3. Walks(n, b, q, t, l, i)
      BY <1>4
    <2> HIDE DEF a, b, s, t
    <2>4. {s, t, k, l} \subseteq Nat
      BY <2>1
    <2>5. a = b /\ k = l /\ SameNames(p, s, q, t, k)
      BY <2>1, <2>2, <2>3, <2>4, WalksSame
    <2> QED
      BY <2>5 DEF SameNames, a, b, s, t
  <1>6. o = m
    BY <1>5 DEF MountsOK
  <1>7. Len(p) = Len(q)
    BY <1>1, <1>5, <1>6 DEF k, l
  <1>8. ASSUME NEW j \in 1..Len(p) PROVE p[j] = q[j]
    <2>1. CASE j <= Len(o.target)
      BY <1>1, <1>2, <1>6, <2>1
    <2>2. CASE ~(j <= Len(o.target))
      <3>1. j - Len(o.target) \in 1..k /\ Len(o.target) + (j - Len(o.target)) = j
        BY <1>1, <2>2 DEF k
      <3> QED
        BY <1>5, <1>6, <3>1
    <2> QED
      BY <2>1, <2>2
  <1> QED
    BY <1>6, <1>7, <1>8, SeqEqual

LEMMA PrefixNat ==
    ASSUME NEW s \in Seq(STRING), NEW t \in Seq(STRING), IsPrefix(s, t)
    PROVE  Len(s) \in Nat /\ Len(t) \in Nat /\ Len(t) - Len(s) \in Nat
  BY PrefixIs

LEMMA ArrivesIn ==
    ASSUME NEW ms, MountsOK(ms), NEW n, NEW R, Tree(n, R), RootsOf(ms) \subseteq R,
           NEW o \in ms, NEW path \in Seq(STRING), NEW i, Arrives(n, o, path, i)
    PROVE  /\ i \in NodeIds /\ InTree(n, R, i) /\ o.root \in R
           /\ i \in RootsOf(ms) \/ LinkedIn(n, i)
  <1>1. o.target \in Seq(STRING) /\ o.root \in R /\ o.root \in RootsOf(ms)
    BY DEF MountsOK, Mount, RootsOf
  <1> DEFINE last == Len(path) - Len(o.target)
  <1>2. last \in Nat
    BY <1>1, PrefixNat DEF Arrives
  <1>3. Walks(n, o.root, path, Len(o.target), last, i)
    BY DEF Arrives
  <1> HIDE DEF last
  <1>4. i \in NodeIds /\ InTree(n, R, i) /\ (last = 0 => i = o.root)
        /\ (last # 0 => LinkedIn(n, i))
    BY <1>1, <1>2, <1>3, WalksIn
  <1> QED
    BY <1>1, <1>4

LEMMA AnchoredGrows ==
    ASSUME NEW ms, MountsOK(ms), NEW n, NEW u, NEW R, Tree(n, R), RootsOf(ms) \subseteq R,
           Grows(n, u, R), Anchored(n, ms)
    PROVE  Anchored(u, ms)
  <1> SUFFICES ASSUME NEW m \in ms, m.target # <<>>
               PROVE  u[m.covered].type = "dir"
                      /\ \E o \in ms : Arrives(u, o, m.target, m.covered)
    BY DEF Anchored
  <1>1. n[m.covered].type = "dir" /\ m.target \in Seq(STRING)
    BY DEF Anchored, MountsOK, Mount
  <1>2. PICK o \in ms : Arrives(n, o, m.target, m.covered)
    BY DEF Anchored
  <1>3. m.covered \in NodeIds /\ InTree(n, R, m.covered) /\ o.root \in R
    BY <1>1, <1>2, ArrivesIn
  <1>4. o.target \in Seq(STRING) /\ IsPrefix(o.target, m.target)
    BY <1>2 DEF MountsOK, Mount, Arrives
  <1>5. Walks(u, o.root, m.target, Len(o.target), Len(m.target) - Len(o.target), m.covered)
    <2> DEFINE last == Len(m.target) - Len(o.target)
    <2>1. last \in Nat
      BY <1>1, <1>4, PrefixNat
    <2>2. Walks(n, o.root, m.target, Len(o.target), last, m.covered)
      BY <1>2 DEF Arrives
    <2> HIDE DEF last
    <2>3. Walks(u, o.root, m.target, Len(o.target), last, m.covered)
      BY <1>3, <2>1, <2>2, WalksGrow
    <2> QED
      BY <2>3 DEF last
  <1> QED
    BY <1>1, <1>3, <1>4, <1>5 DEF Grows, Arrives

LEMMA WalksShrink ==
    ASSUME NEW n, NEW u, NEW R, Tree(n, R), NEW x \in NodeIds, Shrinks(n, u, R, x), n[x].kids = {},
           LinkedIn(n, x), NEW root \in R, NEW path, NEW from, NEW last \in Nat, NEW i,
           Walks(n, root, path, from, last, i), i # x
    PROVE  Walks(u, root, path, from, last, i)
  <1>1. PICK g \in [0..last -> NodeIds] :
            /\ g[0] = root /\ g[last] = i
            /\ \A k \in 1..last : g[k] \in n[g[k - 1]].kids /\ n[g[k]].name = path[from + k]
    BY DEF Walks
  <1>2. ASSUME NEW k \in 1..last
        PROVE  g[k] \in u[g[k - 1]].kids /\ u[g[k]].name = path[from + k]
    <2>1. g[k] \in NodeIds /\ g[k - 1] \in NodeIds
      BY <1>1
    <2>2. g[k] \in n[g[k - 1]].kids /\ n[g[k]].name = path[from + k]
      BY <1>1
    <2>3. InTree(n, R, g[k]) /\ InTree(n, R, g[k - 1])
      BY <2>1, <2>2 DEF InTree, LinkedIn, Tree, Rooted
    <2>4. g[k - 1] # x
      BY <2>2
    <2>5. g[k] # x
      <3>1. CASE k = last
        BY <1>1, <3>1
      <3>2. CASE k # last
        <4>1. k + 1 \in 1..last /\ (k + 1) - 1 = k
          BY <3>2
        <4>2. g[k + 1] \in n[g[k]].kids
          BY <1>1, <4>1
        <4> QED
          BY <4>2
      <3> QED
        BY <3>1, <3>2
    <2> QED
      BY <2>1, <2>2, <2>3, <2>4, <2>5 DEF Shrinks
  <1> QED
    BY <1>1, <1>2 DEF Walks

LEMMA AnchoredShrinks ==
    ASSUME MountsOK(mounts), NEW n, NEW u, NEW R, Tree(n, R), RootsOf(mounts) \subseteq R,
           NEW x \in NodeIds, Shrinks(n, u, R, x), n[x].kids = {}, LinkedIn(n, x),
           Anchored(n, mounts), \A m \in mounts : m.target # <<>> => m.covered # x
    PROVE  Anchored(u, mounts)
  <1> SUFFICES ASSUME NEW m \in mounts, m.target # <<>>
               PROVE  u[m.covered].type = "dir"
                      /\ \E o \in mounts : Arrives(u, o, m.target, m.covered)
    BY DEF Anchored
  <1>1. n[m.covered].type = "dir" /\ m.target \in Seq(STRING) /\ m.covered # x
    BY DEF Anchored, MountsOK, Mount
  <1>2. PICK o \in mounts : Arrives(n, o, m.target, m.covered)
    BY DEF Anchored
  <1>3. m.covered \in NodeIds /\ InTree(n, R, m.covered) /\ o.root \in R
    BY <1>1, <1>2, ArrivesIn
  <1>4. o.target \in Seq(STRING) /\ IsPrefix(o.target, m.target)
    BY <1>2 DEF MountsOK, Mount, Arrives
  <1>5. Walks(u, o.root, m.target, Len(o.target), Len(m.target) - Len(o.target), m.covered)
    <2> DEFINE last == Len(m.target) - Len(o.target)
    <2>1. last \in Nat
      BY <1>1, <1>4, PrefixNat
    <2>2. Walks(n, o.root, m.target, Len(o.target), last, m.covered)
      BY <1>2 DEF Arrives
    <2> HIDE DEF last
    <2>3. Walks(u, o.root, m.target, Len(o.target), last, m.covered)
      BY <1>1, <1>3, <2>1, <2>2, WalksShrink
    <2> QED
      BY <2>3 DEF last
  <1> QED
    BY <1>1, <1>3, <1>4, <1>5 DEF Shrinks, Arrives

\* The entry Last(path) of the directory at Front(path) is at path.
LEMMA ArrivesOn ==
    ASSUME MountsOK(mounts), NEW n, NEW R, Tree(n, R), RootsOf(mounts) \subseteq R,
           NEW o \in mounts, NEW path \in Seq(STRING), path # <<>>, NEW d,
           Arrives(n, o, Front(path), d), NEW i \in NodeIds, i \in n[d].kids,
           n[i].name = Last(path)
    PROVE  Arrives(n, o, path, i)
  <1>1. /\ Len(path) \in Nat \ {0} /\ Front(path) \in Seq(STRING)
        /\ Len(Front(path)) = Len(path) - 1
        /\ \A j \in 1..(Len(path) - 1) : Front(path)[j] = path[j]
    BY FrontIs
  <1>2. o.target \in Seq(STRING) /\ IsPrefix(o.target, Front(path)) /\ Len(o.target) \in Nat
    BY LenProperties DEF MountsOK, Mount, Arrives
  <1>3. /\ Len(o.target) <= Len(path) - 1
        /\ \A j \in 1..Len(o.target) : o.target[j] = Front(path)[j]
    BY <1>1, <1>2, PrefixIs
  <1>4. IsPrefix(o.target, path)
    <2>1. Len(o.target) <= Len(path) /\ \A j \in 1..Len(o.target) : o.target[j] = path[j]
      BY <1>1, <1>2, <1>3
    <2> QED
      BY <1>2, <2>1, PrefixIs
  <1>5. d \in NodeIds
    BY <1>1, ArrivesIn
  <1>6. PICK g \in [0..(Len(Front(path)) - Len(o.target)) -> NodeIds] :
            /\ g[0] = o.root /\ g[Len(Front(path)) - Len(o.target)] = d
            /\ \A k \in 1..(Len(Front(path)) - Len(o.target)) :
                g[k] \in n[g[k - 1]].kids /\ n[g[k]].name = Front(path)[Len(o.target) + k]
    BY DEF Arrives, Walks
  <1> DEFINE last == Len(Front(path)) - Len(o.target)
             t == Len(o.target)
  <1>7. last \in Nat /\ Len(path) - t = last + 1 /\ t + (last + 1) = Len(path) /\ t \in Nat
    BY <1>1, <1>2, <1>3
  <1>8. /\ g \in [0..last -> NodeIds] /\ g[0] = o.root /\ g[last] = d
        /\ \A k \in 1..last : g[k] \in n[g[k - 1]].kids /\ n[g[k]].name = Front(path)[t + k]
    BY <1>6
  <1>9. \A k \in 1..last : Front(path)[t + k] = path[t + k]
    <2> HIDE DEF last, t
    <2>1. ASSUME NEW k \in 1..last PROVE t + k \in 1..(Len(path) - 1)
      BY <1>1, <1>7
    <2> QED
      BY <1>1, <2>1
  <1> HIDE DEF last, t
  <1>10. Walks(n, o.root, path, t, last, d)
    BY <1>8, <1>9 DEF Walks
  <1>11. n[i].name = path[t + (last + 1)]
    BY <1>7 DEF Last
  <1>12. Walks(n, o.root, path, t, last + 1, i)
    BY <1>5, <1>7, <1>10, <1>11, WalksOn
  <1>13. Walks(n, o.root, path, Len(o.target), Len(path) - Len(o.target), i)
    BY <1>7, <1>12 DEF t
  <1> QED
    BY <1>4, <1>13 DEF Arrives

LEMMA UnlinkInIs ==
    ASSUME MountsUp, NEW n, NEW f, NEW R, NEW M, Good(n, f, R, M, 0), RootsOf(mounts) \subseteq R,
           NEW path \in Seq(STRING), NEW rmdir \in BOOLEAN, ~path_is_mount_target(path, rmdir),
           Anchored(n, mounts)
    PROVE  LET u == UnlinkIn(split_parent(n, path), Last(path), rmdir)
           IN  Good(u, f, R, M, 0) /\ Anchored(u, mounts)
  <1> DEFINE r == split_parent(n, path)
             d == r.id
             u == UnlinkIn(r, Last(path), rmdir)
  <1>1. /\ Holds(r, n, R)
        /\ r.st = "OK" => /\ path # <<>> /\ r.mount \in mounts
                          /\ Arrives(n, r.mount, Front(path), r.id)
    BY SplitIs
  <1>2. node_release(r.n, r.id) = n
    BY <1>1, HeldReleased
  <1> HIDE DEF r
  <1>3. \/ u = n
        \/ r.st = "OK" /\ u = node_release(fs_unlink(r.n, r.id, Last(path), rmdir), r.id)
    <2> DEFINE last == node_release(fs_unlink(r.n, r.id, Last(path), rmdir), r.id)
    <2>1. r.st # "OK" => r.n = n
      BY <1>1 DEF Holds
    <2>2. u = CASE r.st # "OK" -> r.n
                [] r.mount.ro -> node_release(r.n, r.id)
                [] OTHER -> last
      BY DEF UnlinkIn
    <2> HIDE DEF last, u
    <2>3. u = n \/ (r.st = "OK" /\ u = last)
      BY <1>2, <2>1, <2>2
    <2> QED
      BY <2>3 DEF last
  <1>4. CASE r.st = "OK" /\ u = node_release(fs_unlink(r.n, r.id, Last(path), rmdir), r.id)
    <2>1. d \in NodeIds /\ r.n = node_retain(n, d) /\ InTree(n, R, d)
      BY <1>1, <1>4 DEF Holds
    <2>2. n[d].type # "free" /\ n \in [NodeIds -> Node] /\ Tree(n, R)
      BY <2>1, LiveRefs DEF Good, Tree, Typed
    <2>3. u = fs_unlink(n, d, Last(path), rmdir)
      BY <1>4, <2>1, <2>2, UnlinkHeld
    <2> HIDE DEF u, d
    <2>4. CASE UnlinkStatus(n, d, Last(path), rmdir) # "OK"
      <3>1. u = n
        BY <2>3, <2>4 DEF fs_unlink
      <3> QED
        BY <3>1 DEF u, r
    <2>5. CASE UnlinkStatus(n, d, Last(path), rmdir) = "OK"
      <3> DEFINE x == Smallest(Named(n, d, Last(path)))
      <3>1. /\ x \in n[d].kids /\ x \in NodeIds /\ n[x].name = Last(path) /\ n[x].kids = {}
            /\ Good(u, f, R, M, 0) /\ Shrinks(n, u, R, x)
        BY <2>1, <2>3, <2>5, UnlinkOne
      <3> HIDE DEF x
      <3>2. Arrives(n, r.mount, path, x)
        BY <1>1, <1>4, <2>2, <3>1, ArrivesOn DEF MountsUp, d
      <3>3. ASSUME NEW m \in mounts, m.target # <<>> PROVE m.covered # x
        <4>1. m.target \in Seq(STRING)
          BY DEF MountsUp, MountsOK, Mount
        <4>2. PICK o \in mounts : Arrives(n, o, m.target, m.covered)
          BY <3>3 DEF Anchored
        <4>3. SUFFICES ASSUME m.covered = x PROVE FALSE
          OBVIOUS
        <4>4. r.mount \in mounts /\ Arrives(n, o, m.target, x)
          BY <1>1, <1>4, <4>2, <4>3
        <4>5. path = m.target
          BY <2>2, <3>2, <4>1, <4>4, ArrivesSame DEF MountsUp
        <4> QED
          BY <4>5 DEF path_is_mount_target
      <3>4. LinkedIn(n, x)
        BY <2>1, <3>1 DEF LinkedIn
      <3>5. Anchored(u, mounts)
        BY <2>2, <3>1, <3>3, <3>4, AnchoredShrinks DEF MountsUp
      <3> QED
        BY <3>1, <3>5 DEF u, r
    <2> QED
      BY <2>4, <2>5
  <1> QED
    BY <1>3, <1>4 DEF r

LEMMA UnlinkedIs ==
    ASSUME MountsUp, NEW n, NEW f, NEW R, NEW M, Good(n, f, R, M, 0), RootsOf(mounts) \subseteq R,
           NEW path \in Seq(STRING), NEW slash \in BOOLEAN, NEW rmdir \in BOOLEAN,
           Anchored(n, mounts)
    PROVE  LET u == Unlinked(n, path, slash, rmdir)
           IN  Good(u, f, R, M, 0) /\ Anchored(u, mounts)
  <1> DEFINE u == Unlinked(n, path, slash, rmdir)
             s == resolve_canonical(n, path)
             w == UnlinkIn(split_parent(n, path), Last(path), rmdir)
  <1>1. CASE path_is_mount_target(path, rmdir)
    BY <1>1 DEF Unlinked
  <1>2. CASE ~path_is_mount_target(path, rmdir)
    <2>1. Good(w, f, R, M, 0) /\ Anchored(w, mounts)
      BY <1>2, UnlinkInIs
    <2>2. Holds(s, n, R)
      BY ResolveIs
    <2>3. node_release(s.n, s.id) = n /\ (s.st # "OK" => s.n = n)
      BY <2>2, HeldReleased DEF Holds
    <2>4. UnlinkSuffixed(s, path, rmdir) \in {n, w}
      <3> HIDE DEF s
      <3>1. UnlinkSuffixed(s, path, rmdir)
                = CASE s.st # "OK" -> s.n
                    [] s.n[s.id].type # "dir" -> node_release(s.n, s.id)
                    [] OTHER -> w
        BY <2>3, Zenon DEF UnlinkSuffixed
      <3> HIDE DEF w
      <3> QED
        BY <2>3, <3>1
    <2>5. u \in {n, w}
      BY <1>2, <2>4 DEF Unlinked
    <2> HIDE DEF u, w
    <2> QED
      BY <2>1, <2>5 DEF u
  <1> QED
    BY <1>1, <1>2

----------------------------------------------------------------------------
\* Buffers and contents.

LEMMA DoubledIs ==
    ASSUME NEW start \in Nat \ {0}, NEW required \in Nat
    PROVE  DoubledUpTo(start, required) \in Nat /\ DoubledUpTo(start, required) >= required
           /\ DoubledUpTo(start, required) >= start
  <1>1. PICK c : DoublingTrace(start, required, c)
    BY DoublingStates
  <1>2. /\ DoubledUpTo(start, required) = c[required] /\ c[0] = start
        /\ \A k \in 1..required : c[k] = Doubled(c[k - 1], required)
    BY <1>1 DEF DoublingTrace
  <1> DEFINE Fine(k) == c[k] \in Nat /\ c[k] >= start /\ (c[k] >= required \/ c[k] >= k + 1)
             Bad == {k \in 0..required : ~Fine(k)}
  <1>3. 0 \notin Bad
    BY <1>2
  <1>4. ASSUME NEW k \in 1..required, k - 1 \notin Bad PROVE k \notin Bad
    <2>1. k - 1 \in 0..required
      OBVIOUS
    <2>2. Fine(k - 1)
      BY <1>4, <2>1
    <2>3. c[k] = IF c[k - 1] >= required THEN c[k - 1] ELSE 2 * c[k - 1]
      BY <1>2 DEF Doubled
    <2>4. Fine(k)
      BY <2>2, <2>3
    <2> QED
      BY <2>4
  <1>5. Bad = {}
    <2>1. Bad \subseteq 0..required
      OBVIOUS
    <2> HIDE DEF Bad
    <2> QED
      BY <1>3, <1>4, <2>1, Downwards
  <1>6. required \in 0..required
    OBVIOUS
  <1>7. Fine(required)
    BY <1>5, <1>6
  <1> QED
    BY <1>2, <1>7

LEMMA MadeSeq ==
    ASSUME NEW N \in Nat, NEW g \in [1..N -> Nat]
    PROVE  g \in Seq(Nat) /\ Len(g) = N
  BY IsASeq, LenProperties

LEMMA ReserveIs ==
    ASSUME NEW a \in Node, Sound(a), NEW required \in Nat
    PROVE  LET b == ramfs_reserve(a, required)
           IN  /\ b \in Seq(Nat) /\ Len(b) \in Nat /\ required <= Len(b) /\ a.size <= Len(b)
               /\ \A k \in 1..a.size : b[k] = a.data[k]
  <1>1. a.data \in Seq(Nat) /\ a.size \in Nat /\ a.size <= Len(a.data) /\ Len(a.data) \in Nat
    BY LenProperties DEF Node, Sound
  <1>2. CASE required <= Len(a.data)
    BY <1>1, <1>2 DEF ramfs_reserve
  <1>3. CASE ~(required <= Len(a.data))
    <2> DEFINE start == IF a.data = <<>> THEN InitialCapacity ELSE Len(a.data)
               N == DoubledUpTo(start, required)
               b == [k \in 1..N |-> IF k <= a.size THEN a.data[k] ELSE 0]
    <2>1. start \in Nat \ {0} /\ start >= Len(a.data)
      <3>1. a.data = <<>> => Len(a.data) = 0
        BY EmptySeq
      <3>2. a.data # <<>> => Len(a.data) # 0
        BY <1>1, EmptySeq, LenProperties
      <3> QED
        BY <1>1, <3>1, <3>2, NodesAssumption
    <2>2. ramfs_reserve(a, required) = b
      BY <1>3 DEF ramfs_reserve
    <2> HIDE DEF start
    <2>3. N \in Nat /\ N >= required /\ N >= start
      BY <2>1, DoubledIs
    <2> HIDE DEF N
    <2>4. \A k \in 1..N : k <= a.size => k \in 1..Len(a.data)
      BY <1>1
    <2>5. \A k \in 1..N : k <= a.size => a.data[k] \in Nat
      BY <1>1, <2>4, ElementOfSeq
    <2>6. b \in [1..N -> Nat] /\ \A k \in 1..N : b[k] = IF k <= a.size THEN a.data[k] ELSE 0
      BY <2>5
    <2> HIDE DEF b
    <2>7. b \in Seq(Nat) /\ Len(b) = N
      BY <2>3, <2>6, MadeSeq
    <2>8. \A k \in 1..a.size : b[k] = a.data[k]
      BY <1>1, <2>1, <2>3, <2>6
    <2> QED
      BY <1>1, <2>1, <2>2, <2>3, <2>7, <2>8
  <1> QED
    BY <1>2, <1>3

\* What a write leaves of a node.
Written(a, offset, count) ==
    LET end == offset + count
        size == IF end > a.size THEN end ELSE a.size
    IN [a EXCEPT !.size = size,
                 !.data = ramfs_write_fill(a, ramfs_reserve(a, end), offset, end),
                 !.want = [k \in 1..size |-> IF Within(k, offset, end) THEN 1
                                             ELSE IF k <= Len(a.want) THEN a.want[k] ELSE 0]]

LEMMA WrittenIs ==
    ASSUME NEW a \in Node, Sound(a), NEW offset \in Nat, NEW count \in Nat
    PROVE  LET r == Written(a, offset, count)
           IN  /\ r \in Node /\ Sound(r) /\ r.name = a.name /\ r.type = a.type
               /\ r.refs = a.refs /\ r.kids = a.kids
  <1> DEFINE end == offset + count
             size == IF end > a.size THEN end ELSE a.size
             b == ramfs_reserve(a, end)
             d == ramfs_write_fill(a, b, offset, end)
             w == [k \in 1..size |-> IF Within(k, offset, end) THEN 1
                                     ELSE IF k <= Len(a.want) THEN a.want[k] ELSE 0]
             r == Written(a, offset, count)
  <1>1. /\ a.data \in Seq(Nat) /\ a.size \in Nat /\ a.size <= Len(a.data) /\ Len(a.data) \in Nat
        /\ a.want \in Seq(Nat) /\ Len(a.want) = a.size
        /\ \A k \in 1..a.size : a.data[k] = a.want[k]
    BY LenProperties DEF Node, Sound
  <1>2. end \in Nat /\ size \in Nat /\ size >= end /\ size >= a.size /\ size \in {end, a.size}
    BY <1>1
  <1>3. r = [a EXCEPT !.size = size, !.data = d, !.want = w]
    BY DEF Written
  <1> HIDE DEF end, size
  <1>4. /\ b \in Seq(Nat) /\ Len(b) \in Nat /\ end <= Len(b) /\ a.size <= Len(b)
        /\ \A k \in 1..a.size : b[k] = a.data[k]
    BY <1>2, ReserveIs
  <1> HIDE DEF b
  <1>5. d = [k \in 1..Len(b) |-> IF Within(k, offset, end) THEN 1
                                 ELSE IF Within(k, a.size, offset) THEN 0 ELSE b[k]]
    BY <1>4, LenProperties DEF ramfs_write_fill
  <1>6. \A k \in 1..Len(b) : b[k] \in Nat
    BY <1>4, ElementOfSeq
  <1>7. /\ d \in [1..Len(b) -> Nat]
        /\ \A k \in 1..Len(b) : d[k] = IF Within(k, offset, end) THEN 1
                                       ELSE IF Within(k, a.size, offset) THEN 0 ELSE b[k]
    BY <1>5, <1>6
  <1> HIDE DEF d
  <1>8. d \in Seq(Nat) /\ Len(d) = Len(b)
    BY <1>4, <1>7, MadeSeq
  <1>9. \A k \in 1..size : k <= Len(a.want) => a.want[k] \in Nat
    <2>1. \A k \in 1..size : k <= Len(a.want) => k \in 1..Len(a.want)
      BY <1>1, <1>2
    <2> QED
      BY <1>1, <2>1, ElementOfSeq
  <1>10. /\ w \in [1..size -> Nat]
         /\ \A k \in 1..size : w[k] = IF Within(k, offset, end) THEN 1
                                      ELSE IF k <= Len(a.want) THEN a.want[k] ELSE 0
    BY <1>9
  <1> HIDE DEF w
  <1>11. w \in Seq(Nat) /\ Len(w) = size
    BY <1>2, <1>10, MadeSeq
  <1>12. size <= Len(d)
    BY <1>2, <1>4, <1>8
  <1>13. ASSUME NEW k \in 1..size PROVE d[k] = w[k]
    <2>1. k \in 1..Len(b) /\ k \in Nat
      BY <1>2, <1>4
    <2>2. CASE Within(k, offset, end)
      BY <1>7, <1>10, <2>1, <2>2
    <2>3. CASE ~Within(k, offset, end) /\ Within(k, a.size, offset)
      <3>1. ~(k <= Len(a.want))
        BY <1>1, <2>1, <2>3 DEF Within
      <3> QED
        BY <1>7, <1>10, <2>1, <2>3, <3>1
    <2>4. CASE ~Within(k, offset, end) /\ ~Within(k, a.size, offset)
      <3>1. k \in 1..a.size
        BY <1>1, <1>2, <2>1, <2>4 DEF Within
      <3>2. b[k] = a.data[k] /\ a.data[k] = a.want[k]
        <4>1. \A j \in 1..a.size : b[j] = a.data[j]
          BY <1>4
        <4>2. \A j \in 1..a.size : a.data[j] = a.want[j]
          BY <1>1
        <4> QED
          BY <3>1, <4>1, <4>2
      <3>3. k <= Len(a.want)
        BY <1>1, <3>1
      <3> QED
        BY <1>7, <1>10, <2>1, <2>4, <3>2, <3>3
    <2> QED
      BY <2>2, <2>3, <2>4
  <1>14. /\ r \in Node /\ r.size = size /\ r.data = d /\ r.want = w /\ r.name = a.name
         /\ r.type = a.type /\ r.refs = a.refs /\ r.kids = a.kids
    <2> HIDE DEF r
    <2> QED
      BY <1>2, <1>3, <1>8, <1>11 DEF Node
  <1> HIDE DEF r
  <1>15. Sound(r)
    BY <1>11, <1>12, <1>13, <1>14 DEF Sound
  <1> QED
    BY <1>14, <1>15 DEF r

LEMMA WriteGood ==
    ASSUME NEW n, NEW f, NEW R, NEW M, Good(n, f, R, M, 0), NEW i \in NodeIds,
           NEW offset \in Nat, NEW count \in Nat, NEW oom \in BOOLEAN
    PROVE  LET u == fs_write(n, i, offset, count, oom).n
           IN  Good(u, f, R, M, 0) /\ Grows(n, u, R)
  <1> DEFINE u == fs_write(n, i, offset, count, oom).n
             v == [n EXCEPT ![i] = Written(n[i], offset, count)]
  <1>1. n \in [NodeIds -> Node] /\ n[i] \in Node /\ Sound(n[i])
    BY DEF Good, Tree, Typed
  <1>2. ASSUME NEW b \in BOOLEAN
        PROVE  \/ ramfs_write(n, i, offset, count, b).n = n
               \/ n[i].type = "reg" /\ ramfs_write(n, i, offset, count, b).n = v
    <2> DEFINE end == offset + count
               size == IF end > n[i].size THEN end ELSE n[i].size
               z == [n EXCEPT ![i].size = size,
                              ![i].data = ramfs_write_fill(n[i], ramfs_reserve(n[i], end), offset, end),
                              ![i].want = [k \in 1..size |-> IF Within(k, offset, end) THEN 1
                                                ELSE IF k <= Len(@) THEN @[k] ELSE 0]]
    <2>1. z = v
      BY <1>1 DEF Written, Node
    <2>2. ramfs_write(n, i, offset, count, b)
            = CASE n[i].type # "reg" -> Fail(n, "ENODEV")
                [] b /\ end > Len(n[i].data) -> Fail(n, "ENOMEM")
                [] OTHER -> Done(z, i)
      BY DEF ramfs_write
    <2> HIDE DEF z, end, v
    <2> QED
      BY <2>1, <2>2 DEF Fail, Done
  <1>3. u = n \/ (n[i].type = "reg" /\ u = v)
    <2> HIDE DEF v
    <2> QED
      BY <1>2 DEF fs_write, nsfs_vfs_write, Done
  <1>4. CASE n[i].type = "reg" /\ u = v
    <2> DEFINE r == Written(n[i], offset, count)
    <2>1. /\ r \in Node /\ Sound(r) /\ r.name = n[i].name /\ r.type = n[i].type
          /\ r.refs = n[i].refs /\ r.kids = n[i].kids
      BY <1>1, WrittenIs
    <2> HIDE DEF r, u
    <2>2. Good([n EXCEPT ![i] = r], f, R, M, 0) /\ Grows(n, [n EXCEPT ![i] = r], R)
      BY <1>4, <2>1, InDataOnly
    <2> QED
      BY <1>4, <2>2 DEF r, u
  <1> QED
    BY <1>3, <1>4, GrowsOn

LEMMA TruncateGood ==
    ASSUME NEW n, NEW f, NEW R, NEW M, NEW y, Good(n, f, R, M, y), NEW i \in NodeIds,
           n[i].type # "free"
    PROVE  LET u == fs_truncate(n, i)
           IN  Good(u, f, R, M, y) /\ Grows(n, u, R) /\ u[i].type = n[i].type
  <1> DEFINE a == n[i]
             p == [a EXCEPT !.size = 0, !.want = <<>>]
             q == [a EXCEPT !.size = 0, !.want = <<>>, !.data = <<>>]
             r == IF i \in Heap THEN p ELSE q
             u == fs_truncate(n, i)
  <1>1. n \in [NodeIds -> Node] /\ a \in Node /\ Sound(a)
    BY DEF Good, Tree, Typed
  <1>2. u = [n EXCEPT ![i] = r]
    <2>1. ramfs_truncate(n, i) = [n EXCEPT ![i] = p]
      BY <1>1 DEF ramfs_truncate, Node
    <2>2. nsfs_vfs_truncate(n, i) = [n EXCEPT ![i] = q]
      BY <1>1 DEF nsfs_vfs_truncate, ramfs_truncate, Node
    <2> QED
      BY <2>1, <2>2 DEF fs_truncate, Counted
  <1>3. /\ p \in Node /\ p.size = 0 /\ p.want = <<>> /\ p.data = a.data
        /\ p.name = a.name /\ p.type = a.type /\ p.refs = a.refs /\ p.kids = a.kids
    BY <1>1, EmptyIsSeq DEF Node
  <1>4. /\ q \in Node /\ q.size = 0 /\ q.want = <<>> /\ q.data = <<>>
        /\ q.name = a.name /\ q.type = a.type /\ q.refs = a.refs /\ q.kids = a.kids
    BY <1>1, EmptyIsSeq DEF Node
  <1>5. a.data \in Seq(Nat) /\ Len(a.data) \in Nat
    BY <1>1, LenProperties DEF Node
  <1> HIDE DEF p, q
  <1>6. Sound(p) /\ Sound(q)
    BY <1>3, <1>4, <1>5, EmptyIsSeq DEF Sound
  <1>7. /\ r \in Node /\ Sound(r) /\ r.name = n[i].name /\ r.type = n[i].type
        /\ r.refs = n[i].refs /\ r.kids = n[i].kids
    BY <1>3, <1>4, <1>6
  <1> HIDE DEF r, u
  <1>8. Good([n EXCEPT ![i] = r], f, R, M, y) /\ Grows(n, [n EXCEPT ![i] = r], R)
    BY <1>7, InDataOnly
  <1>9. [n EXCEPT ![i] = r][i] = r
    BY <1>1
  <1> QED
    BY <1>2, <1>7, <1>8, <1>9 DEF u

----------------------------------------------------------------------------
\* Open files and descriptors.

LEMMA EntriesFinite ==
    ASSUME NEW E, NEW k
    PROVE  /\ IsFiniteSet(EntriesOf(E, k)) /\ Cardinality(EntriesOf(E, k)) \in Nat
           /\ Cardinality(EntriesOf(E, k)) = 0 <=> EntriesOf(E, k) = {}
           /\ Cardinality(EntriesOf(E, k)) <= MaximumFds * Cardinality(Tables)
  <1>1. IsFiniteSet(Tables)
    BY VfsAssumption
  <1>2. IsFiniteSet(Fds) /\ Cardinality(Fds) = MaximumFds
    <2>1. MaximumFds \in Nat \ {0} /\ MaximumFds - 1 \in Int /\ 0 \in Int
      BY VfsAssumption
    <2>2. /\ IsFiniteSet(0..(MaximumFds - 1))
          /\ Cardinality(0..(MaximumFds - 1))
                = IF 0 > MaximumFds - 1 THEN 0 ELSE (MaximumFds - 1) - 0 + 1
      BY <2>1, FS_Interval
    <2> QED
      BY <2>1, <2>2 DEF Fds
  <1>3. /\ IsFiniteSet(Tables \X Fds)
        /\ Cardinality(Tables \X Fds) = Cardinality(Tables) * Cardinality(Fds)
    BY <1>1, <1>2, FS_Product
  <1>4. EntriesOf(E, k) \in SUBSET (Tables \X Fds)
    BY DEF EntriesOf
  <1>5. /\ IsFiniteSet(EntriesOf(E, k))
        /\ Cardinality(EntriesOf(E, k)) <= Cardinality(Tables \X Fds)
    BY <1>3, <1>4, FS_Subset
  <1>6. Cardinality(Tables) \in Nat /\ MaximumFds \in Nat
    BY <1>1, FS_CardinalityType, VfsAssumption
  <1>7. Cardinality(Tables) * MaximumFds = MaximumFds * Cardinality(Tables)
    BY <1>6
  <1>8. Cardinality(EntriesOf(E, k)) \in Nat
        /\ (Cardinality(EntriesOf(E, k)) = 0 <=> EntriesOf(E, k) = {})
    BY <1>5, FS_CardinalityType, FS_EmptySet
  <1> QED
    BY <1>2, <1>3, <1>5, <1>7, <1>8

\* A descriptor that is set to the file the call holds leaves the call holding the
\* file that was there.
LEMMA EntryMoves ==
    ASSUME NEW f, NEW E, NEW D, NEW e \in Tables \X Fds, FilesOK(f, E, D[e]),
           \A q \in Tables \X Fds : q # e => D[q] = E[q]
    PROVE  FilesOK(f, D, E[e])
  <1> SUFFICES ASSUME NEW k \in FileIds
               PROVE  f[k].refs = Cardinality(EntriesOf(D, k)) + One(k = E[e])
    BY DEF FilesOK
  <1> DEFINE a == Cardinality(EntriesOf(E, k))
             b == Cardinality(EntriesOf(D, k))
  <1>1. f[k].refs = a + One(k = D[e]) /\ a \in Nat /\ b \in Nat
    BY EntriesFinite DEF FilesOK
  <1>2. CASE (k = D[e]) <=> (k = E[e])
    <2>1. EntriesOf(D, k) = EntriesOf(E, k)
      BY <1>2 DEF EntriesOf
    <2> QED
      BY <1>1, <1>2, <2>1 DEF One
  <1>3. CASE k = D[e] /\ k # E[e]
    <2>1. EntriesOf(D, k) = EntriesOf(E, k) \cup {e} /\ e \notin EntriesOf(E, k)
      BY <1>3 DEF EntriesOf
    <2>2. IsFiniteSet(EntriesOf(E, k))
      BY EntriesFinite
    <2>3. Cardinality(EntriesOf(E, k) \cup {e}) = Cardinality(EntriesOf(E, k)) + 1
      BY <2>1, <2>2, FS_AddElement
    <2>4. b = a + 1 /\ One(k = D[e]) = 1 /\ One(k = E[e]) = 0
      BY <1>3, <2>1, <2>3 DEF One
    <2> HIDE DEF a, b
    <2> QED
      BY <1>1, <2>4 DEF b
  <1>4. CASE k # D[e] /\ k = E[e]
    <2>1. EntriesOf(E, k) = EntriesOf(D, k) \cup {e} /\ e \notin EntriesOf(D, k)
      BY <1>4 DEF EntriesOf
    <2>2. IsFiniteSet(EntriesOf(D, k))
      BY EntriesFinite
    <2>3. Cardinality(EntriesOf(D, k) \cup {e}) = Cardinality(EntriesOf(D, k)) + 1
      BY <2>1, <2>2, FS_AddElement
    <2>4. a = b + 1 /\ One(k = D[e]) = 0 /\ One(k = E[e]) = 1
      BY <1>4, <2>1, <2>3 DEF One
    <2> HIDE DEF a, b
    <2> QED
      BY <1>1, <2>4 DEF b
  <1> QED
    BY <1>2, <1>3, <1>4

St == [n : [NodeIds -> Node], f : [FileIds -> File], fds : [Fds -> Entry]]

\* The descriptors of all tables, t's being fds.
At(E, t, fds) == [e \in Tables \X Fds |-> IF e[1] = t THEN fds[e[2]].file ELSE E[e]]

Roots == RootsOf(mounts) \cup {NsfsRoot}

\* A call on table t is at s; it holds file x and node y.
Sys(s, E, t, x, y) ==
    /\ s \in St /\ FilesOK(s.f, At(E, t, s.fds), x)
    /\ Good(s.n, s.f, Roots, RootsOf(mounts), y) /\ Grows(node, s.n, Roots)

LEMMA FileIs ==
    /\ 0 \notin FileIds /\ FileIds \subseteq Nat /\ NoEntry \in Entry /\ NoEntry.file = 0
    /\ FreeFile \in File /\ FreeFile.kind = "free" /\ FreeFile.refs = 0
    /\ Fds \subseteq Nat
  BY VfsAssumption DEF FileIds, NoEntry, Entry, FreeFile, File, Fds

\* A descriptor that is in use is one of a file that is.
LEMMA EntryLive ==
    ASSUME NEW s, NEW E, NEW t \in Tables, NEW x, NEW y, Sys(s, E, t, x, y), NEW d \in Fds,
           s.fds[d].file # 0
    PROVE  LET k == s.fds[d].file
           IN  k \in FileIds /\ s.f[k].kind # "free" /\ s.f[k].refs \in Nat \ {0}
  <1> DEFINE k == s.fds[d].file
             D == At(E, t, s.fds)
  <1>1. k \in FileIds /\ s.f[k].refs \in Nat
    BY DEF Sys, St, Entry, File
  <1>2. <<t, d>> \in EntriesOf(D, k)
    BY DEF EntriesOf, At
  <1> HIDE DEF k, D
  <1>3. Cardinality(EntriesOf(D, k)) \in Nat /\ Cardinality(EntriesOf(D, k)) # 0
        /\ One(k = x) \in Nat
    BY <1>2, EntriesFinite DEF One
  <1>4. /\ s.f[k].refs = Cardinality(EntriesOf(D, k)) + One(k = x)
        /\ s.f[k].kind = "free" <=> s.f[k].refs = 0
    BY <1>1 DEF Sys, FilesOK, D
  <1> QED
    BY <1>1, <1>3, <1>4 DEF k

\* A change of a file's counters only.
LEMMA FileRefs ==
    ASSUME NEW a \in File, NEW k \in Nat
    PROVE  LET b == [a EXCEPT !.refs = k]
           IN  b \in File /\ b.refs = k /\ b.kind = a.kind /\ b.node = a.node
  BY DEF File

SetFile(f, k, b) == [f EXCEPT ![k] = b]

LEMMA SetFileIs ==
    ASSUME NEW f \in [FileIds -> File], NEW k \in FileIds, NEW b \in File
    PROVE  LET g == SetFile(f, k, b)
           IN  g \in [FileIds -> File] /\ g[k] = b /\ \A j \in FileIds : j # k => g[j] = f[j]
  BY DEF SetFile

IsSt(v, n, f, fds) == v \in St /\ v.n = n /\ v.f = f /\ v.fds = fds

LEMMA FileRetainIs ==
    ASSUME NEW s \in St, NEW k \in FileIds
    PROVE  IsSt(ns_vfs_file_retain(s, k), s.n,
                SetFile(s.f, k, [s.f[k] EXCEPT !.refs = s.f[k].refs + 1]), s.fds)
  <1> DEFINE b == [s.f[k] EXCEPT !.refs = s.f[k].refs + 1]
             g == SetFile(s.f, k, b)
             v == ns_vfs_file_retain(s, k)
  <1>1. s.f \in [FileIds -> File] /\ s.f[k] \in File /\ s.f[k].refs + 1 \in Nat
    BY DEF St, File
  <1>2. b \in File
    BY <1>1, FileRefs
  <1>3. v = [s EXCEPT !.f = g]
    BY DEF ns_vfs_file_retain, SetFile
  <1> HIDE DEF b
  <1>4. g \in [FileIds -> File]
    BY <1>1, <1>2, SetFileIs
  <1> HIDE DEF g, v
  <1>5. IsSt(v, s.n, g, s.fds)
    BY <1>3, <1>4 DEF IsSt, St
  <1> QED
    BY <1>5 DEF v, g, b

LEMMA FileRetain ==
    ASSUME NEW s, NEW E, NEW t, NEW y, Sys(s, E, t, 0, y), NEW k \in FileIds,
           s.f[k].kind # "free"
    PROVE  LET v == ns_vfs_file_retain(s, k)
           IN  Sys(v, E, t, k, y) /\ v.fds = s.fds /\ v.n = s.n
  <1> DEFINE v == ns_vfs_file_retain(s, k)
             b == [s.f[k] EXCEPT !.refs = s.f[k].refs + 1]
             g == SetFile(s.f, k, b)
             D == At(E, t, s.fds)
  <1>1. /\ s \in St /\ s.f \in [FileIds -> File] /\ s.f[k] \in File /\ s.f[k].refs + 1 \in Nat
        /\ s.f[k].refs \in Nat
    BY DEF Sys, St, File
  <1>2. IsSt(v, s.n, g, s.fds)
    BY <1>1, FileRetainIs
  <1>3. b \in File /\ b.refs = s.f[k].refs + 1 /\ b.kind = s.f[k].kind /\ b.node = s.f[k].node
    BY <1>1, FileRefs
  <1> HIDE DEF b, v
  <1>4. g \in [FileIds -> File] /\ g[k] = b /\ \A j \in FileIds : j # k => g[j] = s.f[j]
    BY <1>1, <1>3, SetFileIs
  <1> HIDE DEF g
  <1>5. FilesOK(s.f, D, 0)
    BY DEF Sys
  <1> HIDE DEF D
  <1>6. ASSUME NEW j \in FileIds
        PROVE  /\ g[j].kind = "vnode" => g[j].node \in NodeIds
               /\ g[j].refs = Cardinality(EntriesOf(D, j)) + One(j = k)
               /\ g[j].kind = "free" <=> g[j].refs = 0
    <2>1. /\ s.f[j].kind = "vnode" => s.f[j].node \in NodeIds
          /\ s.f[j].refs = Cardinality(EntriesOf(D, j)) + One(j = 0)
          /\ s.f[j].kind = "free" <=> s.f[j].refs = 0
          /\ Cardinality(EntriesOf(D, j)) \in Nat /\ One(j = 0) = 0
      BY <1>5, EntriesFinite, FileIs DEF FilesOK, One
    <2>2. One(j = k) = IF j = k THEN 1 ELSE 0
      BY DEF One
    <2> QED
      BY <1>1, <1>3, <1>4, <2>1, <2>2
  <1>7. FilesOK(g, D, k)
    BY <1>4, <1>6 DEF FilesOK
  <1>8. Good(s.n, g, Roots, RootsOf(mounts), y)
    <2>1. \A j \in FileIds : (s.f[j].kind = "vnode" <=> g[j].kind = "vnode")
                             /\ (s.f[j].kind = "vnode" => g[j].node = s.f[j].node)
      BY <1>3, <1>4
    <2>2. Good(s.n, s.f, Roots, RootsOf(mounts), y)
      BY DEF Sys
    <2> QED
      BY <2>1, <2>2, OtherFiles
  <1>9. v \in St /\ v.n = s.n /\ v.f = g /\ v.fds = s.fds
    BY <1>2 DEF IsSt
  <1>10. Sys(v, E, t, k, y)
    BY <1>7, <1>8, <1>9 DEF Sys, D
  <1> QED
    BY <1>9, <1>10 DEF v

\* The same nodes and descriptors with other counts: what the call holds changes.
LEMMA SysFiles ==
    ASSUME NEW s, NEW E, NEW t, NEW x, NEW y, NEW z, Sys(s, E, t, x, y), NEW v, NEW g,
           g \in [FileIds -> File], IsSt(v, s.n, g, s.fds),
           \A j \in FileIds :
               /\ g[j].kind = s.f[j].kind /\ g[j].node = s.f[j].node
               /\ g[j].refs + One(j = x) = s.f[j].refs + One(j = z)
               /\ s.f[j].kind = "free" <=> g[j].refs = 0
    PROVE  Sys(v, E, t, z, y)
  <1> DEFINE D == At(E, t, s.fds)
  <1>1. FilesOK(s.f, D, x) /\ Good(s.n, s.f, Roots, RootsOf(mounts), y)
    BY DEF Sys
  <1> HIDE DEF D
  <1>2. ASSUME NEW j \in FileIds
        PROVE  /\ g[j].kind = "vnode" => g[j].node \in NodeIds
               /\ g[j].refs = Cardinality(EntriesOf(D, j)) + One(j = z)
               /\ g[j].kind = "free" <=> g[j].refs = 0
    <2>1. /\ s.f[j].kind = "vnode" => s.f[j].node \in NodeIds
          /\ s.f[j].refs = Cardinality(EntriesOf(D, j)) + One(j = x)
          /\ s.f[j].kind = "free" <=> s.f[j].refs = 0
          /\ Cardinality(EntriesOf(D, j)) \in Nat /\ One(j = x) \in Nat /\ One(j = z) \in Nat
      BY <1>1, EntriesFinite DEF FilesOK, One
    <2>2. g[j].refs \in Nat
      BY DEF File
    <2>3. /\ g[j].kind = s.f[j].kind /\ g[j].node = s.f[j].node
          /\ g[j].refs + One(j = x) = s.f[j].refs + One(j = z)
          /\ s.f[j].kind = "free" <=> g[j].refs = 0
      OBVIOUS
    <2>4. g[j].refs = Cardinality(EntriesOf(D, j)) + One(j = z)
      <3> DEFINE c == Cardinality(EntriesOf(D, j))
                 a == One(j = x)
                 b == One(j = z)
      <3>1. s.f[j].refs = c + a /\ g[j].refs + a = s.f[j].refs + b
            /\ c \in Nat /\ a \in Nat /\ b \in Nat
        BY <2>1, <2>3
      <3> HIDE DEF a, b, c
      <3>2. g[j].refs = c + b
        BY <2>2, <3>1
      <3> QED
        BY <3>2 DEF b, c
    <2> QED
      BY <2>1, <2>2, <2>3, <2>4
  <1>3. FilesOK(g, D, z)
    BY <1>2 DEF FilesOK
  <1>4. Good(s.n, g, Roots, RootsOf(mounts), y)
    BY <1>1, OtherFiles
  <1>5. v \in St /\ v.n = s.n /\ v.f = g /\ v.fds = s.fds
    BY DEF IsSt
  <1> QED
    BY <1>3, <1>4, <1>5 DEF Sys, D

LEMMA FileReleaseIs ==
    ASSUME NEW s \in St, NEW k \in FileIds
    PROVE  LET a == s.f[k]
               v == ns_vfs_file_release(s, k)
               n == IF a.kind = "vnode" THEN node_release(s.n, a.node) ELSE s.n
           IN  /\ a.refs > 1 => IsSt(v, s.n, SetFile(s.f, k, [a EXCEPT !.refs = a.refs - 1]), s.fds)
               /\ ~(a.refs > 1) /\ n \in [NodeIds -> Node] =>
                    IsSt(v, n, SetFile(s.f, k, FreeFile), s.fds)
  <1> DEFINE a == s.f[k]
             b == [a EXCEPT !.refs = a.refs - 1]
             g == SetFile(s.f, k, b)
             h == SetFile(s.f, k, FreeFile)
             n == IF a.kind = "vnode" THEN node_release(s.n, a.node) ELSE s.n
             v == ns_vfs_file_release(s, k)
  <1>1. s.f \in [FileIds -> File] /\ a \in File /\ a.refs \in Nat
    BY DEF St, File
  <1>2. a.refs > 1 => v = [s EXCEPT !.f = g]
    BY DEF ns_vfs_file_release, SetFile
  <1>3. ~(a.refs > 1) => v = [s EXCEPT !.f = h, !.n = n]
    BY DEF ns_vfs_file_release, SetFile
  <1>4. a.refs > 1 => b \in File
    <2>1. a.refs > 1 => a.refs - 1 \in Nat
      BY <1>1
    <2> HIDE DEF a
    <2> QED
      BY <1>1, <2>1, FileRefs
  <1> HIDE DEF a, b
  <1>5. a.refs > 1 => g \in [FileIds -> File]
    BY <1>1, <1>4, SetFileIs
  <1>6. h \in [FileIds -> File]
    BY <1>1, SetFileIs, FileIs
  <1> HIDE DEF g, h, v, n
  <1>7. a.refs > 1 => IsSt(v, s.n, g, s.fds)
    BY <1>2, <1>5 DEF IsSt, St
  <1>8. ~(a.refs > 1) /\ n \in [NodeIds -> Node] => IsSt(v, n, h, s.fds)
    BY <1>3, <1>6 DEF IsSt, St
  <1> QED
    BY <1>7, <1>8 DEF v, n, g, h, b, a

LEMMA FileRelease ==
    ASSUME NEW s, NEW E, NEW t, NEW k \in FileIds, Sys(s, E, t, k, 0)
    PROVE  LET v == ns_vfs_file_release(s, k)
           IN  Sys(v, E, t, 0, 0) /\ v.fds = s.fds
  <1> DEFINE a == s.f[k]
             v == ns_vfs_file_release(s, k)
             b == [a EXCEPT !.refs = a.refs - 1]
             g == SetFile(s.f, k, b)
             h == SetFile(s.f, k, FreeFile)
             n == IF a.kind = "vnode" THEN node_release(s.n, a.node) ELSE s.n
             D == At(E, t, s.fds)
             R == Roots
             M == RootsOf(mounts)
  <1>1. s \in St /\ s.f \in [FileIds -> File] /\ a \in File /\ a.refs \in Nat
    BY DEF Sys, St, File
  <1>2. /\ FilesOK(s.f, D, k) /\ Good(s.n, s.f, R, M, 0) /\ Grows(node, s.n, R)
        /\ s.n \in [NodeIds -> Node]
    BY DEF Sys, St
  <1>3. \A j \in FileIds : One(j = k) = (IF j = k THEN 1 ELSE 0) /\ One(j = 0) = 0
    BY FileIs DEF One
  <1>4. CASE a.refs > 1
    <2>1. IsSt(v, s.n, g, s.fds)
      BY <1>1, <1>4, FileReleaseIs
    <2>2. b \in File /\ b.refs = a.refs - 1 /\ b.kind = a.kind /\ b.node = a.node
      <3>1. a.refs - 1 \in Nat
        BY <1>1, <1>4
      <3> HIDE DEF a
      <3> QED
        BY <1>1, <3>1, FileRefs
    <2> HIDE DEF b, v
    <2>3. g \in [FileIds -> File] /\ g[k] = b /\ \A j \in FileIds : j # k => g[j] = s.f[j]
      BY <1>1, <2>2, SetFileIs
    <2> HIDE DEF g
    <2>4. ASSUME NEW j \in FileIds
          PROVE  /\ g[j].kind = s.f[j].kind /\ g[j].node = s.f[j].node
                 /\ g[j].refs + One(j = k) = s.f[j].refs + One(j = 0)
                 /\ s.f[j].kind = "free" <=> g[j].refs = 0
      <3>1. s.f[j].refs \in Nat /\ (s.f[j].kind = "free" <=> s.f[j].refs = 0)
        BY <1>1, <1>2 DEF FilesOK, File
      <3> QED
        BY <1>1, <1>3, <1>4, <2>2, <2>3, <3>1
    <2>5. Sys(v, E, t, 0, 0)
      BY <2>1, <2>3, <2>4, SysFiles
    <2> QED
      BY <2>1, <2>5 DEF IsSt, v
  <1>5. CASE ~(a.refs > 1)
    <2>1. /\ a.refs = Cardinality(EntriesOf(D, k)) + One(k = k) /\ a.kind # "free"
          /\ Cardinality(EntriesOf(D, k)) \in Nat /\ One(k = k) = 1
      BY <1>1, <1>2, <1>3, EntriesFinite DEF FilesOK
    <2>2. a.refs = 1 /\ Cardinality(EntriesOf(D, k)) = 0
      BY <1>1, <1>5, <2>1
    <2>3. h \in [FileIds -> File] /\ h[k] = FreeFile /\ \A j \in FileIds : j # k => h[j] = s.f[j]
      BY <1>1, FileIs, SetFileIs
    <2> HIDE DEF h, v
    <2>4. /\ Good(n, h, R, M, 0) /\ Grows(s.n, n, R) /\ n \in [NodeIds -> Node]
      <3>1. CASE a.kind = "vnode"
        <4>1. a.node \in NodeIds
          BY <1>2, <3>1 DEF FilesOK
        <4>2. h[k].kind # "vnode"
          BY <2>3, FileIs
        <4>3. Good(s.n, h, R, M, a.node)
          BY <1>2, <2>3, <3>1, <4>1, <4>2, DropsFile
        <4>4. Good(node_release(s.n, a.node), h, R, M, 0) /\ Grows(s.n, node_release(s.n, a.node), R)
          BY <4>1, <4>3, ReleaseGood
        <4>5. n = node_release(s.n, a.node)
          BY <3>1
        <4> HIDE DEF n
        <4> QED
          BY <4>4, <4>5 DEF Good, Tree, Typed
      <3>2. CASE a.kind # "vnode"
        <4>1. n = s.n
          BY <3>2
        <4>2. \A j \in FileIds : (s.f[j].kind = "vnode" <=> h[j].kind = "vnode")
                                 /\ (s.f[j].kind = "vnode" => h[j].node = s.f[j].node)
          BY <2>3, <3>2, FileIs
        <4>3. Good(s.n, h, R, M, 0)
          BY <1>2, <4>2, OtherFiles
        <4> HIDE DEF n
        <4> QED
          BY <1>2, <4>1, <4>3, GrowsOn
      <3> QED
        BY <3>1, <3>2
    <2>5. IsSt(v, n, h, s.fds)
      BY <1>1, <1>5, <2>4, FileReleaseIs DEF v, h
    <2> HIDE DEF n, D
    <2>6. ASSUME NEW j \in FileIds
          PROVE  /\ h[j].kind = "vnode" => h[j].node \in NodeIds
                 /\ h[j].refs = Cardinality(EntriesOf(D, j)) + One(j = 0)
                 /\ h[j].kind = "free" <=> h[j].refs = 0
      <3>1. CASE j = k
        BY <1>3, <2>2, <2>3, <3>1, FileIs
      <3>2. CASE j # k
        <4>1. One(j = k) = 0 /\ One(j = 0) = 0
          BY <1>3, <3>2
        <4> QED
          BY <1>2, <2>3, <3>2, <4>1 DEF FilesOK
      <3> QED
        BY <3>1, <3>2
    <2>7. FilesOK(h, D, 0)
      BY <2>3, <2>6 DEF FilesOK
    <2>8. Grows(node, n, R)
      BY <1>2, <2>4, GrowsOn
    <2>9. v \in St /\ v.n = n /\ v.f = h /\ v.fds = s.fds
      BY <2>5 DEF IsSt
    <2>10. Sys(v, E, t, 0, 0)
      BY <2>4, <2>7, <2>8, <2>9 DEF Sys, D
    <2> QED
      BY <2>9, <2>10 DEF v
  <1> QED
    BY <1>4, <1>5

SetEntry(s, d, ent) == [s EXCEPT !.fds[d] = ent]
SetFds(fds, d, ent) == [fds EXCEPT ![d] = ent]

LEMMA SetEntryIs ==
    ASSUME NEW s \in St, NEW d \in Fds, NEW ent \in Entry
    PROVE  /\ IsSt(SetEntry(s, d, ent), s.n, s.f, SetFds(s.fds, d, ent))
           /\ SetFds(s.fds, d, ent) \in [Fds -> Entry] /\ SetFds(s.fds, d, ent)[d] = ent
           /\ \A c \in Fds : c # d => SetFds(s.fds, d, ent)[c] = s.fds[c]
  <1> DEFINE v == SetEntry(s, d, ent)
             g == SetFds(s.fds, d, ent)
  <1>1. s.fds \in [Fds -> Entry]
    BY DEF St
  <1>2. v = [s EXCEPT !.fds = g]
    BY DEF SetEntry, SetFds
  <1>3. g \in [Fds -> Entry] /\ g[d] = ent /\ \A c \in Fds : c # d => g[c] = s.fds[c]
    BY <1>1 DEF SetFds
  <1> HIDE DEF g, v
  <1>4. IsSt(v, s.n, s.f, g)
    BY <1>2, <1>3 DEF IsSt, St
  <1> QED
    BY <1>3, <1>4 DEF v, g

\* The call gives the file it holds to descriptor d and takes over the one there.
LEMMA EntrySet ==
    ASSUME NEW s, NEW E, NEW t \in Tables, NEW k, NEW y, Sys(s, E, t, k, y), NEW d \in Fds,
           NEW ent \in Entry, ent.file = k
    PROVE  LET v == SetEntry(s, d, ent)
           IN  Sys(v, E, t, s.fds[d].file, y) /\ IsSt(v, s.n, s.f, SetFds(s.fds, d, ent))
  <1> DEFINE v == SetEntry(s, d, ent)
             g == SetFds(s.fds, d, ent)
             D == At(E, t, s.fds)
             F == At(E, t, g)
             e == <<t, d>>
  <1>1. s \in St /\ FilesOK(s.f, D, k) /\ Good(s.n, s.f, Roots, RootsOf(mounts), y)
        /\ Grows(node, s.n, Roots)
    BY DEF Sys
  <1>2. /\ IsSt(v, s.n, s.f, g) /\ g[d] = ent /\ \A c \in Fds : c # d => g[c] = s.fds[c]
    BY <1>1, SetEntryIs
  <1> HIDE DEF v, g
  <1>3. e \in Tables \X Fds
    OBVIOUS
  <1>4. F[e] = k /\ D[e] = s.fds[d].file /\ \A q \in Tables \X Fds : q # e => F[q] = D[q]
    <2>1. F[e] = k /\ D[e] = s.fds[d].file
      BY <1>2 DEF At
    <2>2. ASSUME NEW q \in Tables \X Fds, q # e PROVE F[q] = D[q]
      <3>1. PICK a \in Tables, b \in Fds : q = <<a, b>>
        OBVIOUS
      <3>2. F[q] = (IF a = t THEN g[b].file ELSE E[q]) /\ D[q] = (IF a = t THEN s.fds[b].file ELSE E[q])
        BY <3>1 DEF At
      <3>3. a = t => b # d
        BY <2>2, <3>1
      <3> QED
        BY <1>2, <3>2, <3>3
    <2> QED
      BY <2>1, <2>2
  <1> HIDE DEF D, F, e
  <1>5. FilesOK(s.f, F, s.fds[d].file)
    <2>1. FilesOK(s.f, D, F[e])
      BY <1>1, <1>4
    <2>2. FilesOK(s.f, F, D[e])
      BY <1>3, <1>4, <2>1, EntryMoves
    <2> QED
      BY <1>4, <2>2
  <1>6. v \in St /\ v.n = s.n /\ v.f = s.f /\ v.fds = g
    BY <1>2 DEF IsSt
  <1>7. Sys(v, E, t, s.fds[d].file, y)
    BY <1>1, <1>5, <1>6 DEF Sys, F
  <1> QED
    BY <1>2, <1>7 DEF v, g

LEMMA CloseIs ==
    ASSUME NEW s, NEW E, NEW t \in Tables, Sys(s, E, t, 0, 0), NEW d \in Fds, s.fds[d].file # 0
    PROVE  LET v == CloseIn(s, d)
           IN  Sys(v, E, t, 0, 0) /\ v.fds = SetFds(s.fds, d, NoEntry)
  <1> DEFINE k == s.fds[d].file
             w == SetEntry(s, d, NoEntry)
             v == CloseIn(s, d)
  <1>1. k \in FileIds
    BY EntryLive
  <1>2. Sys(w, E, t, k, 0) /\ IsSt(w, s.n, s.f, SetFds(s.fds, d, NoEntry))
    BY FileIs, EntrySet
  <1>3. v = ns_vfs_file_release(w, k)
    BY DEF CloseIn, SetEntry
  <1> HIDE DEF w, v, k
  <1>4. Sys(v, E, t, 0, 0) /\ v.fds = w.fds
    BY <1>1, <1>2, <1>3, FileRelease
  <1>5. w.fds = SetFds(s.fds, d, NoEntry)
    BY <1>2 DEF IsSt
  <1> QED
    BY <1>4, <1>5 DEF v

LEMMA Dup2Is ==
    ASSUME NEW s, NEW E, NEW t \in Tables, Sys(s, E, t, 0, 0), NEW old \in Fds, NEW new \in Fds,
           s.fds[old].file # 0, NEW cloexec \in BOOLEAN
    PROVE  LET v == ns_vfs_dup2_in(s, old, new, cloexec)
           IN  Sys(v, E, t, 0, 0) /\ \A c \in Fds : c # new => v.fds[c] = s.fds[c]
  <1> DEFINE k == s.fds[old].file
             x == s.fds[new].file
             r == ns_vfs_file_retain(s, k)
             ent == [file |-> k, cloexec |-> cloexec]
             w == SetEntry(r, new, ent)
             v == ns_vfs_dup2_in(s, old, new, cloexec)
  <1>1. k \in FileIds /\ s.f[k].kind # "free" /\ s \in St
    BY EntryLive DEF Sys
  <1>2. Sys(r, E, t, k, 0) /\ r.fds = s.fds
    BY <1>1, FileRetain
  <1>3. ent \in Entry /\ ent.file = k
    BY <1>1 DEF Entry
  <1>4. v = IF old = new THEN s ELSE IF x = 0 THEN w ELSE ns_vfs_file_release(w, x)
    BY DEF ns_vfs_dup2_in, SetEntry
  <1> HIDE DEF ent, r
  <1>5. Sys(w, E, t, r.fds[new].file, 0) /\ IsSt(w, r.n, r.f, SetFds(r.fds, new, ent))
    BY <1>2, <1>3, EntrySet
  <1>6. r \in St
    BY <1>2 DEF Sys
  <1>7. \A c \in Fds : c # new => SetFds(r.fds, new, ent)[c] = r.fds[c]
    BY <1>3, <1>6, SetEntryIs
  <1> HIDE DEF w, v, x, k
  <1>8. Sys(w, E, t, x, 0) /\ \A c \in Fds : c # new => w.fds[c] = s.fds[c]
    BY <1>2, <1>5, <1>7 DEF IsSt, x
  <1>9. CASE old = new
    BY <1>4, <1>9 DEF v
  <1>10. CASE old # new /\ x = 0
    BY <1>4, <1>8, <1>10 DEF v
  <1>11. CASE old # new /\ x # 0
    <2>1. x \in FileIds
      BY <1>11, EntryLive DEF x
    <2>2. v = ns_vfs_file_release(w, x)
      BY <1>4, <1>11
    <2>3. Sys(v, E, t, 0, 0) /\ v.fds = w.fds
      BY <1>8, <2>1, <2>2, FileRelease
    <2> QED
      BY <1>8, <2>3 DEF v
  <1> QED
    BY <1>9, <1>10, <1>11

\* The lowest descriptor that is free, from minimum on.
LEMMA InstallIs ==
    ASSUME NEW s \in St, NEW k, NEW minimum, NEW cloexec
    PROVE  LET r == ns_vfs_fd_install(s, k, minimum, cloexec)
           IN  \/ r.s = s /\ r.fd = -1
               \/ \E d \in Fds :
                    /\ r.fd = d /\ s.fds[d].file = 0
                    /\ r.s = SetEntry(ns_vfs_file_retain(s, k), d, [file |-> k, cloexec |-> cloexec])
  <1> DEFINE room == {d \in Fds : d >= minimum /\ s.fds[d].file = 0}
             d == Smallest(room)
             r == ns_vfs_fd_install(s, k, minimum, cloexec)
  <1>1. CASE room = {}
    BY <1>1 DEF ns_vfs_fd_install
  <1>2. CASE room # {}
    <2>1. room \in SUBSET Nat
      BY FileIs
    <2>2. d \in room
      <3> HIDE DEF room
      <3> QED
        BY <1>2, <2>1, SmallestIs
    <2>3. r.fd = d /\ r.s = SetEntry(ns_vfs_file_retain(s, k), d, [file |-> k, cloexec |-> cloexec])
      BY <1>2 DEF ns_vfs_fd_install, SetEntry
    <2>4. d \in Fds /\ s.fds[d].file = 0
      BY <2>2
    <2> HIDE DEF d, r
    <2> QED
      BY <2>3, <2>4 DEF r
  <1> QED
    BY <1>1, <1>2

LEMMA DupIs ==
    ASSUME NEW s, NEW E, NEW t \in Tables, Sys(s, E, t, 0, 0), NEW k \in FileIds,
           s.f[k].kind # "free", NEW minimum, NEW cloexec \in BOOLEAN
    PROVE  Sys(ns_vfs_fd_install(s, k, minimum, cloexec).s, E, t, 0, 0)
  <1> DEFINE r == ns_vfs_fd_install(s, k, minimum, cloexec)
             q == ns_vfs_file_retain(s, k)
             ent == [file |-> k, cloexec |-> cloexec]
  <1>1. s \in St
    BY DEF Sys
  <1>2. \/ r.s = s
        \/ \E d \in Fds : s.fds[d].file = 0 /\ r.s = SetEntry(q, d, ent)
    BY <1>1, InstallIs
  <1>3. Sys(q, E, t, k, 0) /\ q.fds = s.fds
    BY FileRetain
  <1>4. ent \in Entry /\ ent.file = k
    BY DEF Entry
  <1> HIDE DEF r, q, ent
  <1>5. ASSUME NEW d \in Fds, s.fds[d].file = 0, r.s = SetEntry(q, d, ent)
        PROVE  Sys(r.s, E, t, 0, 0)
    <2>1. Sys(SetEntry(q, d, ent), E, t, q.fds[d].file, 0)
      BY <1>3, <1>4, EntrySet
    <2> QED
      BY <1>3, <1>5, <2>1
  <1> QED
    BY <1>2, <1>5 DEF r

\* A file that its maker holds: installed or not, the maker's reference goes.
LEMMA MakerInstalls ==
    ASSUME NEW s, NEW E, NEW t \in Tables, NEW k \in FileIds, Sys(s, E, t, k, 0),
           NEW minimum, NEW cloexec \in BOOLEAN
    PROVE  LET r == ns_vfs_fd_install(s, k, minimum, cloexec)
               v == ns_vfs_file_release(r.s, k)
           IN  /\ Sys(v, E, t, 0, 0)
               /\ r.fd = -1 \/ (r.fd \in Fds /\ v.fds[r.fd].file # 0)
  <1> DEFINE r == ns_vfs_fd_install(s, k, minimum, cloexec)
             q == ns_vfs_file_retain(s, k)
             ent == [file |-> k, cloexec |-> cloexec]
             v == ns_vfs_file_release(r.s, k)
             D == At(E, t, s.fds)
  <1>1. s \in St /\ s.f \in [FileIds -> File] /\ FilesOK(s.f, D, k)
    BY DEF Sys, St
  <1>2. \/ r.s = s /\ r.fd = -1
        \/ \E d \in Fds : r.fd = d /\ s.fds[d].file = 0 /\ r.s = SetEntry(q, d, ent)
    BY <1>1, InstallIs
  <1>3. ent \in Entry /\ ent.file = k
    BY DEF Entry
  <1>4. s.f[k] \in File /\ s.f[k].refs \in Nat \ {0}
    <2>1. /\ s.f[k].refs = Cardinality(EntriesOf(D, k)) + One(k = k) /\ One(k = k) = 1
          /\ Cardinality(EntriesOf(D, k)) \in Nat
      BY <1>1, EntriesFinite DEF FilesOK, One
    <2> QED
      BY <1>1, <2>1
  <1> HIDE DEF r, D, ent
  <1>5. ASSUME r.s = s PROVE Sys(v, E, t, 0, 0)
    <2>1. Sys(ns_vfs_file_release(s, k), E, t, 0, 0)
      BY FileRelease
    <2> QED
      BY <1>5, <2>1
  <1>6. ASSUME NEW d \in Fds, r.fd = d, s.fds[d].file = 0, r.s = SetEntry(q, d, ent)
        PROVE  Sys(v, E, t, 0, 0) /\ v.fds[r.fd].file # 0
    <2> DEFINE fds == SetFds(s.fds, d, ent)
               a == s.f[k]
               b == [a EXCEPT !.refs = a.refs + 1]
               g == SetFile(s.f, k, b)
               p == SetEntry(q, d, ent)
               c == [b EXCEPT !.refs = b.refs - 1]
               h == SetFile(g, k, c)
               w == SetEntry(s, d, ent)
    <2>1. IsSt(q, s.n, g, s.fds)
      BY <1>1, FileRetainIs
    <2>2. b \in File /\ b.refs = a.refs + 1 /\ b.kind = a.kind /\ b.node = a.node
      <3>1. a.refs + 1 \in Nat
        BY <1>4
      <3> HIDE DEF a
      <3> QED
        BY <1>4, <3>1, FileRefs DEF a
    <2> HIDE DEF b
    <2>3. g \in [FileIds -> File] /\ g[k] = b /\ \A j \in FileIds : j # k => g[j] = s.f[j]
      BY <1>1, <2>2, SetFileIs
    <2>4. c \in File /\ c.refs = b.refs - 1 /\ c.kind = b.kind /\ c.node = b.node
      <3>1. b.refs - 1 \in Nat
        BY <1>4, <2>2
      <3> QED
        BY <2>2, <3>1, FileRefs
    <2> HIDE DEF c, g, q
    <2>5. h \in [FileIds -> File] /\ h[k] = c /\ \A j \in FileIds : j # k => h[j] = g[j]
      BY <2>3, <2>4, SetFileIs
    <2>6. q \in St /\ q.n = s.n /\ q.f = g /\ q.fds = s.fds
      BY <2>1 DEF IsSt
    <2>7. IsSt(p, s.n, g, fds)
      BY <1>3, <2>6, SetEntryIs
    <2>8. IsSt(v, s.n, h, fds)
      <3>1. p \in St /\ p.n = s.n /\ p.f = g /\ p.fds = fds
        BY <2>7 DEF IsSt
      <3>2. p.f[k] = b /\ b.refs > 1
        BY <1>4, <2>2, <2>3, <3>1
      <3>3. v = ns_vfs_file_release(p, k)
        BY <1>6
      <3> HIDE DEF p, v, h
      <3>4. IsSt(v, p.n, SetFile(p.f, k, [p.f[k] EXCEPT !.refs = p.f[k].refs - 1]), p.fds)
        BY <3>1, <3>2, <3>3, FileReleaseIs
      <3> QED
        BY <3>1, <3>2, <3>4 DEF h, c
    <2>9. Sys(w, E, t, 0, 0) /\ IsSt(w, s.n, s.f, fds)
      <3>1. Sys(w, E, t, s.fds[d].file, 0) /\ IsSt(w, s.n, s.f, fds)
        BY <1>3, EntrySet
      <3> QED
        BY <1>6, <3>1
    <2>10. fds[d] = ent
      BY <1>1, <1>3, SetEntryIs
    <2> HIDE DEF h, w, fds, v, p
    <2>11. w.n = s.n /\ w.f = s.f /\ w.fds = fds
      BY <2>9 DEF IsSt
    <2>12. IsSt(v, w.n, h, w.fds)
      BY <2>8, <2>11
    <2>13. ASSUME NEW j \in FileIds
           PROVE  /\ h[j].kind = w.f[j].kind /\ h[j].node = w.f[j].node
                  /\ h[j].refs + One(j = 0) = w.f[j].refs + One(j = 0)
                  /\ w.f[j].kind = "free" <=> h[j].refs = 0
      <3>1. s.f[j].kind = "free" <=> s.f[j].refs = 0
        BY <1>1 DEF FilesOK
      <3>2. h[j].kind = s.f[j].kind /\ h[j].node = s.f[j].node /\ h[j].refs = s.f[j].refs
        BY <1>4, <2>2, <2>3, <2>4, <2>5
      <3> QED
        BY <2>11, <3>1, <3>2
    <2>14. Sys(v, E, t, 0, 0)
      BY <2>5, <2>9, <2>12, <2>13, SysFiles
    <2>15. v.fds[d].file = k /\ k # 0
      BY <1>3, <2>8, <2>10, FileIs DEF IsSt
    <2> QED
      BY <1>6, <2>14, <2>15 DEF v
  <1>7. r.fd = -1 \/ r.fd \in Fds
    BY <1>2
  <1> HIDE DEF v
  <1>8. Sys(v, E, t, 0, 0) /\ (r.fd = -1 \/ (r.fd \in Fds /\ v.fds[r.fd].file # 0))
    BY <1>2, <1>5, <1>6
  <1> QED
    BY <1>8 DEF v, r

LEMMA SysSame ==
    ASSUME NEW s, NEW E, NEW t, NEW x, NEW y, Sys(s, E, t, x, y), NEW v,
           IsSt(v, s.n, s.f, s.fds)
    PROVE  Sys(v, E, t, x, y)
  BY DEF Sys, IsSt

\* Closing the descriptors of a set, from the lowest up.
LEMMA ReleaseAllIs ==
    ASSUME NEW s, NEW E, NEW t \in Tables, Sys(s, E, t, 0, 0), NEW fds
    PROVE  LET v == ReleaseAll(s, fds)
           IN  Sys(v, E, t, 0, 0) /\ \A d \in Fds : d \in fds => v.fds[d].file = 0
  <1> DEFINE N == MaximumFds
  <1>1. N \in Nat /\ \A k \in 1..N : k - 1 \in Fds /\ k - 1 \in Nat
    BY VfsAssumption DEF Fds
  <1>2. PICK at : ReleaseTrace(s, fds, at)
    BY <1>1, ReleaseStates
  <1>3. /\ ReleaseAll(s, fds) = at[N] /\ at[0] = s
        /\ \A k \in 1..N : at[k] = ReleaseOne(at[k - 1], fds, k - 1)
    BY <1>2 DEF ReleaseTrace
  <1> DEFINE P(k) == /\ Sys(at[k], E, t, 0, 0)
                     /\ \A d \in Fds : d < k /\ d \in fds => at[k].fds[d].file = 0
             Bad == {k \in 0..N : ~P(k)}
  <1>4. P(0)
    BY <1>3, FileIs
  <1>5. ASSUME NEW k \in 1..N, P(k - 1) PROVE P(k)
    <2> DEFINE o == at[k - 1]
               c == k - 1
               v == at[k]
    <2>1. c \in Fds /\ c \in Nat /\ v = ReleaseOne(o, fds, c) /\ Sys(o, E, t, 0, 0)
      BY <1>1, <1>3, <1>5
    <2>2. \A d \in Fds : d < k => d < c \/ d = c
      BY <1>1, FileIs
    <2>3. \A d \in Fds : d < c /\ d \in fds => o.fds[d].file = 0
      BY <1>5
    <2> HIDE DEF o, v, c
    <2>4. CASE c \in fds /\ o.fds[c].file # 0
      <3>1. v = CloseIn(o, c)
        BY <2>1, <2>4 DEF ReleaseOne
      <3>2. Sys(v, E, t, 0, 0) /\ v.fds = SetFds(o.fds, c, NoEntry)
        BY <2>1, <2>4, <3>1, CloseIs
      <3>3. o \in St
        BY <2>1 DEF Sys
      <3>4. /\ SetFds(o.fds, c, NoEntry)[c] = NoEntry
            /\ \A d \in Fds : d # c => SetFds(o.fds, c, NoEntry)[d] = o.fds[d]
        BY <2>1, <3>3, FileIs, SetEntryIs
      <3>5. ASSUME NEW d \in Fds, d < k, d \in fds PROVE v.fds[d].file = 0
        BY <2>2, <2>3, <3>2, <3>4, <3>5, FileIs
      <3> QED
        BY <3>2, <3>5 DEF v
    <2>5. CASE ~(c \in fds /\ o.fds[c].file # 0)
      <3>1. v = o
        BY <2>1, <2>5 DEF ReleaseOne
      <3>2. ASSUME NEW d \in Fds, d < k, d \in fds PROVE v.fds[d].file = 0
        BY <2>2, <2>3, <2>5, <3>1, <3>2
      <3> QED
        BY <2>1, <3>1, <3>2 DEF v
    <2> QED
      BY <2>4, <2>5
  <1> HIDE DEF P
  <1>6. Bad = {}
    <2>1. Bad \subseteq 0..N /\ 0 \notin Bad
      BY <1>4
    <2>2. \A k \in 1..N : k \in Bad => k - 1 \in Bad
      BY <1>1, <1>5
    <2> HIDE DEF Bad, N
    <2> QED
      BY <1>1, <2>1, <2>2, Downwards
  <1>7. P(N)
    <2>1. N \in 0..N
      BY <1>1
    <2> QED
      BY <1>6, <2>1
  <1>8. \A d \in Fds : d < N
    BY VfsAssumption DEF Fds
  <1> QED
    BY <1>3, <1>7, <1>8 DEF P

\* The first k descriptors.
FirstFds(fds, k) == [d \in Fds |-> IF d < k THEN fds[d] ELSE NoEntry]

\* A table u of its own, with a reference to every file of t.
LEMMA CloneIs ==
    ASSUME NEW s, NEW E, NEW t \in Tables, NEW u \in Tables, t # u, Sys(s, E, t, 0, 0),
           \A d \in Fds : E[<<t, d>>] = s.fds[d].file,
           \A d \in Fds : E[<<u, d>>] = 0
    PROVE  LET v == ns_vfs_fdtable_clone(s)
           IN  Sys(v, E, u, 0, 0) /\ v.fds = s.fds
  <1> DEFINE N == MaximumFds
             F(k) == FirstFds(s.fds, k)
  <1>1. N \in Nat /\ \A k \in 1..N : k - 1 \in Fds /\ k - 1 \in Nat
    BY VfsAssumption DEF Fds
  <1>2. PICK at : CloneTrace(s, at)
    BY <1>1, CloneStates
  <1>3. /\ ns_vfs_fdtable_clone(s) = at[N] /\ at[0] = s
        /\ \A k \in 1..N : at[k] = CloneOne(at[k - 1], k - 1)
    BY <1>2 DEF CloneTrace
  <1> DEFINE P(k) == /\ at[k] \in St /\ at[k].fds = s.fds
                     /\ \E w : Sys(w, E, u, 0, 0) /\ IsSt(w, at[k].n, at[k].f, F(k))
             Bad == {k \in 0..N : ~P(k)}
  <1>4. s \in St /\ s.fds \in [Fds -> Entry] /\ \A k : F(k) \in [Fds -> Entry]
    BY FileIs DEF Sys, St, FirstFds
  <1>5. P(0)
    <2> DEFINE w == [n |-> s.n, f |-> s.f, fds |-> F(0)]
    <2>1. IsSt(w, s.n, s.f, F(0))
      BY <1>4 DEF IsSt, St
    <2>2. \A d \in Fds : F(0)[d] = NoEntry
      BY FileIs DEF FirstFds
    <2>3. At(E, u, F(0)) = At(E, t, s.fds)
      <3>1. ASSUME NEW q \in Tables \X Fds
            PROVE  (IF q[1] = u THEN F(0)[q[2]].file ELSE E[q])
                    = (IF q[1] = t THEN s.fds[q[2]].file ELSE E[q])
        <4>1. PICK a \in Tables, b \in Fds : q = <<a, b>>
          OBVIOUS
        <4>2. q[1] = a /\ q[2] = b
          BY <4>1
        <4>3. F(0)[b].file = 0 /\ E[<<u, b>>] = 0 /\ E[<<t, b>>] = s.fds[b].file
          BY <2>2, FileIs
        <4> QED
          BY <4>1, <4>2, <4>3
      <3> HIDE DEF F
      <3> QED
        BY <3>1 DEF At
    <2>4. w \in St /\ w.n = s.n /\ w.f = s.f /\ w.fds = F(0)
      BY <2>1 DEF IsSt
    <2> HIDE DEF w, F
    <2>5. Sys(w, E, u, 0, 0)
      BY <2>3, <2>4 DEF Sys
    <2> QED
      BY <1>3, <1>4, <2>1, <2>5
  <1>6. ASSUME NEW k \in 1..N, P(k - 1) PROVE P(k)
    <2> DEFINE o == at[k - 1]
               c == k - 1
               v == at[k]
               x == s.fds[c].file
    <2>1. c \in Fds /\ c \in Nat /\ v = CloneOne(o, c) /\ o \in St /\ o.fds = s.fds
      BY <1>1, <1>3, <1>6
    <2>2. PICK w : Sys(w, E, u, 0, 0) /\ IsSt(w, o.n, o.f, F(c))
      BY <1>6
    <2>3. \A d \in Fds : (d < k <=> d < c \/ d = c) /\ ~(c < c)
      BY <1>1, FileIs
    <2>4. F(k) \in [Fds -> Entry] /\ s.fds[c] \in Entry /\ F(c)[c] = NoEntry /\ F(k)[c] = s.fds[c]
          /\ \A d \in Fds : d # c => F(k)[d] = F(c)[d]
      BY <1>4, <2>1, <2>3 DEF FirstFds
    <2>5. F(k) = SetFds(F(c), c, s.fds[c])
      <3>1. F(c) \in [Fds -> Entry]
        BY <1>4
      <3> HIDE DEF F, c
      <3>2. \A d \in Fds : F(k)[d] = SetFds(F(c), c, s.fds[c])[d]
        BY <2>1, <2>4, <3>1 DEF SetFds
      <3>3. SetFds(F(c), c, s.fds[c]) \in [Fds -> Entry]
        BY <2>1, <2>4, <3>1 DEF SetFds
      <3> QED
        BY <2>4, <3>2, <3>3
    <2> HIDE DEF o, v, c, F, x
    <2>6. w \in St /\ w.n = o.n /\ w.f = o.f /\ w.fds = F(c)
      BY <2>2 DEF IsSt
    <2>7. CASE x = 0
      <3>1. v = o
        BY <2>1, <2>7 DEF CloneOne, x
      <3> DEFINE z == SetEntry(w, c, s.fds[c])
      <3>2. Sys(z, E, u, w.fds[c].file, 0) /\ IsSt(z, w.n, w.f, SetFds(w.fds, c, s.fds[c]))
        BY <2>1, <2>2, <2>4, <2>7, EntrySet DEF x
      <3>3. w.fds[c].file = 0
        BY <2>4, <2>6, FileIs
      <3> HIDE DEF z
      <3>4. Sys(z, E, u, 0, 0) /\ IsSt(z, v.n, v.f, F(k))
        BY <2>5, <2>6, <3>1, <3>2, <3>3
      <3> QED
        BY <2>1, <3>1, <3>4 DEF v
    <2>8. CASE x # 0
      <3> DEFINE r == ns_vfs_file_retain(w, x)
                 z == SetEntry(r, c, s.fds[c])
      <3>1. x \in FileIds /\ w.f[x].kind # "free"
        <4> DEFINE D == At(E, u, w.fds)
        <4>1. x \in FileIds
          BY <2>4, <2>8 DEF x, Entry
        <4>2. D[<<t, c>>] = x
          BY <2>1 DEF At, x
        <4>3. <<t, c>> \in EntriesOf(D, x)
          BY <2>1, <4>2 DEF EntriesOf
        <4> HIDE DEF D
        <4>4. Cardinality(EntriesOf(D, x)) \in Nat \ {0} /\ One(x = 0) = 0
          BY <2>8, <4>3, EntriesFinite DEF One
        <4>5. /\ w.f[x].refs = Cardinality(EntriesOf(D, x)) + One(x = 0)
              /\ w.f[x].kind = "free" <=> w.f[x].refs = 0
          BY <2>2, <4>1 DEF Sys, FilesOK, D
        <4> QED
          BY <4>1, <4>4, <4>5
      <3>2. v = ns_vfs_file_retain(o, x)
        BY <2>1, <2>8 DEF CloneOne, x
      <3>3. Sys(r, E, u, x, 0) /\ r.fds = w.fds
        BY <2>2, <3>1, FileRetain
      <3>4. IsSt(v, o.n, SetFile(o.f, x, [o.f[x] EXCEPT !.refs = o.f[x].refs + 1]), o.fds)
        BY <2>1, <3>1, <3>2, FileRetainIs
      <3>5. IsSt(r, w.n, SetFile(w.f, x, [w.f[x] EXCEPT !.refs = w.f[x].refs + 1]), w.fds)
        BY <2>6, <3>1, FileRetainIs
      <3> HIDE DEF r, v
      <3>6. v \in St /\ r \in St /\ v.n = r.n /\ v.f = r.f /\ v.fds = o.fds
        BY <2>6, <3>4, <3>5 DEF IsSt
      <3>7. Sys(z, E, u, r.fds[c].file, 0) /\ IsSt(z, r.n, r.f, SetFds(r.fds, c, s.fds[c]))
        BY <2>1, <2>4, <3>3, EntrySet DEF x
      <3>8. r.fds[c].file = 0 /\ SetFds(r.fds, c, s.fds[c]) = F(k)
        BY <2>4, <2>5, <2>6, <3>3, FileIs
      <3> HIDE DEF z
      <3>9. Sys(z, E, u, 0, 0) /\ IsSt(z, v.n, v.f, F(k))
        BY <3>6, <3>7, <3>8
      <3> QED
        BY <2>1, <3>6, <3>9 DEF v
    <2> QED
      BY <2>7, <2>8
  <1> HIDE DEF P
  <1>7. Bad = {}
    <2>1. Bad \subseteq 0..N /\ 0 \notin Bad
      BY <1>5
    <2>2. \A k \in 1..N : k \in Bad => k - 1 \in Bad
      BY <1>1, <1>6
    <2> HIDE DEF Bad, N
    <2> QED
      BY <1>1, <2>1, <2>2, Downwards
  <1>8. P(N)
    <2>1. N \in 0..N
      BY <1>1
    <2> QED
      BY <1>7, <2>1
  <1>9. F(N) = s.fds
    <2>1. \A d \in Fds : d < N
      BY VfsAssumption DEF Fds
    <2> QED
      BY <1>4, <2>1 DEF FirstFds
  <1> DEFINE v == at[N]
  <1> HIDE DEF F
  <1>10. /\ v \in St /\ v.fds = s.fds
         /\ \E w : Sys(w, E, u, 0, 0) /\ IsSt(w, v.n, v.f, s.fds)
    BY <1>8, <1>9 DEF P
  <1> HIDE DEF v
  <1>11. Sys(v, E, u, 0, 0)
    BY <1>10, SysSame DEF IsSt
  <1> QED
    BY <1>3, <1>10, <1>11 DEF v

SetNodes(s, n) == [s EXCEPT !.n = n]

LEMMA SetNodesIs ==
    ASSUME NEW s \in St, NEW n \in [NodeIds -> Node]
    PROVE  IsSt(SetNodes(s, n), n, s.f, s.fds)
  BY DEF SetNodes, IsSt, St

\* The call changes the nodes, and what it holds of them.
LEMMA SysNodes ==
    ASSUME NEW s, NEW E, NEW t, NEW x, NEW y, NEW z, Sys(s, E, t, x, y), NEW n,
           Good(n, s.f, Roots, RootsOf(mounts), z), Grows(s.n, n, Roots)
    PROVE  Sys(SetNodes(s, n), E, t, x, z) /\ IsSt(SetNodes(s, n), n, s.f, s.fds)
  <1> DEFINE v == SetNodes(s, n)
  <1>1. s \in St /\ n \in [NodeIds -> Node] /\ FilesOK(s.f, At(E, t, s.fds), x)
    BY DEF Sys, Good, Tree, Typed
  <1>2. IsSt(v, n, s.f, s.fds)
    BY <1>1, SetNodesIs
  <1> HIDE DEF v
  <1>3. Grows(node, n, Roots)
    BY GrowsOn DEF Sys
  <1>4. Sys(v, E, t, x, z)
    BY <1>1, <1>2, <1>3 DEF Sys, IsSt
  <1> QED
    BY <1>2, <1>4 DEF v

\* A file is made, for node i or for none, and its maker holds it.
LEMMA MakesFile ==
    ASSUME NEW s, NEW E, NEW t, NEW y \in NodeIds \cup {0}, Sys(s, E, t, 0, y), NEW k \in FileIds,
           s.f[k].kind = "free", NEW new \in File, new.refs = 1, new.kind # "free",
           IF new.kind = "vnode" THEN y \in NodeIds /\ new.node = y ELSE y = 0,
           NEW v, IsSt(v, s.n, SetFile(s.f, k, new), s.fds)
    PROVE  Sys(v, E, t, k, 0)
  <1> DEFINE D == At(E, t, s.fds)
             g == SetFile(s.f, k, new)
             R == Roots
             M == RootsOf(mounts)
  <1>1. /\ s \in St /\ s.f \in [FileIds -> File] /\ FilesOK(s.f, D, 0) /\ Good(s.n, s.f, R, M, y)
        /\ Grows(node, s.n, R)
    BY DEF Sys, St
  <1>2. g \in [FileIds -> File] /\ g[k] = new /\ \A j \in FileIds : j # k => g[j] = s.f[j]
    BY <1>1, SetFileIs
  <1> HIDE DEF g
  <1>3. Good(s.n, g, R, M, 0)
    <2>1. CASE new.kind = "vnode"
      BY <1>1, <1>2, <2>1, HoldsFile
    <2>2. CASE new.kind # "vnode"
      <3>1. y = 0
        BY <2>2
      <3>2. \A j \in FileIds : (s.f[j].kind = "vnode" <=> g[j].kind = "vnode")
                               /\ (s.f[j].kind = "vnode" => g[j].node = s.f[j].node)
        BY <1>2, <2>2
      <3> QED
        BY <1>1, <3>1, <3>2, OtherFiles
    <2> QED
      BY <2>1, <2>2
  <1> HIDE DEF D
  <1>4. ASSUME NEW j \in FileIds
        PROVE  /\ g[j].kind = "vnode" => g[j].node \in NodeIds
               /\ g[j].refs = Cardinality(EntriesOf(D, j)) + One(j = k)
               /\ g[j].kind = "free" <=> g[j].refs = 0
    <2>1. /\ s.f[j].kind = "vnode" => s.f[j].node \in NodeIds
          /\ s.f[j].refs = Cardinality(EntriesOf(D, j)) + One(j = 0)
          /\ s.f[j].kind = "free" <=> s.f[j].refs = 0
          /\ Cardinality(EntriesOf(D, j)) \in Nat /\ One(j = 0) = 0
          /\ One(j = k) = IF j = k THEN 1 ELSE 0
      BY <1>1, EntriesFinite, FileIs DEF FilesOK, One
    <2>2. CASE j = k
      <3>1. Cardinality(EntriesOf(D, j)) = 0 /\ One(j = k) = 1
        BY <2>1, <2>2
      <3>2. g[j] = new
        BY <1>2, <2>2
      <3> QED
        BY <3>1, <3>2
    <2>3. CASE j # k
      BY <1>2, <2>1, <2>3
    <2> QED
      BY <2>2, <2>3
  <1>5. FilesOK(g, D, k)
    BY <1>2, <1>4 DEF FilesOK
  <1>6. v \in St /\ v.n = s.n /\ v.f = g /\ v.fds = s.fds
    BY DEF IsSt, g
  <1> QED
    BY <1>1, <1>3, <1>5, <1>6 DEF Sys, D

\* A call that opens answers with a descriptor that is open, or -1.
Opens(r, E, t) ==
    Sys(r.s, E, t, 0, 0) /\ (r.fd = -1 \/ (r.fd \in Fds /\ r.s.fds[r.fd].file # 0))

LEMMA OpenNodeIs ==
    ASSUME NEW s, NEW E, NEW t \in Tables, NEW i \in NodeIds, Sys(s, E, t, 0, i),
           s.n[i].type # "free", NEW ro \in BOOLEAN, NEW device \in BOOLEAN, NEW flags, NEW fault
    PROVE  Opens(OpenNode(s, i, ro, device, flags, fault), E, t)
  <1> DEFINE n == IF "TRUNC" \in flags THEN fs_truncate(s.n, i) ELSE s.n
             m == IF device THEN node_release(n, i) ELSE n
             free == FreeFiles(s.f)
             k == Smallest(free)
             new == [FreeFile EXCEPT !.kind = IF device THEN "device" ELSE "vnode",
                                     !.refs = 1, !.ro = ro,
                                     !.flags = flags \cap StatusFlags,
                                     !.node = IF device THEN 0 ELSE i]
             w == [s EXCEPT !.n = m, !.f[k] = new]
             in == ns_vfs_fd_install(w, k, 0, "CLOEXEC" \in flags)
             gone == free = {} \/ fault = "file" \/ (device /\ fault = "open")
             r == OpenNode(s, i, ro, device, flags, fault)
             R == Roots
             M == RootsOf(mounts)
  <1>1. /\ s \in St /\ s.f \in [FileIds -> File] /\ Good(s.n, s.f, R, M, i)
    BY DEF Sys, St
  <1>2. Good(n, s.f, R, M, i) /\ Grows(s.n, n, R)
    <2>1. Good(fs_truncate(s.n, i), s.f, R, M, i) /\ Grows(s.n, fs_truncate(s.n, i), R)
      BY <1>1, TruncateGood
    <2> QED
      BY <1>1, <2>1, GrowsOn
  <1>3. Good(node_release(n, i), s.f, R, M, 0) /\ Grows(s.n, node_release(n, i), R)
    <2> HIDE DEF n
    <2>1. Good(node_release(n, i), s.f, R, M, 0) /\ Grows(n, node_release(n, i), R)
      BY <1>2, ReleaseGood
    <2> QED
      BY <1>2, <2>1, GrowsOn
  <1>4. r = IF gone THEN [s |-> SetNodes(s, node_release(n, i)), fd |-> -1]
            ELSE [in EXCEPT !.s = ns_vfs_file_release(in.s, k)]
    BY DEF OpenNode, SetNodes
  <1> HIDE DEF n
  <1>5. CASE gone
    <2> DEFINE v == SetNodes(s, node_release(n, i))
    <2>1. Sys(v, E, t, 0, 0)
      BY <1>3, SysNodes
    <2> HIDE DEF v, r
    <2>2. r.s = v /\ r.fd = -1
      BY <1>4, <1>5 DEF v
    <2> QED
      BY <2>1, <2>2 DEF Opens, r
  <1>6. CASE ~gone
    <2>1. k \in FileIds /\ s.f[k].kind = "free"
      <3>1. free \in SUBSET Nat /\ free # {} /\ free \subseteq FileIds
        BY <1>6, FileIs DEF FreeFiles
      <3>2. k \in free
        <4> HIDE DEF free
        <4> QED
          BY <3>1, SmallestIs
      <3> QED
        BY <3>2 DEF FreeFiles
    <2> HIDE DEF k, free
    <2>2. new \in File /\ new.refs = 1 /\ new.kind = (IF device THEN "device" ELSE "vnode")
          /\ new.node = IF device THEN 0 ELSE i
      BY DEF FreeFile, File
    <2> HIDE DEF new
    <2> DEFINE z == SetNodes(s, m)
               y == IF device THEN 0 ELSE i
    <2>3. Sys(z, E, t, 0, y) /\ IsSt(z, m, s.f, s.fds)
      <3>1. Good(m, s.f, R, M, y) /\ Grows(s.n, m, R)
        BY <1>2, <1>3
      <3> HIDE DEF m, y
      <3> QED
        BY <3>1, SysNodes
    <2>4. IsSt(w, m, SetFile(s.f, k, new), s.fds)
      <3>1. m \in [NodeIds -> Node]
        BY <1>2, <1>3 DEF Good, Tree, Typed
      <3>2. SetFile(s.f, k, new) \in [FileIds -> File]
        BY <1>1, <2>1, <2>2, SetFileIs
      <3> DEFINE g == SetFile(s.f, k, new)
      <3>3. w = [s EXCEPT !.n = m, !.f = g]
        BY DEF SetFile
      <3> HIDE DEF m, w, g
      <3>4. IsSt(w, m, g, s.fds)
        BY <1>1, <3>1, <3>2, <3>3 DEF IsSt, St, g
      <3> QED
        BY <3>4 DEF g
    <2>5. y \in NodeIds \cup {0}
          /\ (IF new.kind = "vnode" THEN y \in NodeIds /\ new.node = y ELSE y = 0)
          /\ new.kind # "free"
      BY <2>2
    <2> HIDE DEF z, y, w, m
    <2>6. z.n = m /\ z.f = s.f /\ z.fds = s.fds
      BY <2>3 DEF IsSt
    <2>7. Sys(w, E, t, k, 0)
      BY <2>1, <2>2, <2>3, <2>4, <2>5, <2>6, MakesFile
    <2> DEFINE v == ns_vfs_file_release(in.s, k)
               cloexec == "CLOEXEC" \in flags
    <2>8. cloexec \in BOOLEAN
      OBVIOUS
    <2>9. Sys(v, E, t, 0, 0) /\ (in.fd = -1 \/ (in.fd \in Fds /\ v.fds[in.fd].file # 0))
      BY <2>1, <2>7, <2>8, MakerInstalls
    <2>10. r.s = v /\ r.fd = in.fd
      <3>1. in = [s |-> in.s, fd |-> in.fd]
        BY DEF ns_vfs_fd_install
      <3>2. r = [in EXCEPT !.s = v]
        BY <1>4, <1>6 DEF free, k, new, w, m
      <3> HIDE DEF in, v, r
      <3> QED
        BY <3>1, <3>2
    <2> HIDE DEF in, v, r
    <2> QED
      BY <2>9, <2>10 DEF Opens, r
  <1> QED
    BY <1>5, <1>6

LEMMA FoundOrMadeIs ==
    ASSUME MountsUp, NEW n, NEW f, NEW R, NEW M, Good(n, f, R, M, 0), RootsOf(mounts) \subseteq R,
           NEW path \in Seq(STRING), NEW p, NEW flags, NEW fault
    PROVE  LET r == FoundOrMade(resolve_canonical(n, path), path, p, flags, fault)
           IN  Obtained(r, n, f, R, M) /\ (r.st = "OK" => r.mount \in mounts)
  <1> DEFINE q == resolve_canonical(n, path)
             r == FoundOrMade(q, path, p, flags, fault)
             a == q.st = "OK" /\ {"CREAT", "EXCL"} \subseteq flags
             b == q.st = "ENOENT" /\ "CREAT" \in flags /\ ~p.slash
             oom == fault = "node"
  <1>1. Holds(q, n, R) /\ q.mount \in mounts
    BY ResolveIs
  <1> HIDE DEF q
  <1>2. Obtained(q, n, f, R, M)
    BY <1>1, HeldIsObtained
  <1> DEFINE z == Refused(q, "EEXIST")
             v == CreateAt(q.n, path, "reg", oom)
  <1>3. Obtained(z, n, f, R, M) /\ (z.st = "OK" => z.mount \in mounts)
    <2>1. IsResult(z) /\ z.n = n /\ z.st = "EEXIST" /\ z.id = 0
      BY <1>1, RefusedIs
    <2> HIDE DEF z
    <2> QED
      BY <2>1 DEF Obtained
  <1>4. q.st # "OK" => Obtained(v, n, f, R, M) /\ (v.st = "OK" => v.mount \in mounts)
    <2> SUFFICES ASSUME q.st # "OK"
                 PROVE  Obtained(v, n, f, R, M) /\ (v.st = "OK" => v.mount \in mounts)
      OBVIOUS
    <2>1. q.n = n
      BY <1>1 DEF Holds
    <2>2. oom \in BOOLEAN
      OBVIOUS
    <2> HIDE DEF oom
    <2>3. /\ Obtained(CreateAt(n, path, "reg", oom), n, f, R, M)
          /\ CreateAt(n, path, "reg", oom).st = "OK" =>
                CreateAt(n, path, "reg", oom).mount \in mounts
      BY <2>2, CreateAtIs
    <2> QED
      BY <2>1, <2>3
  <1>5. r = CASE a -> z [] b -> v [] OTHER -> q
    BY DEF FoundOrMade
  <1>6. a => ~b
    OBVIOUS
  <1>7. b => q.st # "OK"
    OBVIOUS
  <1> HIDE DEF a, b, r, z, v
  <1>8. r = z \/ (b /\ r = v) \/ r = q
    BY <1>5, <1>6
  <1> QED
    BY <1>1, <1>2, <1>3, <1>4, <1>7, <1>8 DEF r, q

LEMMA OpenCheckedIs ==
    ASSUME MountsOK(mounts), NEW s, NEW E, NEW t \in Tables, Sys(s, E, t, 0, 0), NEW r,
           Obtained(r, s.n, s.f, Roots, RootsOf(mounts)), r.st = "OK" => r.mount \in mounts,
           NEW path, NEW p, NEW flags, NEW fault
    PROVE  Opens(OpenChecked(s, r, path, p, flags, fault), E, t)
  <1> DEFINE type == r.n[r.id].type
             Error(n) == [s |-> SetNodes(s, n), fd |-> -1]
             check == OpenCheck(type, r.mount.ro, p, flags)
             device == type = "char" /\ find_device(path)
             last == OpenNode(SetNodes(s, r.n), r.id, r.mount.ro, device, flags, fault)
             v == OpenChecked(s, r, path, p, flags, fault)
             R == Roots
             M == RootsOf(mounts)
  <1>1. s \in St /\ Good(s.n, s.f, R, M, 0)
    BY DEF Sys
  <1>2. v = CASE r.st # "OK" -> Error(r.n)
              [] check # "OK" -> Error(node_release(r.n, r.id))
              [] OTHER -> last
    BY DEF OpenChecked, SetNodes
  <1>3. ASSUME NEW n, Good(n, s.f, R, M, 0), Grows(s.n, n, R) PROVE Opens(Error(n), E, t)
    <2>1. Sys(SetNodes(s, n), E, t, 0, 0)
      BY <1>3, SysNodes
    <2> QED
      BY <2>1 DEF Opens
  <1>4. r.st # "OK" => Opens(Error(r.n), E, t)
    <2> SUFFICES ASSUME r.st # "OK" PROVE Opens(Error(r.n), E, t)
      OBVIOUS
    <2>1. r.n = s.n
      BY DEF Obtained
    <2> HIDE DEF Error
    <2> QED
      BY <1>1, <1>3, <2>1, GrowsOn
  <1>5. Opens(Error(node_release(r.n, r.id)), E, t)
    <2>1. CASE r.st = "OK"
      <3>1. r.id \in NodeIds /\ Good(r.n, s.f, R, M, r.id) /\ Grows(s.n, r.n, R)
        BY <2>1 DEF Obtained
      <3>2. Good(node_release(r.n, r.id), s.f, R, M, 0) /\ Grows(r.n, node_release(r.n, r.id), R)
        BY <3>1, ReleaseGood
      <3>3. Grows(s.n, node_release(r.n, r.id), R)
        BY <3>1, <3>2, GrowsOn
      <3> HIDE DEF Error
      <3> QED
        BY <1>3, <3>2, <3>3
    <2>2. CASE r.st # "OK"
      <3>1. r.n = s.n /\ r.id = 0
        BY <2>2 DEF Obtained
      <3>2. node_release(r.n, r.id) = s.n
        BY <3>1, Ids DEF node_release, Counted
      <3> HIDE DEF Error
      <3> QED
        BY <1>1, <1>3, <3>2, GrowsOn
    <2> QED
      BY <2>1, <2>2
  <1>6. r.st = "OK" => Opens(last, E, t)
    <2> SUFFICES ASSUME r.st = "OK" PROVE Opens(last, E, t)
      OBVIOUS
    <2> DEFINE w == SetNodes(s, r.n)
               ro == r.mount.ro
    <2>1. /\ r.id \in NodeIds /\ Good(r.n, s.f, R, M, r.id) /\ Grows(s.n, r.n, R)
          /\ r.n[r.id].type # "free"
      BY DEF Obtained
    <2>2. Sys(w, E, t, 0, r.id) /\ IsSt(w, r.n, s.f, s.fds)
      BY <2>1, SysNodes
    <2>3. ro \in BOOLEAN /\ device \in BOOLEAN
      BY DEF MountsOK, Mount, find_device
    <2> HIDE DEF w, ro, device
    <2>4. w.n[r.id].type # "free"
      BY <2>1, <2>2 DEF IsSt
    <2>5. Opens(OpenNode(w, r.id, ro, device, flags, fault), E, t)
      BY <2>1, <2>2, <2>3, <2>4, OpenNodeIs
    <2> QED
      BY <2>5 DEF w, ro
  <1> HIDE DEF last, Error, check, v
  <1>7. \/ r.st # "OK" /\ v = Error(r.n)
        \/ v = Error(node_release(r.n, r.id))
        \/ r.st = "OK" /\ v = last
    BY <1>2
  <1> QED
    BY <1>4, <1>5, <1>6, <1>7 DEF v

LEMMA OpenIs ==
    ASSUME MountsUp, NEW s, NEW E, NEW t \in Tables, Sys(s, E, t, 0, 0), NEW cwd, Canonical(cwd),
           NEW p \in Paths, NEW flags, NEW fault
    PROVE  Opens(ns_vfs_open_in(s, cwd, p, flags, fault), E, t)
  <1> DEFINE c == ns_vfs_canonicalize(cwd, p)
             r == FoundOrMade(resolve_canonical(s.n, c.path), c.path, p, flags, fault)
             v == ns_vfs_open_in(s, cwd, p, flags, fault)
             w == OpenChecked(s, r, c.path, p, flags, fault)
             z == [s |-> s, fd |-> -1]
             R == Roots
             M == RootsOf(mounts)
  <1>1. Good(s.n, s.f, R, M, 0) /\ M \subseteq R
    BY DEF Sys, Roots
  <1>2. c.path \in Seq(STRING)
    BY CanonicalizeIs DEF Canonical
  <1>3. v = IF c.st # "OK" THEN z ELSE w
    BY DEF ns_vfs_open_in, ns_vfs_open_at
  <1> HIDE DEF c
  <1>4. Obtained(r, s.n, s.f, R, M) /\ (r.st = "OK" => r.mount \in mounts)
    BY <1>1, <1>2, FoundOrMadeIs
  <1> HIDE DEF r
  <1>5. Opens(w, E, t)
    BY <1>4, OpenCheckedIs DEF MountsUp
  <1>6. Opens(z, E, t)
    BY DEF Opens
  <1> HIDE DEF w, z, v
  <1> QED
    BY <1>3, <1>5, <1>6 DEF v

Applied(r, E, u) == Sys(r.s, E, u, 0, 0) /\ r.ok \in BOOLEAN

LEMMA SpawnOpenedIs ==
    ASSUME NEW E, NEW u \in Tables, NEW o, Opens(o, E, u), NEW a, a.fd # -1
    PROVE  Applied(SpawnOpened(o, a), E, u)
  <1> DEFINE cloexec == "CLOEXEC" \in a.flags
             w == ns_vfs_dup2_in(o.s, o.fd, a.fd, cloexec)
             m == IF a.fd \in Fds THEN w ELSE o.s
             v == CloseIn(m, o.fd)
             r == SpawnOpened(o, a)
             ok == a.fd \in Fds
  <1>1. Sys(o.s, E, u, 0, 0) /\ (o.fd = -1 \/ (o.fd \in Fds /\ o.s.fds[o.fd].file # 0))
    BY DEF Opens
  <1>3. CASE o.fd = -1
    <2>1. r = [s |-> o.s, ok |-> FALSE]
      BY <1>3 DEF SpawnOpened
    <2> HIDE DEF r
    <2> QED
      BY <1>1, <2>1 DEF Applied, r
  <1>4. CASE o.fd = a.fd
    <2>1. r = [s |-> o.s, ok |-> TRUE]
      BY <1>4 DEF SpawnOpened
    <2> HIDE DEF r
    <2> QED
      BY <1>1, <2>1 DEF Applied, r
  <1>5. CASE o.fd # -1 /\ o.fd # a.fd
    <2>1. r = [s |-> v, ok |-> ok]
      BY <1>5 DEF SpawnOpened
    <2>2. cloexec \in BOOLEAN /\ ok \in BOOLEAN
      OBVIOUS
    <2> HIDE DEF cloexec, ok
    <2>3. Sys(m, E, u, 0, 0) /\ m.fds[o.fd] = o.s.fds[o.fd]
      <3>1. CASE a.fd \in Fds
        <4>1. Sys(w, E, u, 0, 0) /\ \A c \in Fds : c # a.fd => w.fds[c] = o.s.fds[c]
          BY <1>1, <1>5, <2>2, <3>1, Dup2Is
        <4> HIDE DEF w
        <4> QED
          BY <1>1, <1>5, <3>1, <4>1
      <3>2. CASE a.fd \notin Fds
        <4> HIDE DEF w
        <4> QED
          BY <1>1, <3>2
      <3> QED
        BY <3>1, <3>2
    <2> HIDE DEF w, m
    <2>4. Sys(v, E, u, 0, 0)
      BY <1>1, <1>5, <2>3, CloseIs
    <2> HIDE DEF v, r
    <2> QED
      BY <2>1, <2>2, <2>4 DEF Applied, r
  <1> QED
    BY <1>3, <1>4, <1>5

LEMMA ActionIs ==
    ASSUME MountsUp, NEW s, NEW E, NEW u \in Tables, Sys(s, E, u, 0, 0), NEW cwd, Canonical(cwd),
           NEW a \in SpawnActions, NEW fault
    PROVE  Applied(ApplyAction(s, cwd, a, fault), E, u)
  <1> DEFINE r == ApplyAction(s, cwd, a, fault)
             o == ns_vfs_open_in(s, cwd, a.path, a.flags, fault)
             p == SpawnOpened(o, a)
             v == ns_vfs_dup2_in(s, a.source, a.fd, FALSE)
             w == CloseIn(s, a.fd)
  <1>1. a.type = "open" => a.path \in Paths
    BY DEF SpawnActions
  <1>3. CASE a.type = "dup2" /\ a.fd \in Fds /\ IsOpen(s, a.source)
    <2>1. r = [s |-> v, ok |-> TRUE]
      BY <1>3 DEF ApplyAction
    <2>2. Sys(v, E, u, 0, 0)
      BY <1>3, Dup2Is DEF IsOpen
    <2> HIDE DEF r, v
    <2> QED
      BY <2>1, <2>2 DEF Applied, r
  <1>4. CASE a.type = "close" /\ IsOpen(s, a.fd)
    <2>1. r = [s |-> w, ok |-> TRUE]
      BY <1>4 DEF ApplyAction
    <2>2. Sys(w, E, u, 0, 0)
      BY <1>4, CloseIs DEF IsOpen
    <2> HIDE DEF r, w
    <2> QED
      BY <2>1, <2>2 DEF Applied, r
  <1>5. CASE a.type = "open" /\ a.fd # -1
    <2>1. r = p
      BY <1>5 DEF ApplyAction
    <2>2. Opens(o, E, u)
      BY <1>1, <1>5, OpenIs
    <2> HIDE DEF o
    <2>3. Applied(p, E, u)
      BY <1>5, <2>2, SpawnOpenedIs
    <2> HIDE DEF r, p
    <2> QED
      BY <2>1, <2>3 DEF r
  <1>6. CASE /\ ~(a.type = "dup2" /\ a.fd \in Fds /\ IsOpen(s, a.source))
             /\ ~(a.type = "close" /\ IsOpen(s, a.fd))
             /\ ~(a.type = "open" /\ a.fd # -1)
    <2>1. r = [s |-> s, ok |-> FALSE]
      BY <1>6 DEF ApplyAction
    <2> HIDE DEF r
    <2> QED
      BY <2>1 DEF Applied, r
  <1> QED
    BY <1>3, <1>4, <1>5, <1>6

\* The whole list, up to the action that fails.
LEMMA ApplyIs ==
    ASSUME MountsUp, NEW s, NEW E, NEW u \in Tables, Sys(s, E, u, 0, 0), NEW cwd, Canonical(cwd),
           NEW actions \in Seq(SpawnActions), NEW fault
    PROVE  Applied(ns_proc_fd_apply_actions(s, cwd, actions, fault), E, u)
  <1> DEFINE N == Len(actions)
             z == [s |-> s, ok |-> TRUE]
  <1>1. N \in Nat /\ \A k \in 1..N : actions[k] \in SpawnActions
    OBVIOUS
  <1>2. PICK at : ApplyTrace(s, cwd, actions, fault, at)
    BY <1>1, ApplyStates
  <1>3. /\ ns_proc_fd_apply_actions(s, cwd, actions, fault) = at[N] /\ at[0] = z
        /\ \A k \in 1..N : at[k] = ApplyNext(at[k - 1], cwd, actions[k], fault)
    BY <1>2 DEF ApplyTrace
  <1> DEFINE P(k) == Applied(at[k], E, u)
             Bad == {k \in 0..N : ~P(k)}
  <1>4. P(0)
    <2>1. Applied(z, E, u)
      BY DEF Applied
    <2> HIDE DEF z
    <2> QED
      BY <1>3, <2>1
  <1>5. ASSUME NEW k \in 1..N, P(k - 1) PROVE P(k)
    <2> DEFINE o == at[k - 1]
               a == actions[k]
    <2>1. a \in SpawnActions /\ at[k] = ApplyNext(o, cwd, a, fault) /\ Applied(o, E, u)
      BY <1>1, <1>3, <1>5
    <2> HIDE DEF o, a
    <2>2. CASE o.ok
      <3>1. Applied(ApplyAction(o.s, cwd, a, fault), E, u)
        <4>1. Sys(o.s, E, u, 0, 0)
          BY <2>1 DEF Applied
        <4> QED
          BY <2>1, <4>1, ActionIs
      <3> QED
        BY <2>1, <2>2, <3>1 DEF ApplyNext
    <2>3. CASE ~o.ok
      BY <2>1, <2>3 DEF ApplyNext
    <2> QED
      BY <2>2, <2>3
  <1> HIDE DEF P
  <1>6. Bad = {}
    <2>1. Bad \subseteq 0..N /\ 0 \notin Bad
      BY <1>4
    <2>2. \A k \in 1..N : k \in Bad => k - 1 \in Bad
      BY <1>1, <1>5
    <2> HIDE DEF Bad, N
    <2> QED
      BY <1>1, <2>1, <2>2, Downwards
  <1>7. P(N)
    <2>1. N \in 0..N
      BY <1>1
    <2> QED
      BY <1>6, <2>1
  <1> QED
    BY <1>3, <1>7 DEF P

----------------------------------------------------------------------------
\* What a call on the descriptors of one table does to the whole.

LEMMA Begins ==
    ASSUME VfsInv, NEW t \in Tables, Exists(t)
    PROVE  /\ Sys(State(t), EntryMap(table), t, 0, 0) /\ Canonical(table[t].cwd)
           /\ State(t).fds = table[t].fds
           /\ \A d \in Fds : EntryMap(table)[<<t, d>>] = table[t].fds[d].file
  <1> DEFINE s == State(t)
             E == EntryMap(table)
  <1>1. /\ FilesOK(file, E, 0) /\ Good(node, file, Roots, RootsOf(mounts), 0) /\ TablesOK(table)
    BY DEF VfsInv, Roots
  <1>2. table[t] \in Table /\ Len(table[t].cwd) <= MaxDepth
    BY <1>1 DEF TablesOK, Exists
  <1>3. table[t].fds \in [Fds -> Entry] /\ Canonical(table[t].cwd)
    BY <1>2 DEF Table, Canonical
  <1>4. s \in St /\ s.n = node /\ s.f = file /\ s.fds = table[t].fds
    BY <1>1, <1>3 DEF State, St, FilesOK, Good, Tree, Typed
  <1>5. \A d \in Fds : E[<<t, d>>] = table[t].fds[d].file
    BY DEF EntryMap, Exists
  <1>6. At(E, t, table[t].fds) = E
    BY DEF EntryMap, At, Exists
  <1> HIDE DEF s, E
  <1>7. Sys(s, E, t, 0, 0)
    BY <1>1, <1>4, <1>6, GrowsOn DEF Sys
  <1> QED
    BY <1>3, <1>4, <1>5, <1>7 DEF s, E

\* The end of a call on the descriptors: the table of t holds fds, or is gone.
LEMMA Ends ==
    ASSUME VfsInv, up, UNCHANGED <<mounts, up>>, NEW t \in Tables, NEW s,
           Sys(s, EntryMap(table), t, 0, 0), node' = s.n, file' = s.f,
           TablesOK(table'), EntryMap(table') = At(EntryMap(table), t, s.fds)
    PROVE  VfsInv'
  <1> DEFINE R == Roots
             M == RootsOf(mounts)
  <1>1. /\ MountsOK(mounts) /\ \E m \in mounts : m.target = <<>>
        /\ Anchored(node, mounts) /\ Good(node, file, R, M, 0)
    BY DEF VfsInv, Roots
  <1>2. /\ s \in St /\ FilesOK(file', EntryMap(table'), 0) /\ Good(node', file', R, M, 0)
        /\ Grows(node, node', R)
    BY DEF Sys
  <1>3. Anchored(node', mounts)
    <2>1. M \subseteq R /\ Tree(node, R)
      BY <1>1 DEF Roots, Good
    <2> HIDE DEF R
    <2> QED
      BY <1>1, <1>2, <2>1, AnchoredGrows
  <1>4. mounts' = mounts /\ up' = up
    OBVIOUS
  <1>5. Anchored(node', mounts')
    BY <1>3, <1>4
  <1>6. Good(node', file', RootsOf(mounts') \cup {NsfsRoot}, RootsOf(mounts'), 0)
    BY <1>2, <1>4 DEF Roots
  <1>7. MountsOK(mounts') /\ \E m \in mounts' : m.target = <<>>
    BY <1>1, <1>4
  <1> QED
    BY <1>2, <1>4, <1>5, <1>6, <1>7 DEF VfsInv

LEMMA TableIs ==
    /\ EmptyTable \in Table /\ EmptyTable.cwd = <<>> /\ \A d \in Fds : EmptyTable.fds[d] = NoEntry
    /\ \A r \in Table : r # NoTable
    /\ Len(NoTable.cwd) = 0 /\ Len(EmptyTable.cwd) = 0 /\ 0 <= MaxDepth
  <1>1. <<>> \in Seq(STRING) /\ Len(<<>>) = 0 /\ 0 <= MaxDepth
    BY EmptyIsSeq, VfsAssumption
  <1>2. 0 \in Fds
    BY VfsAssumption DEF Fds
  <1>3. ASSUME NEW r \in Table PROVE r # NoTable
    <2>1. DOMAIN r.fds = Fds
      BY DEF Table
    <2>2. DOMAIN NoTable.fds = {}
      BY DEF NoTable
    <2> QED
      BY <1>2, <2>1, <2>2
  <1>4. EmptyTable \in Table /\ EmptyTable.cwd = <<>> /\ \A d \in Fds : EmptyTable.fds[d] = NoEntry
    BY <1>1, FileIs DEF EmptyTable, Table
  <1>5. Len(NoTable.cwd) = 0 /\ Len(EmptyTable.cwd) = 0
    BY <1>1 DEF NoTable, EmptyTable
  <1> QED
    BY <1>1, <1>3, <1>4, <1>5

\* One table changes: to new, whose descriptors are fds, or it goes and fds are free.
LEMMA OneTable ==
    ASSUME TablesOK(table), NEW t \in Tables, NEW new \in Table \cup {NoTable},
           Len(new.cwd) <= MaxDepth, NEW fds,
           \A d \in Fds : fds[d].file = IF new = NoTable THEN 0 ELSE new.fds[d].file,
           table' = [table EXCEPT ![t] = new]
    PROVE  TablesOK(table') /\ EntryMap(table') = At(EntryMap(table), t, fds)
  <1>1. table \in [Tables -> Table \cup {NoTable}] /\ \A u \in Tables : Len(table[u].cwd) <= MaxDepth
    BY DEF TablesOK
  <1>2. table' \in [Tables -> Table \cup {NoTable}] /\ table'[t] = new
        /\ \A u \in Tables : u # t => table'[u] = table[u]
    BY <1>1
  <1>3. TablesOK(table')
    BY <1>1, <1>2 DEF TablesOK
  <1>4. ASSUME NEW q \in Tables \X Fds
        PROVE  (IF table'[q[1]] = NoTable THEN 0 ELSE table'[q[1]].fds[q[2]].file)
                = IF q[1] = t THEN fds[q[2]].file ELSE EntryMap(table)[q]
    <2>1. PICK a \in Tables, b \in Fds : q = <<a, b>>
      OBVIOUS
    <2>2. q[1] = a /\ q[2] = b
      BY <2>1
    <2>3. EntryMap(table)[q] = IF table[a] = NoTable THEN 0 ELSE table[a].fds[b].file
      BY <2>2 DEF EntryMap
    <2> QED
      BY <1>2, <2>2, <2>3
  <1>5. EntryMap(table') = At(EntryMap(table), t, fds)
    <2> DEFINE E == EntryMap(table)
    <2>1. EntryMap(table') = [q \in Tables \X Fds |->
                IF table'[q[1]] = NoTable THEN 0 ELSE table'[q[1]].fds[q[2]].file]
      BY Zenon DEF EntryMap
    <2>2. At(E, t, fds) = [q \in Tables \X Fds |-> IF q[1] = t THEN fds[q[2]].file ELSE E[q]]
      BY Zenon DEF At
    <2> HIDE DEF E
    <2> QED
      BY <1>4, <2>1, <2>2 DEF E
  <1> QED
    BY <1>3, <1>5

SetTable(r, fds) == [r EXCEPT !.fds = fds]

LEMMA BecomesIs ==
    ASSUME VfsInv, up, NEW t \in Tables, Exists(t), NEW s, Sys(s, EntryMap(table), t, 0, 0),
           Becomes(t, s)
    PROVE  VfsInv'
  <1> DEFINE new == SetTable(table[t], s.fds)
  <1>1. TablesOK(table) /\ table[t] \in Table /\ Len(table[t].cwd) <= MaxDepth
        /\ s.fds \in [Fds -> Entry]
    BY DEF VfsInv, TablesOK, Exists, Sys, St
  <1>2. new \in Table /\ new.cwd = table[t].cwd /\ new.fds = s.fds
    BY <1>1 DEF SetTable, Table
  <1>3. table' = [table EXCEPT ![t] = new]
    BY DEF Becomes, SetTable
  <1> HIDE DEF new
  <1>4. \A d \in Fds : s.fds[d].file = IF new = NoTable THEN 0 ELSE new.fds[d].file
    BY <1>2, TableIs
  <1>5. TablesOK(table') /\ EntryMap(table') = At(EntryMap(table), t, s.fds)
    BY <1>1, <1>2, <1>3, <1>4, OneTable
  <1>6. UNCHANGED <<mounts, up>> /\ node' = s.n /\ file' = s.f
    BY DEF Becomes
  <1> QED
    BY <1>5, <1>6, Ends

LEMMA UpIs ==
    ASSUME VfsInv, up
    PROVE  /\ MountsUp /\ Good(node, file, Roots, RootsOf(mounts), 0) /\ RootsOf(mounts) \subseteq Roots
           /\ FilesOK(file, EntryMap(table), 0) /\ TablesOK(table) /\ Anchored(node, mounts)
           /\ Tree(node, Roots) /\ node \in [NodeIds -> Node]
  BY DEF VfsInv, MountsUp, Roots, Good, Tree, Typed

LEMMA CreateTable ==
    ASSUME VfsInv, NEW t \in Tables, ns_vfs_fdtable_create(t)
    PROVE  VfsInv'
  <1> DEFINE fds == EmptyTable.fds
             E == EntryMap(table)
             s == [n |-> node, f |-> file, fds |-> fds]
  <1>1. up /\ ~Exists(t) /\ table' = [table EXCEPT ![t] = EmptyTable] /\ UNCHANGED <<mounts, up>>
        /\ node' = node /\ file' = file
    BY DEF ns_vfs_fdtable_create
  <1>2. /\ Good(node, file, Roots, RootsOf(mounts), 0) /\ FilesOK(file, E, 0) /\ TablesOK(table)
        /\ node \in [NodeIds -> Node]
    BY <1>1, UpIs
  <1>3. TablesOK(table') /\ EntryMap(table') = At(E, t, fds)
    <2>1. \A d \in Fds : fds[d].file = IF EmptyTable = NoTable THEN 0 ELSE EmptyTable.fds[d].file
      BY TableIs
    <2>2. EmptyTable \in Table \cup {NoTable} /\ Len(EmptyTable.cwd) <= MaxDepth
      BY TableIs
    <2> HIDE DEF fds
    <2> QED
      BY <1>1, <1>2, <2>1, <2>2, OneTable
  <1>4. At(E, t, fds) = E
    <2>1. \A d \in Fds : fds[d].file = 0
      BY TableIs, FileIs
    <2> HIDE DEF fds
    <2>2. ASSUME NEW q \in Tables \X Fds PROVE q[1] = t => fds[q[2]].file = E[q]
      BY <1>1, <2>1 DEF EntryMap, Exists
    <2>3. E = [q \in Tables \X Fds |-> E[q]]
      BY DEF EntryMap
    <2> HIDE DEF E
    <2> QED
      BY <2>2, <2>3 DEF At
  <1>5. s \in St /\ s.n = node /\ s.f = file /\ s.fds = fds
    BY <1>2, TableIs DEF St, FilesOK, Table
  <1> HIDE DEF s, fds, E
  <1>6. Sys(s, E, t, 0, 0)
    BY <1>2, <1>4, <1>5, GrowsOn DEF Sys
  <1> QED
    BY <1>1, <1>3, <1>5, <1>6, Ends DEF E

LEMMA DestroyTable ==
    ASSUME VfsInv, NEW t \in Tables, ns_vfs_fdtable_destroy(t)
    PROVE  VfsInv'
  <1> DEFINE E == EntryMap(table)
             s == ReleaseAll(State(t), Fds)
  <1>1. up /\ Exists(t) /\ node' = s.n /\ file' = s.f /\ table' = [table EXCEPT ![t] = NoTable]
        /\ UNCHANGED <<mounts, up>>
    BY DEF ns_vfs_fdtable_destroy
  <1>2. Sys(State(t), E, t, 0, 0)
    BY <1>1, Begins
  <1>3. Sys(s, E, t, 0, 0) /\ \A d \in Fds : s.fds[d].file = 0
    BY <1>2, ReleaseAllIs
  <1> HIDE DEF s
  <1>4. TablesOK(table') /\ EntryMap(table') = At(E, t, s.fds)
    BY <1>1, <1>3, UpIs, TableIs, OneTable
  <1> QED
    BY <1>1, <1>3, <1>4, Ends

LEMMA OpenCallIs ==
    ASSUME VfsInv, NEW t \in Tables, NEW p \in Paths, NEW flags, NEW fault,
           ns_vfs_open(t, p, flags, fault)
    PROVE  VfsInv'
  <1> DEFINE r == ns_vfs_open_in(State(t), table[t].cwd, p, flags, fault)
  <1>1. up /\ Exists(t) /\ Becomes(t, r.s)
    BY DEF ns_vfs_open
  <1>2. Opens(r, EntryMap(table), t)
    BY <1>1, Begins, UpIs, OpenIs
  <1> HIDE DEF r
  <1> QED
    BY <1>1, <1>2, BecomesIs DEF Opens

LEMMA CloseCallIs ==
    ASSUME VfsInv, NEW t \in Tables, NEW d \in Fds, ns_vfs_close(t, d)
    PROVE  VfsInv'
  <1> DEFINE s == CloseIn(State(t), d)
  <1>1. up /\ Exists(t) /\ table[t].fds[d].file # 0 /\ Becomes(t, s)
    BY DEF ns_vfs_close, Held
  <1>2. Sys(State(t), EntryMap(table), t, 0, 0) /\ State(t).fds = table[t].fds
    BY <1>1, Begins
  <1>3. Sys(s, EntryMap(table), t, 0, 0)
    BY <1>1, <1>2, CloseIs
  <1> HIDE DEF s
  <1> QED
    BY <1>1, <1>3, BecomesIs

LEMMA DupCallIs ==
    ASSUME VfsInv, NEW t \in Tables, NEW d \in Fds, NEW minimum, NEW cloexec \in BOOLEAN,
           ns_vfs_dup(t, d, minimum, cloexec)
    PROVE  VfsInv'
  <1> DEFINE k == table[t].fds[d].file
             s == ns_vfs_fd_install(State(t), k, minimum, cloexec).s
  <1>1. up /\ Exists(t) /\ k # 0 /\ Becomes(t, s)
    BY DEF ns_vfs_dup, Held
  <1>2. Sys(State(t), EntryMap(table), t, 0, 0) /\ State(t).fds = table[t].fds
    BY <1>1, Begins
  <1>3. k \in FileIds /\ State(t).f[k].kind # "free"
    BY <1>1, <1>2, EntryLive
  <1> HIDE DEF k
  <1>4. Sys(s, EntryMap(table), t, 0, 0)
    BY <1>2, <1>3, DupIs
  <1> HIDE DEF s
  <1> QED
    BY <1>1, <1>4, BecomesIs

LEMMA Dup2CallIs ==
    ASSUME VfsInv, NEW t \in Tables, NEW old \in Fds, NEW new \in Fds, NEW cloexec \in BOOLEAN,
           ns_vfs_dup2(t, old, new, cloexec)
    PROVE  VfsInv'
  <1> DEFINE s == ns_vfs_dup2_in(State(t), old, new, cloexec)
  <1>1. up /\ Exists(t) /\ table[t].fds[old].file # 0 /\ Becomes(t, s)
    BY DEF ns_vfs_dup2, Held
  <1>2. Sys(State(t), EntryMap(table), t, 0, 0) /\ State(t).fds = table[t].fds
    BY <1>1, Begins
  <1>3. Sys(s, EntryMap(table), t, 0, 0)
    BY <1>1, <1>2, Dup2Is
  <1> HIDE DEF s
  <1> QED
    BY <1>1, <1>3, BecomesIs

LEMMA FileCreateIs ==
    ASSUME VfsInv, NEW t \in Tables, ns_vfs_file_create(t)
    PROVE  VfsInv'
  <1> DEFINE E == EntryMap(table)
             k == Smallest(FreeFiles(file))
             new == [FreeFile EXCEPT !.kind = "custom", !.refs = 1, !.flags = {"RDWR"}]
             w == [State(t) EXCEPT !.f[k] = new]
             r == ns_vfs_fd_install(w, k, 0, FALSE)
             s == ns_vfs_file_release(r.s, k)
  <1>1. up /\ Exists(t) /\ FreeFiles(file) # {} /\ Becomes(t, s)
    BY DEF ns_vfs_file_create
  <1>2. Sys(State(t), E, t, 0, 0) /\ State(t) \in St /\ State(t).f = file
    BY <1>1, Begins DEF Sys, State
  <1>3. k \in FileIds /\ file[k].kind = "free"
    <2>1. FreeFiles(file) \in SUBSET Nat
      BY FileIs DEF FreeFiles
    <2>2. k \in FreeFiles(file)
      BY <1>1, <2>1, SmallestIs
    <2> QED
      BY <2>2 DEF FreeFiles
  <1> HIDE DEF k
  <1>4. new \in File /\ new.refs = 1 /\ new.kind = "custom"
    BY DEF FreeFile, File, StatusFlags
  <1> HIDE DEF new
  <1>5. IsSt(w, State(t).n, SetFile(State(t).f, k, new), State(t).fds)
    <2> DEFINE g == SetFile(State(t).f, k, new)
               o == State(t)
    <2>1. g \in [FileIds -> File]
      BY <1>2, <1>3, <1>4, SetFileIs DEF St
    <2>2. w = [o EXCEPT !.f = g]
      BY DEF SetFile
    <2>3. o \in St
      BY <1>2
    <2> HIDE DEF w, g, o
    <2>4. IsSt(w, o.n, g, o.fds)
      BY <2>1, <2>2, <2>3 DEF IsSt, St
    <2> QED
      BY <2>4 DEF o, g
  <1> HIDE DEF w
  <1>6. Sys(w, E, t, k, 0)
    BY <1>2, <1>3, <1>4, <1>5, MakesFile
  <1>7. Sys(s, E, t, 0, 0)
    BY <1>3, <1>6, MakerInstalls
  <1> HIDE DEF s
  <1> QED
    BY <1>1, <1>7, BecomesIs

LEMMA SpawnIs ==
    ASSUME VfsInv, NEW t \in Tables, NEW u \in Tables, t # u, NEW actions \in SpawnLists,
           NEW fault, ns_proc_spawn(t, u, actions, fault)
    PROVE  VfsInv'
  <1> DEFINE E == EntryMap(table)
             c == ns_vfs_fdtable_clone(State(t))
             cwd == table[t].cwd
             r == ns_proc_fd_apply_actions(c, cwd, actions, fault)
             ok == r.ok /\ fault # "context"
             s == IF ok THEN r.s ELSE ReleaseAll(r.s, Fds)
             new == IF ok THEN [cwd |-> cwd, fds |-> s.fds] ELSE NoTable
  <1>1. /\ up /\ Exists(t) /\ ~Exists(u) /\ node' = s.n /\ file' = s.f /\ UNCHANGED <<mounts, up>>
        /\ table' = IF ok THEN [table EXCEPT ![u] = [cwd |-> cwd, fds |-> s.fds]] ELSE table
    BY DEF ns_proc_spawn
  <1>2. /\ Sys(State(t), E, t, 0, 0) /\ Canonical(cwd) /\ State(t).fds = table[t].fds
        /\ \A d \in Fds : E[<<t, d>>] = table[t].fds[d].file
    BY <1>1, Begins
  <1>3. (\A d \in Fds : E[<<u, d>>] = 0) /\ actions \in Seq(SpawnActions)
    BY <1>1, VfsAssumption DEF EntryMap, Exists
  <1> HIDE DEF E
  <1>4. Sys(c, E, u, 0, 0)
    BY <1>2, <1>3, CloneIs
  <1> HIDE DEF c, cwd
  <1>5. Applied(r, E, u)
    BY <1>1, <1>2, <1>3, <1>4, UpIs, ApplyIs
  <1> HIDE DEF r
  <1>6. Sys(r.s, E, u, 0, 0)
    BY <1>5 DEF Applied
  <1> HIDE DEF ok
  <1>7. Sys(s, E, u, 0, 0) /\ (~ok => \A d \in Fds : s.fds[d].file = 0)
    BY <1>6, ReleaseAllIs
  <1> HIDE DEF s
  <1>8. TablesOK(table) /\ TablesOK(table) /\ table \in [Tables -> Table \cup {NoTable}]
        /\ table[u] = NoTable
    BY <1>1, UpIs DEF TablesOK, Exists
  <1>9. new \in Table \cup {NoTable} /\ Len(new.cwd) <= MaxDepth
        /\ \A d \in Fds : s.fds[d].file = IF new = NoTable THEN 0 ELSE new.fds[d].file
    <2>1. s.fds \in [Fds -> Entry]
      BY <1>7 DEF Sys, St
    <2>2. CASE ok
      <3>1. new = [cwd |-> cwd, fds |-> s.fds]
        BY <2>2
      <3> HIDE DEF new
      <3>2. new \in Table /\ new.cwd = cwd /\ new.fds = s.fds
        BY <1>2, <2>1, <3>1 DEF Table, Canonical
      <3> QED
        BY <1>2, <3>2, TableIs DEF Canonical
    <2>3. CASE ~ok
      <3>1. new = NoTable
        BY <2>3
      <3> QED
        BY <1>7, <2>3, <3>1, TableIs
    <2> QED
      BY <2>2, <2>3
  <1>10. table' = [table EXCEPT ![u] = new]
    <2>1. CASE ok
      BY <1>1, <2>1
    <2>2. CASE ~ok
      <3>1. table' = table /\ new = NoTable
        BY <1>1, <2>2
      <3> QED
        BY <1>8, <3>1
    <2> QED
      BY <2>1, <2>2
  <1> HIDE DEF new
  <1>11. TablesOK(table') /\ EntryMap(table') = At(EntryMap(table), u, s.fds)
    BY <1>8, <1>9, <1>10, OneTable
  <1> QED
    BY <1>1, <1>7, <1>11, Ends DEF E

LEMMA ExecIs ==
    ASSUME VfsInv, NEW t \in Tables, ns_proc_exec(t)
    PROVE  VfsInv'
  <1> DEFINE s == ns_vfs_fdtable_close_cloexec(State(t))
             out == {d \in Fds : State(t).fds[d].cloexec}
  <1>1. up /\ Exists(t) /\ Becomes(t, s)
    BY DEF ns_proc_exec
  <1>2. s = ReleaseAll(State(t), out)
    BY DEF ns_vfs_fdtable_close_cloexec
  <1>3. Sys(State(t), EntryMap(table), t, 0, 0)
    BY <1>1, Begins
  <1> HIDE DEF s, out
  <1>4. Sys(s, EntryMap(table), t, 0, 0)
    BY <1>2, <1>3, ReleaseAllIs
  <1> QED
    BY <1>1, <1>4, BecomesIs

\* A call that moves an offset, or the contents of a node as well.
LEMMA MovesFile ==
    ASSUME VfsInv, up, NEW k \in FileIds, NEW b \in File, b.kind = file[k].kind,
           b.refs = file[k].refs, b.node = file[k].node,
           file' = SetFile(file, k, b), UNCHANGED <<mounts, table, up>>,
           Good(node', file, Roots, RootsOf(mounts), 0), Grows(node, node', Roots)
    PROVE  VfsInv'
  <1> DEFINE E == EntryMap(table)
             g == SetFile(file, k, b)
             R == Roots
             M == RootsOf(mounts)
             ms == mounts
  <1>1. /\ MountsUp /\ FilesOK(file, E, 0) /\ TablesOK(table) /\ Anchored(node, mounts)
        /\ Tree(node, Roots) /\ RootsOf(mounts) \subseteq Roots
    BY UpIs
  <1>2. g \in [FileIds -> File] /\ g[k] = b /\ \A j \in FileIds : j # k => g[j] = file[j]
    BY <1>1, SetFileIs DEF FilesOK
  <1> HIDE DEF g
  <1>3. FilesOK(g, E, 0)
    BY <1>1, <1>2 DEF FilesOK
  <1>4. Good(node', g, R, M, 0)
    BY <1>2, OtherFiles
  <1>5. Anchored(node', mounts)
    BY <1>1, AnchoredGrows DEF MountsUp
  <1>6. mounts' = mounts /\ up' = up /\ table' = table /\ file' = g
    BY DEF g
  <1>7. Anchored(node', mounts') /\ FilesOK(file', EntryMap(table'), 0)
        /\ Good(node', file', RootsOf(mounts') \cup {NsfsRoot}, RootsOf(mounts'), 0)
    BY <1>3, <1>4, <1>5, <1>6 DEF Roots
  <1>8. MountsOK(mounts') /\ (\E m \in mounts' : m.target = <<>>) /\ TablesOK(table')
    BY <1>1, <1>6 DEF MountsUp
  <1> QED
    BY <1>6, <1>7, <1>8 DEF VfsInv

LEMMA HeldFile ==
    ASSUME VfsInv, NEW t \in Tables, NEW d \in Fds, Held(t, d)
    PROVE  LET k == table[t].fds[d].file
           IN  /\ up /\ k \in FileIds /\ file[k] \in File /\ file[k].offset \in Nat
               /\ file[k].cookie \in Nat
               /\ file[k].kind = "vnode" => file[k].node \in NodeIds
               /\ \A i \in NodeIds : node[i] \in Node /\ node[i].size \in Nat
  <1>1. up /\ Exists(t) /\ table[t].fds[d].file # 0
    BY DEF Held
  <1>2. Sys(State(t), EntryMap(table), t, 0, 0) /\ State(t).fds = table[t].fds
    BY <1>1, Begins
  <1>3. table[t].fds[d].file \in FileIds
    BY <1>1, <1>2, EntryLive
  <1>4. FilesOK(file, EntryMap(table), 0) /\ node \in [NodeIds -> Node]
    BY <1>1, UpIs
  <1> QED
    BY <1>1, <1>3, <1>4 DEF FilesOK, File, Node

\* The offset or the cookie of a file.
LEMMA FileMoved ==
    ASSUME NEW a \in File, NEW x \in Nat
    PROVE  /\ [a EXCEPT !.offset = x] \in File /\ [a EXCEPT !.cookie = x] \in File
           /\ [a EXCEPT !.offset = x].kind = a.kind /\ [a EXCEPT !.cookie = x].kind = a.kind
           /\ [a EXCEPT !.offset = x].refs = a.refs /\ [a EXCEPT !.cookie = x].refs = a.refs
           /\ [a EXCEPT !.offset = x].node = a.node /\ [a EXCEPT !.cookie = x].node = a.node
  BY DEF File

LEMMA ReadIs ==
    ASSUME VfsInv, NEW t \in Tables, NEW d \in Fds, NEW count \in Nat, ns_vfs_read(t, d, count)
    PROVE  VfsInv'
  <1> DEFINE k == table[t].fds[d].file
             x == file[k].offset + fs_read_count(node[file[k].node], file[k].offset, count)
             b == [file[k] EXCEPT !.offset = x]
  <1>1. Held(t, d) /\ file[k].kind = "vnode" /\ UNCHANGED <<node, mounts, table, up>>
    BY DEF ns_vfs_read
  <1>2. /\ up /\ k \in FileIds /\ file[k] \in File /\ file[k].offset \in Nat
        /\ file[k].node \in NodeIds /\ node[file[k].node].size \in Nat
    BY <1>1, HeldFile
  <1>3. x \in Nat
    <2> DEFINE o == file[k].offset
               z == node[file[k].node].size
               c == IF o >= z THEN 0 ELSE IF count < z - o THEN count ELSE z - o
    <2>1. x = o + c
      BY DEF fs_read_count
    <2>2. o \in Nat /\ z \in Nat
      BY <1>2
    <2> HIDE DEF o, z, x
    <2>3. c \in Nat
      BY <2>2
    <2> QED
      BY <2>1, <2>2, <2>3
  <1>4. file' = SetFile(file, k, b)
    BY DEF ns_vfs_read, SetFile
  <1> HIDE DEF x, k
  <1>5. b \in File /\ b.kind = file[k].kind /\ b.refs = file[k].refs /\ b.node = file[k].node
    BY <1>2, <1>3, FileMoved
  <1>6. Good(node', file, Roots, RootsOf(mounts), 0) /\ Grows(node, node', Roots)
    BY <1>1, <1>2, UpIs, GrowsOn
  <1> HIDE DEF b
  <1> QED
    BY <1>1, <1>2, <1>4, <1>5, <1>6, MovesFile

LEMMA SeekIs ==
    ASSUME VfsInv, NEW t \in Tables, NEW d \in Fds, NEW base, NEW delta,
           ns_vfs_seek(t, d, base, delta)
    PROVE  VfsInv'
  <1> DEFINE k == table[t].fds[d].file
             from == CASE base = "SET" -> 0
                       [] base = "CUR" -> file[k].offset
                       [] base = "END" -> node[file[k].node].size
             x == from + delta
             b == [file[k] EXCEPT !.offset = x]
  <1>1. Held(t, d) /\ file[k].kind = "vnode" /\ UNCHANGED <<node, mounts, table, up>>
        /\ x \in 0..MaxSize
    BY DEF ns_vfs_seek
  <1>2. up /\ k \in FileIds /\ file[k] \in File
    BY <1>1, HeldFile
  <1>3. file' = SetFile(file, k, b)
    BY DEF ns_vfs_seek, SetFile
  <1> HIDE DEF x, k
  <1>4. x \in Nat
    BY <1>1, NodesAssumption
  <1>5. b \in File /\ b.kind = file[k].kind /\ b.refs = file[k].refs /\ b.node = file[k].node
    BY <1>2, <1>4, FileMoved
  <1>6. Good(node', file, Roots, RootsOf(mounts), 0) /\ Grows(node, node', Roots)
    BY <1>1, <1>2, UpIs, GrowsOn
  <1> HIDE DEF b
  <1> QED
    BY <1>1, <1>2, <1>3, <1>5, <1>6, MovesFile

LEMMA GetdentsIs ==
    ASSUME VfsInv, NEW t \in Tables, NEW d \in Fds, ns_vfs_getdents(t, d)
    PROVE  VfsInv'
  <1> DEFINE k == table[t].fds[d].file
             x == file[k].cookie + 1
             b == [file[k] EXCEPT !.cookie = x]
  <1>1. Held(t, d) /\ UNCHANGED <<node, mounts, table, up>>
    BY DEF ns_vfs_getdents
  <1>2. up /\ k \in FileIds /\ file[k] \in File /\ x \in Nat
    BY <1>1, HeldFile
  <1>3. file' = SetFile(file, k, b)
    BY DEF ns_vfs_getdents, SetFile
  <1> HIDE DEF x, k
  <1>5. b \in File /\ b.kind = file[k].kind /\ b.refs = file[k].refs /\ b.node = file[k].node
    BY <1>2, FileMoved
  <1>6. Good(node', file, Roots, RootsOf(mounts), 0) /\ Grows(node, node', Roots)
    BY <1>1, <1>2, UpIs, GrowsOn
  <1> HIDE DEF b
  <1> QED
    BY <1>1, <1>2, <1>3, <1>5, <1>6, MovesFile

LEMMA WriteIs ==
    ASSUME VfsInv, NEW t \in Tables, NEW d \in Fds, NEW count \in Nat, NEW oom \in BOOLEAN,
           ns_vfs_write(t, d, count, oom)
    PROVE  VfsInv'
  <1> DEFINE k == table[t].fds[d].file
             i == file[k].node
             at == IF "APPEND" \in file[k].flags THEN node[i].size ELSE file[k].offset
             r == fs_write(node, i, at, count, oom)
             moved == r.st = "OK" /\ count > 0
             x == at + count
             b == IF moved THEN [file[k] EXCEPT !.offset = x] ELSE file[k]
  <1>1. Held(t, d) /\ file[k].kind = "vnode" /\ UNCHANGED <<mounts, table, up>> /\ node' = r.n
    BY DEF ns_vfs_write
  <1>2. /\ up /\ k \in FileIds /\ file[k] \in File /\ i \in NodeIds /\ at \in Nat /\ x \in Nat
    <2>1. up /\ k \in FileIds /\ file[k] \in File /\ i \in NodeIds /\ file[k].offset \in Nat
      BY <1>1, HeldFile
    <2>2. node[i].size \in Nat
      BY <1>1, <2>1, HeldFile
    <2> HIDE DEF i, k
    <2>3. at \in Nat
      BY <2>1, <2>2
    <2> HIDE DEF at
    <2> QED
      BY <2>1, <2>3
  <1>3. file' = IF moved THEN [file EXCEPT ![k].offset = x] ELSE file
    BY DEF ns_vfs_write
  <1>4. /\ Good(node, file, Roots, RootsOf(mounts), 0) /\ file \in [FileIds -> File]
    BY <1>2, UpIs DEF FilesOK
  <1>5. file' = SetFile(file, k, b)
    BY <1>2, <1>3, <1>4 DEF SetFile
  <1> HIDE DEF at, i, moved
  <1>6. Good(r.n, file, Roots, RootsOf(mounts), 0) /\ Grows(node, r.n, Roots)
    BY <1>2, <1>4, WriteGood
  <1> HIDE DEF x, k, r
  <1>7. b \in File /\ b.kind = file[k].kind /\ b.refs = file[k].refs /\ b.node = file[k].node
    BY <1>2, FileMoved
  <1> HIDE DEF b
  <1> QED
    BY <1>1, <1>2, <1>5, <1>6, <1>7, MovesFile

----------------------------------------------------------------------------
\* Calls that change the namespace.

LEMMA NodesEnd ==
    ASSUME VfsInv, up, UNCHANGED <<mounts, file, table, up>>,
           Good(node', file, Roots, RootsOf(mounts), 0), Anchored(node', mounts)
    PROVE  VfsInv'
  <1>1. /\ MountsUp /\ FilesOK(file, EntryMap(table), 0) /\ TablesOK(table)
    BY UpIs
  <1>2. mounts' = mounts /\ up' = up /\ table' = table /\ file' = file
    OBVIOUS
  <1>3. Anchored(node', mounts') /\ FilesOK(file', EntryMap(table'), 0)
        /\ Good(node', file', RootsOf(mounts') \cup {NsfsRoot}, RootsOf(mounts'), 0)
    BY <1>1, <1>2 DEF Roots
  <1>4. MountsOK(mounts') /\ (\E m \in mounts' : m.target = <<>>) /\ TablesOK(table')
    BY <1>1, <1>2 DEF MountsUp
  <1> QED
    BY <1>2, <1>3, <1>4 DEF VfsInv

LEMMA NodesGrow ==
    ASSUME VfsInv, up, UNCHANGED <<mounts, file, table, up>>,
           Good(node', file, Roots, RootsOf(mounts), 0), Grows(node, node', Roots)
    PROVE  VfsInv'
  <1>1. MountsOK(mounts) /\ Tree(node, Roots) /\ RootsOf(mounts) \subseteq Roots /\ Anchored(node, mounts)
    BY UpIs DEF MountsUp
  <1>2. Anchored(node', mounts)
    BY <1>1, AnchoredGrows
  <1> QED
    BY <1>2, NodesEnd

\* A node that was made, released.
LEMMA ObtainedReleased ==
    ASSUME NEW n, NEW f, NEW R, NEW M, NEW r, Obtained(r, n, f, R, M), r.st = "OK"
    PROVE  Good(node_release(r.n, r.id), f, R, M, 0) /\ Grows(n, node_release(r.n, r.id), R)
  <1>1. r.id \in NodeIds /\ Good(r.n, f, R, M, r.id) /\ Grows(n, r.n, R)
    BY DEF Obtained
  <1>2. Good(node_release(r.n, r.id), f, R, M, 0) /\ Grows(r.n, node_release(r.n, r.id), R)
    BY <1>1, ReleaseGood
  <1> QED
    BY <1>1, <1>2, GrowsOn

LEMMA RootIsCanonical == Canonical(<<>>)
  BY EmptyIsSeq, VfsAssumption DEF Canonical

LEMMA MkdirIs ==
    ASSUME VfsInv, NEW p \in Paths, NEW oom \in BOOLEAN, ns_vfs_mkdir(<<>>, p, oom)
    PROVE  VfsInv'
  <1> DEFINE path == ns_vfs_canonicalize(<<>>, p).path
             q == resolve_canonical(node, path)
             r == CreateAt(q.n, path, "dir", oom)
             R == Roots
             M == RootsOf(mounts)
  <1>1. up /\ UNCHANGED <<mounts, file, table, up>>
    BY DEF ns_vfs_mkdir
  <1>2. \/ q.st = "OK" /\ node' = node_release(q.n, q.id)
        \/ q.st # "OK" /\ node' = q.n
        \/ q.st # "OK" /\ r.st = "OK" /\ node' = node_release(r.n, r.id)
        \/ q.st # "OK" /\ r.st # "OK" /\ node' = r.n
    BY DEF ns_vfs_mkdir
  <1>3. /\ MountsUp /\ Good(node, file, R, M, 0) /\ M \subseteq R
    BY <1>1, UpIs
  <1>4. path \in Seq(STRING)
    BY RootIsCanonical, CanonicalizeIs DEF Canonical
  <1> HIDE DEF path, R, M
  <1>5. Holds(q, node, R)
    BY <1>3, <1>4, ResolveIs DEF M
  <1>6. node_release(q.n, q.id) = node /\ (q.st # "OK" => q.n = node)
    BY <1>3, <1>5, HeldReleased DEF Holds
  <1> HIDE DEF q
  <1>7. q.st # "OK" => Obtained(r, node, file, R, M)
    BY <1>3, <1>4, <1>6, CreateAtIs DEF M
  <1> HIDE DEF r
  <1>8. Good(node', file, R, M, 0) /\ Grows(node, node', R)
    <2>1. CASE node' = node
      BY <1>3, <2>1, GrowsOn
    <2>2. CASE q.st # "OK" /\ r.st = "OK" /\ node' = node_release(r.n, r.id)
      BY <1>7, <2>2, ObtainedReleased
    <2>3. CASE q.st # "OK" /\ r.st # "OK" /\ node' = r.n
      <3>1. node' = node
        BY <1>7, <2>3 DEF Obtained
      <3> QED
        BY <1>3, <3>1, GrowsOn
    <2> QED
      BY <1>2, <1>6, <2>1, <2>2, <2>3
  <1> QED
    BY <1>1, <1>8, NodesGrow DEF R, M

LEMMA UnlinkIs ==
    ASSUME VfsInv, NEW p \in Paths, NEW rmdir \in BOOLEAN, ns_vfs_unlink(<<>>, p, rmdir)
    PROVE  VfsInv'
  <1> DEFINE path == ns_vfs_canonicalize(<<>>, p).path
             u == Unlinked(node, path, p.slash, rmdir)
  <1>1. up /\ UNCHANGED <<mounts, file, table, up>> /\ node' = u
    BY DEF ns_vfs_unlink
  <1>2. path \in Seq(STRING) /\ p.slash \in BOOLEAN
    BY RootIsCanonical, CanonicalizeIs, VfsAssumption DEF Canonical
  <1> DEFINE slash == p.slash
  <1> HIDE DEF path, slash
  <1>3. slash \in BOOLEAN
    BY <1>2 DEF slash
  <1>4. u = Unlinked(node, path, slash, rmdir)
    BY DEF slash
  <1> HIDE DEF u
  <1>5. Good(u, file, Roots, RootsOf(mounts), 0) /\ Anchored(u, mounts)
    <2>1. /\ MountsUp /\ Good(node, file, Roots, RootsOf(mounts), 0) /\ RootsOf(mounts) \subseteq Roots
          /\ Anchored(node, mounts)
      BY <1>1, UpIs
    <2> QED
      BY <1>2, <1>3, <1>4, <2>1, UnlinkedIs
  <1> QED
    BY <1>1, <1>5, NodesEnd

LEMMA RegisterIs ==
    ASSUME VfsInv, NEW p \in Paths, NEW fault, ns_vfs_register_device(p, fault)
    PROVE  VfsInv'
  <1> DEFINE path == ns_vfs_canonicalize(<<>>, p).path
             oom == fault = "node"
             r == CreateAt(node, path, "char", oom)
             v == node_release(r.n, r.id)
             u == Unlinked(v, path, FALSE, FALSE)
             R == Roots
             M == RootsOf(mounts)
  <1>1. up /\ UNCHANGED <<mounts, file, table, up>>
    BY DEF ns_vfs_register_device
  <1>2. \/ r.st # "OK" /\ node' = r.n
        \/ r.st = "OK" /\ node' = u
        \/ r.st = "OK" /\ node' = v
    BY DEF ns_vfs_register_device
  <1>3. /\ MountsUp /\ Good(node, file, R, M, 0) /\ M \subseteq R /\ Anchored(node, mounts)
        /\ Tree(node, R) /\ MountsOK(mounts)
    BY <1>1, UpIs DEF MountsUp
  <1>4. path \in Seq(STRING) /\ oom \in BOOLEAN
    BY RootIsCanonical, CanonicalizeIs DEF Canonical
  <1> HIDE DEF path, R, M, oom
  <1>5. Obtained(r, node, file, R, M)
    BY <1>3, <1>4, CreateAtIs DEF M
  <1> HIDE DEF r
  <1>6. r.st = "OK" => Good(v, file, R, M, 0) /\ Grows(node, v, R)
    BY <1>5, ObtainedReleased
  <1> HIDE DEF v
  <1>7. CASE r.st = "OK" /\ node' = v
    BY <1>1, <1>6, <1>7, NodesGrow DEF R, M
  <1>8. CASE r.st # "OK" /\ node' = r.n
    <2>1. node' = node
      BY <1>5, <1>8 DEF Obtained
    <2> QED
      BY <1>1, <1>3, <2>1, NodesEnd DEF R, M
  <1>9. CASE r.st = "OK" /\ node' = u
    <2>1. Anchored(v, mounts) /\ Good(v, file, R, M, 0)
      BY <1>3, <1>6, <1>9, AnchoredGrows DEF M
    <2>2. Good(u, file, R, M, 0) /\ Anchored(u, mounts)
      BY <1>3, <1>4, <2>1, UnlinkedIs DEF M
    <2> HIDE DEF u
    <2> QED
      BY <1>1, <1>9, <2>2, NodesEnd DEF R, M
  <1> QED
    BY <1>2, <1>7, <1>8, <1>9

LEMMA ChdirIs ==
    ASSUME VfsInv, NEW t \in Tables, NEW p \in Paths, ns_vfs_chdir(t, p)
    PROVE  VfsInv'
  <1> DEFINE E == EntryMap(table)
             path == ns_vfs_canonicalize(table[t].cwd, p).path
             q == resolve_canonical(node, path)
             s == State(t)
             moved == q.st = "OK" /\ q.n[q.id].type = "dir"
             new == IF moved THEN [table[t] EXCEPT !.cwd = path] ELSE table[t]
             R == Roots
             M == RootsOf(mounts)
  <1>1. /\ up /\ Exists(t) /\ UNCHANGED <<mounts, file, up>>
        /\ node' = (IF q.st = "OK" THEN node_release(q.n, q.id) ELSE q.n)
        /\ table' = IF moved THEN [table EXCEPT ![t].cwd = path] ELSE table
    BY DEF ns_vfs_chdir
  <1>2. /\ MountsUp /\ Good(node, file, R, M, 0) /\ M \subseteq R /\ TablesOK(table)
    BY <1>1, UpIs
  <1>3. Sys(s, E, t, 0, 0) /\ Canonical(table[t].cwd) /\ s.fds = table[t].fds
    BY <1>1, Begins
  <1>4. Canonical(path)
    BY <1>3, CanonicalizeIs
  <1> HIDE DEF path, R, M
  <1>5. Holds(q, node, R)
    BY <1>2, <1>4, ResolveIs DEF M, Canonical
  <1>6. node' = node
    BY <1>1, <1>2, <1>5, HeldReleased DEF Holds
  <1>7. table \in [Tables -> Table \cup {NoTable}] /\ table[t] \in Table
    BY <1>1, <1>2 DEF TablesOK, Exists
  <1> HIDE DEF q, moved
  <1>8. new \in Table /\ Canonical(new.cwd) /\ new.fds = table[t].fds
    BY <1>3, <1>4, <1>7 DEF Table, Canonical
  <1>9. table' = [table EXCEPT ![t] = new]
    <2>1. CASE moved
      BY <1>1, <2>1
    <2>2. CASE ~moved
      BY <1>1, <1>7, <2>2
    <2> QED
      BY <2>1, <2>2
  <1> HIDE DEF new
  <1>10. TablesOK(table') /\ EntryMap(table') = At(E, t, s.fds)
    <2>1. \A d \in Fds : s.fds[d].file = IF new = NoTable THEN 0 ELSE new.fds[d].file
      BY <1>3, <1>8, TableIs
    <2>2. new \in Table \cup {NoTable} /\ Len(new.cwd) <= MaxDepth
      BY <1>8 DEF Canonical
    <2> QED
      BY <1>2, <1>9, <2>1, <2>2, OneTable
  <1>11. node' = s.n /\ file' = s.f
    BY <1>1, <1>6 DEF State
  <1> HIDE DEF s
  <1> QED
    BY <1>1, <1>3, <1>10, <1>11, Ends

----------------------------------------------------------------------------
\* Mounting.

\* A mount at path of the tree under root, or an error that changed nothing.
MountedOn(r, n, path, root) ==
    /\ r.st # "OK" => r.n = n
    /\ r.st = "OK" => /\ r.n = node_retain(n, root) /\ path # <<>>
                      /\ ~path_is_mount_target(path, FALSE)
                      /\ r.at \in NodeIds /\ n[r.at].type = "dir"
                      /\ \E o \in mounts : Arrives(n, o, path, r.at)

LEMMA MountOnIs ==
    ASSUME MountsUp, NEW n, NEW f, NEW R, NEW M, Good(n, f, R, M, 0), RootsOf(mounts) \subseteq R,
           NEW path \in Seq(STRING), NEW root \in R, NEW oom \in BOOLEAN
    PROVE  MountedOn(MountOn(resolve_canonical(n, path), path, root, oom), n, path, root)
  <1> DEFINE here == resolve_canonical(n, path)
             r == MountOn(here, path, root, oom)
             seen == node_release(here.n, here.id)
             put == node_retain(seen, root)
             r1 == [n |-> seen, st |-> "EBUSY", at |-> 0]
             r2 == [n |-> here.n, st |-> here.st, at |-> 0]
             r3 == [n |-> seen, st |-> "ENOTDIR", at |-> 0]
             r4 == [n |-> seen, st |-> "ENOMEM", at |-> 0]
             r5 == [n |-> node_release(put, root), st |-> "EBUSY", at |-> 0]
             r6 == [n |-> put, st |-> "OK", at |-> here.id]
             c1 == path = <<>>
             c2 == here.st # "OK"
             c3 == here.n[here.id].type # "dir"
             c5 == path_is_mount_target(path, FALSE)
  <1>1. /\ Holds(here, n, R) /\ here.mount \in mounts
        /\ here.st = "OK" => Arrives(n, here.mount, path, here.id)
    BY ResolveIs
  <1>2. r = CASE c1 -> r1 [] c2 -> r2 [] c3 -> r3 [] oom -> r4 [] c5 -> r5 [] OTHER -> r6
    BY DEF MountOn
  <1> HIDE DEF here
  <1>3. seen = n /\ (c2 => here.n = n)
    BY <1>1, HeldReleased DEF Holds
  <1>4. root \in NodeIds /\ InTree(n, R, root)
    BY DEF Good, Tree, Rooted, InTree
  <1>5. node_release(put, root) = n
    <2>1. n \in [NodeIds -> Node] /\ (root \in Heap => n[root].refs # 0)
      BY <1>4, LiveRefs DEF Good, Tree, Typed
    <2>2. node_release(node_retain(n, root), root) = n
      BY <1>4, <2>1, ReleaseRetained
    <2> QED
      BY <1>3, <2>2
  <1>6. ~c2 /\ ~c3 => here.id \in NodeIds /\ n[here.id].type = "dir"
    <2> SUFFICES ASSUME ~c2, ~c3 PROVE here.id \in NodeIds /\ n[here.id].type = "dir"
      OBVIOUS
    <2>1. here.id \in NodeIds /\ here.n = node_retain(n, here.id)
      BY <1>1 DEF Holds
    <2>2. n \in [NodeIds -> Node]
      BY DEF Good, Tree, Typed
    <2>3. here.n[here.id].type = n[here.id].type
      BY <2>1, <2>2, RetainShows
    <2> QED
      BY <2>1, <2>3
  <1>7. r1.n = n /\ r1.st # "OK" /\ r3.n = n /\ r3.st # "OK" /\ r4.n = n /\ r4.st # "OK"
        /\ r5.n = n /\ r5.st # "OK" /\ (c2 => r2.n = n /\ r2.st # "OK")
    BY <1>3, <1>5
  <1>8. r6.n = node_retain(n, root) /\ r6.at = here.id
    BY <1>3
  <1> HIDE DEF r, r1, r2, r3, r4, r5, r6, c3, c5
  <1>9. r = r1 \/ (c2 /\ r = r2) \/ r = r3 \/ r = r4 \/ r = r5
        \/ (~c1 /\ ~c2 /\ ~c3 /\ ~c5 /\ r = r6)
    <2> HIDE DEF c1, c2
    <2> QED
      BY <1>2
  <1>10. CASE ~c1 /\ ~c2 /\ ~c3 /\ ~c5 /\ r = r6
    <2>1. \E o \in mounts : Arrives(n, o, path, here.id)
      BY <1>1, <1>10
    <2>2. here.id \in NodeIds /\ n[here.id].type = "dir"
      BY <1>6, <1>10
    <2>3. MountedOn(r, n, path, root)
      BY <1>8, <1>10, <2>1, <2>2 DEF MountedOn, r6, c5
    <2> QED
      BY <2>3 DEF r, here
  <1>11. CASE r = r1 \/ (c2 /\ r = r2) \/ r = r3 \/ r = r4 \/ r = r5
    <2>1. MountedOn(r, n, path, root)
      BY <1>7, <1>11 DEF MountedOn
    <2> QED
      BY <2>1 DEF r, here
  <1> QED
    BY <1>9, <1>10, <1>11

\* The reference a call holds becomes the mount's.
LEMMA HoldToMount ==
    ASSUME NEW n, NEW f, NEW R, NEW M, NEW i \in R, i \notin M, Good(n, f, R, M, i)
    PROVE  Good(n, f, R, M \cup {i}, 0)
  <1>1. 0 \notin Heap
    BY Ids
  <1>2. ASSUME NEW j \in Heap
        PROVE  One(j \in M \cup {i}) + One(j = 0) = One(j \in M) + One(j = i)
               /\ One(j \in M \cup {i}) \in Nat /\ One(j = 0) \in Nat /\ One(j \in M) \in Nat
               /\ One(j = i) \in Nat
    <2>1. CASE j = i
      BY <1>1, <2>1 DEF One
    <2>2. CASE j # i
      BY <1>1, <2>2 DEF One
    <2> QED
      BY <2>1, <2>2
  <1>3. ASSUME NEW j \in Heap
        PROVE  /\ n[j].refs = One(InTree(n, R, j)) + One(j \in M \cup {i})
                                + Cardinality(OnNode(f, j)) + One(j = 0)
               /\ n[j].type = "free" <=> n[j].refs = 0
    <2> DEFINE a == One(InTree(n, R, j))
               b == Cardinality(OnNode(f, j))
               c == One(j \in M \cup {i})
               d == One(j = 0)
               p == One(j \in M)
               q == One(j = i)
    <2>1. /\ n[j].refs = a + p + b + q /\ (n[j].type = "free" <=> n[j].refs = 0)
      BY DEF Good, Exact
    <2>2. a \in Nat /\ b \in Nat
      BY OnNodeFinite, FS_CardinalityType DEF One
    <2>3. c + d = p + q /\ c \in Nat /\ d \in Nat /\ p \in Nat /\ q \in Nat
      BY <1>2
    <2> HIDE DEF a, b, c, d, p, q
    <2>4. n[j].refs = a + c + b + d
      BY <2>1, <2>2, <2>3
    <2> QED
      BY <2>1, <2>4 DEF a, b, c, d
  <1>4. Exact(n, f, R, M \cup {i}, 0)
    BY <1>3 DEF Good, Exact
  <1> QED
    BY <1>4 DEF Good

MountAt(path, root, ro, at) == [target |-> path, root |-> root, ro |-> ro, covered |-> at]

\* The state after a mount, in a node table n that has the roots R.
LEMMA MountMade ==
    ASSUME VfsInv, up, NEW n, NEW R, Good(n, file, R, RootsOf(mounts), 0),
           RootsOf(mounts) \cup {NsfsRoot} \subseteq R, Anchored(n, mounts), NEW path \in Seq(STRING),
           NEW root \in R \cap (Heap \cup {NsfsRoot}), root \notin RootsOf(mounts),
           R = RootsOf(mounts) \cup {NsfsRoot, root},
           NEW ro \in BOOLEAN, NEW r, MountedOn(r, n, path, root), r.st = "OK", node' = r.n,
           mounts' = mounts \cup {MountAt(path, root, ro, r.at)}, UNCHANGED <<file, table, up>>
    PROVE  VfsInv'
  <1> DEFINE M == RootsOf(mounts)
             m == MountAt(path, root, ro, r.at)
             ms == mounts \cup {m}
             u == node_retain(n, root)
  <1>1. /\ r.n = u /\ path # <<>> /\ ~path_is_mount_target(path, FALSE)
        /\ r.at \in NodeIds /\ n[r.at].type = "dir" /\ \E o \in mounts : Arrives(n, o, path, r.at)
    BY DEF MountedOn
  <1>2. /\ MountsUp /\ FilesOK(file, EntryMap(table), 0) /\ TablesOK(table)
    BY UpIs
  <1>3. root \in NodeIds /\ InTree(n, R, root) /\ n[root].type # "free"
    BY LiveRefs DEF Good, Tree, Rooted, InTree
  <1>4. m \in Mount /\ m.target = path /\ m.root = root /\ m.covered = r.at
    BY <1>1, <1>3 DEF MountAt, Mount
  <1> HIDE DEF m
  <1>5. MountsOK(ms)
    <2>1. \A o \in mounts : o.target # path
      BY <1>1 DEF path_is_mount_target
    <2>2. \A o \in mounts : o.root # root
      BY DEF RootsOf
    <2>3. mounts \subseteq Mount /\ \A a, b \in mounts : a.root = b.root \/ a.target = b.target => a = b
      BY <1>2 DEF MountsUp, MountsOK
    <2> QED
      BY <1>4, <2>1, <2>2, <2>3 DEF MountsOK
  <1>6. \E o \in ms : o.target = <<>>
    BY <1>2 DEF MountsUp
  <1>7. RootsOf(ms) = M \cup {root}
    BY <1>4 DEF RootsOf
  <1>8. Good(u, file, R, M, root) /\ Grows(n, u, R)
    BY <1>3, RetainGood
  <1>9. Good(u, file, R, M \cup {root}, 0)
    <2> HIDE DEF M, u
    <2> QED
      BY <1>8, HoldToMount DEF M
  <1>10. Anchored(n, ms)
    <2>1. ASSUME NEW a \in ms, a.target # <<>>
          PROVE  n[a.covered].type = "dir" /\ \E o \in ms : Arrives(n, o, a.target, a.covered)
      <3>1. CASE a \in mounts
        BY <2>1, <3>1 DEF Anchored
      <3>2. CASE a = m
        BY <1>1, <1>4, <3>2
      <3> QED
        BY <2>1, <3>1, <3>2
    <2> QED
      BY <2>1 DEF Anchored
  <1>11. Anchored(u, ms)
    <2>1. RootsOf(ms) \subseteq R /\ Tree(n, R)
      BY <1>7 DEF Good
    <2> HIDE DEF ms, u
    <2> QED
      BY <1>5, <1>8, <1>10, <2>1, AnchoredGrows
  <1>12. mounts' = ms /\ node' = u /\ file' = file /\ table' = table /\ up' = up
    BY <1>1 DEF m
  <1>13. RootsOf(ms) \cup {NsfsRoot} = R
    BY <1>7
  <1> HIDE DEF ms, u, M
  <1>14. Good(node', file', RootsOf(mounts') \cup {NsfsRoot}, RootsOf(mounts'), 0)
         /\ Anchored(node', mounts') /\ MountsOK(mounts') /\ \E o \in mounts' : o.target = <<>>
    BY <1>5, <1>6, <1>7, <1>9, <1>11, <1>12, <1>13
  <1>15. FilesOK(file', EntryMap(table'), 0) /\ TablesOK(table')
    BY <1>2, <1>12
  <1> QED
    BY <1>12, <1>14, <1>15 DEF VfsInv

LEMMA MountIs ==
    ASSUME VfsInv, NEW p \in Paths, NEW oom \in BOOLEAN, ns_vfs_mount(p, oom)
    PROVE  VfsInv'
  <1> DEFINE path == ns_vfs_canonicalize(<<>>, p).path
             r == MountOn(resolve_canonical(node, path), path, NsfsRoot, oom)
             M == RootsOf(mounts)
  <1>1. /\ up /\ NsfsRoot \notin M /\ UNCHANGED <<file, table, up>> /\ node' = r.n
        /\ mounts' = IF r.st = "OK" THEN mounts \cup {MountAt(path, NsfsRoot, FALSE, r.at)}
                     ELSE mounts
    BY DEF ns_vfs_mount, Mounted, MountAt, RootsOf
  <1>2. /\ MountsUp /\ Good(node, file, Roots, M, 0) /\ M \subseteq Roots /\ Anchored(node, mounts)
        /\ NsfsRoot \in Roots
    BY <1>1, UpIs DEF Roots
  <1>3. path \in Seq(STRING)
    BY RootIsCanonical, CanonicalizeIs DEF Canonical
  <1> HIDE DEF path
  <1>4. MountedOn(r, node, path, NsfsRoot)
    BY <1>2, <1>3, MountOnIs
  <1> HIDE DEF r
  <1>5. CASE r.st = "OK"
    <2>1. M \cup {NsfsRoot} \subseteq Roots /\ Roots = M \cup {NsfsRoot, NsfsRoot}
      BY DEF Roots
    <2>2. mounts' = mounts \cup {MountAt(path, NsfsRoot, FALSE, r.at)}
      BY <1>1, <1>5
    <2> HIDE DEF M
    <2> QED
      BY <1>1, <1>2, <1>3, <1>4, <1>5, <2>1, <2>2, MountMade DEF M
  <1>6. CASE r.st # "OK"
    <2>1. node' = node /\ mounts' = mounts
      BY <1>1, <1>4, <1>6 DEF MountedOn
    <2> QED
      BY <1>1, <1>2, <2>1, NodesEnd
  <1> QED
    BY <1>5, <1>6

----------------------------------------------------------------------------
\* Initramfs: a tree of new nodes, built up or taken down as a whole.

LEMMA SubtreeIs ==
    ASSUME NEW n, NEW R, Tree(n, R), NEW i \in Heap
    PROVE  /\ Subtree(n, i) \subseteq Heap /\ i \in Subtree(n, i)
           /\ \A j \in Subtree(n, i) : n[j].kids \subseteq Subtree(n, i)
           /\ \A S \in SUBSET Heap : i \in S /\ Closed(n, S) => Subtree(n, i) \subseteq S
  <1>1. Heap \subseteq NodeIds
    BY Ids
  <1>2. \A j \in Heap : n[j].kids \subseteq Heap
    BY <1>1 DEF Tree, Kin, Typed, Node
  <1>3. ASSUME NEW j \in Subtree(n, i) PROVE n[j].kids \subseteq Subtree(n, i)
    <2> SUFFICES ASSUME NEW k \in n[j].kids PROVE k \in Subtree(n, i)
      OBVIOUS
    <2>1. j \in Heap /\ k \in Heap
      BY <1>2 DEF Subtree
    <2>2. ASSUME NEW S \in SUBSET Heap, i \in S, Closed(n, S) PROVE k \in S
      <3>1. j \in S
        BY <2>2 DEF Subtree
      <3> QED
        BY <2>2, <3>1 DEF Closed
    <2> QED
      BY <2>1, <2>2 DEF Subtree
  <1>4. Subtree(n, i) \subseteq Heap /\ i \in Subtree(n, i)
    BY DEF Subtree
  <1>5. \A S \in SUBSET Heap : i \in S /\ Closed(n, S) => Subtree(n, i) \subseteq S
    BY DEF Subtree
  <1> QED
    BY <1>3, <1>4, <1>5

\* u is n with nodes that n does not use, in trees of their own.
Fresh(n, u) ==
    \A i \in NodeIds :
        IF n[i].type # "free" \/ i \notin Heap THEN u[i] = n[i]
        ELSE \A j \in u[i].kids : n[j].type = "free"

LEMMA FreshGrows ==
    ASSUME NEW n, NEW u, NEW R, Tree(n, R), Fresh(n, u)
    PROVE  Grows(n, u, R)
  <1> SUFFICES ASSUME NEW i \in NodeIds, InTree(n, R, i)
               PROVE  /\ InTree(u, R, i) /\ u[i].type = n[i].type /\ u[i].name = n[i].name
                      /\ n[i].kids \subseteq u[i].kids
    BY DEF Grows
  <1>1. n[i].type # "free"
    BY DEF InTree, LinkedIn, Tree, Rooted, Kin
  <1>2. u[i] = n[i]
    BY <1>1 DEF Fresh
  <1>3. InTree(u, R, i)
    <2>1. CASE i \in R
      BY <2>1 DEF InTree
    <2>2. CASE LinkedIn(n, i)
      <3>1. PICK j \in NodeIds : i \in n[j].kids
        BY <2>2 DEF LinkedIn
      <3>2. n[j].type # "free"
        BY <3>1 DEF Tree, Kin
      <3>3. u[j] = n[j]
        BY <3>2 DEF Fresh
      <3> QED
        BY <3>1, <3>3 DEF InTree, LinkedIn
    <2> QED
      BY <2>1, <2>2 DEF InTree
  <1> QED
    BY <1>2, <1>3

\* Taking down the new tree leaves what there was.
LEMMA FreshDestroyed ==
    ASSUME NEW n, NEW u, NEW f, NEW R, NEW M, NEW root \in Heap, Good(n, f, R, M, 0),
           Good(u, f, R \cup {root}, M, 0), Fresh(n, u), n[root].type = "free"
    PROVE  ramfs_destroy_tree(u, root) = n
  <1> DEFINE Q == R \cup {root}
             T == Subtree(u, root)
             S == {i \in Heap : n[i].type = "free"}
             B == {i \in S : u[i].type # "free" /\ i \notin T}
  <1>1. /\ Tree(n, R) /\ Tree(u, Q) /\ n \in [NodeIds -> Node] /\ u \in [NodeIds -> Node]
        /\ Heap \subseteq NodeIds /\ R \subseteq NodeIds
    BY Ids DEF Good, Tree, Typed, Rooted
  <1> HIDE DEF Q
  <1>2. /\ T \subseteq Heap /\ root \in T /\ \A j \in T : u[j].kids \subseteq T
        /\ \A X \in SUBSET Heap : root \in X /\ Closed(u, X) => T \subseteq X
    BY <1>1, SubtreeIs
  <1> HIDE DEF T
  <1>3. T \subseteq S
    <2>1. ASSUME NEW i \in S, NEW j \in u[i].kids PROVE j \in S
      <3>1. n[j].type = "free"
        BY <1>1, <2>1 DEF Fresh
      <3>2. j \in Heap
        BY <1>1, <2>1 DEF Tree, Kin
      <3> QED
        BY <3>1, <3>2
    <2>2. Closed(u, S)
      BY <2>1 DEF Closed
    <2>3. S \in SUBSET Heap /\ root \in S
      OBVIOUS
    <2> HIDE DEF S
    <2> QED
      BY <1>2, <2>2, <2>3
  <1>4. B = {}
    <2> SUFFICES ASSUME B # {} PROVE FALSE
      OBVIOUS
    <2>1. B \in SUBSET NodeIds
      BY <1>1
    <2>2. PICK i \in B : \A j \in B : i \notin u[j].kids
      <3> HIDE DEF B
      <3> QED
        BY <1>1, <2>1 DEF Tree, Grounded
    <2>3. i \in Heap /\ i \in NodeIds /\ n[i].type = "free" /\ u[i].type # "free" /\ i \notin T
      BY <1>1, <2>2
    <2>4. InTree(u, Q, i)
      <3> DEFINE a == One(InTree(n, R, i))
                 b == One(i \in M)
                 c == Cardinality(OnNode(f, i))
                 d == One(i = 0)
                 e == One(InTree(u, Q, i))
      <3>1. n[i].refs = a + b + c + d /\ n[i].refs = 0
        BY <2>3 DEF Good, Exact
      <3>2. u[i].refs = e + b + c + d /\ u[i].refs # 0
        BY <2>3 DEF Good, Exact, Q
      <3>3. a \in Nat /\ b \in Nat /\ c \in Nat /\ d \in Nat /\ e \in Nat
        BY OnNodeFinite, FS_CardinalityType DEF One
      <3> HIDE DEF a, b, c, d, e
      <3>4. e # 0
        BY <3>1, <3>2, <3>3
      <3> QED
        BY <3>4 DEF e, One
    <2>5. i \notin Q
      <3>1. i # root
        BY <1>2, <2>3
      <3>2. i \notin R
        BY <1>1, <2>3 DEF Tree, Rooted
      <3> QED
        BY <3>1, <3>2 DEF Q
    <2>6. PICK j \in NodeIds : i \in u[j].kids
      BY <2>4, <2>5 DEF InTree, LinkedIn
    <2>7. n[j].type = "free" /\ j \in Heap
      <3> SUFFICES ASSUME n[j].type # "free" \/ j \notin Heap PROVE FALSE
        OBVIOUS
      <3>1. u[j] = n[j]
        BY DEF Fresh
      <3> QED
        BY <1>1, <2>3, <2>6, <3>1 DEF Tree, Kin
    <2>8. u[j].type # "free"
      BY <1>1, <2>6 DEF Tree, Kin
    <2>9. j \in B \/ j \in T
      BY <2>7, <2>8
    <2> QED
      BY <1>2, <2>2, <2>3, <2>6, <2>9
  <1>5. ASSUME NEW i \in NodeIds PROVE (IF i \in T THEN FreeNode ELSE u[i]) = n[i]
    <2>1. CASE i \in S
      <3>1. n[i] = FreeNode
        BY <1>1, <2>1 DEF Tree, Kin
      <3>2. i \notin T => u[i] = FreeNode
        BY <1>1, <1>4, <2>1 DEF Tree, Kin
      <3> QED
        BY <3>1, <3>2
    <2>2. CASE i \notin S
      <3>1. i \notin T
        BY <1>3, <2>2
      <3>2. u[i] = n[i]
        BY <2>2 DEF Fresh
      <3> QED
        BY <3>1, <3>2
    <2> QED
      BY <2>1, <2>2
  <1>6. Destroyed(u, T) = n
    BY <1>1, <1>5 DEF Destroyed
  <1> QED
    BY <1>6 DEF ramfs_destroy_tree, T

\* The new tree begins with its root.
LEMMA FreshRoot ==
    ASSUME NEW n, NEW f, NEW R, NEW M, NEW root \in Heap, Good(n, f, R, M, 0),
           n[root].type = "free"
    PROVE  LET u == [n EXCEPT ![root] = NewNode("", "dir", 1)]
           IN  /\ Good(u, f, R \cup {root}, M, 0) /\ Fresh(n, u) /\ u[root].type = "dir"
  <1> DEFINE new == NewNode("", "dir", 1)
             u == [n EXCEPT ![root] = new]
             Q == R \cup {root}
  <1>1. /\ Tree(n, R) /\ n \in [NodeIds -> Node] /\ Heap \subseteq NodeIds /\ root \in NodeIds
        /\ R \subseteq NodeIds
    BY Ids DEF Good, Tree, Typed, Rooted
  <1>2. /\ new \in Node /\ Sound(new) /\ new.type = "dir" /\ new.refs = 1 /\ new.kids = {}
    <2> DEFINE name == ""
               type == "dir"
               refs == 1
    <2>1. name \in Name /\ type \in {"free", "dir", "reg", "char"} /\ refs \in Nat
      BY DEF Name
    <2>2. new = NewNode(name, type, refs)
      OBVIOUS
    <2> HIDE DEF name, type, refs, new
    <2>3. new \in Node /\ Sound(new) /\ new.type = type /\ new.refs = refs /\ new.kids = {}
      BY <2>1, <2>2, NewNodeIs
    <2> QED
      BY <2>3 DEF type, refs
  <1> HIDE DEF new
  <1>3. u \in [NodeIds -> Node] /\ u[root] = new /\ \A j \in NodeIds : j # root => u[j] = n[j]
    BY <1>1, <1>2
  <1> HIDE DEF u
  <1>4. /\ n[root] = FreeNode /\ n[root].kids = {} /\ ~InTree(n, R, root)
        /\ \A j \in NodeIds : root \notin n[j].kids
    BY <1>1, FreeIs
  <1>5. \A j \in NodeIds : u[j].kids = n[j].kids
    BY <1>2, <1>3, <1>4
  <1>6. Typed(u)
    BY <1>1, <1>2, <1>3 DEF Tree, Typed, Uncounted
  <1>7. Kin(u)
    <2>1. \A i \in NodeIds : u[i].type = "free" => u[i] = FreeNode
      BY <1>1, <1>2, <1>3 DEF Tree, Kin
    <2>2. ASSUME NEW i \in NodeIds, NEW j \in u[i].kids
          PROVE  /\ u[i].type = "dir" /\ u[j].type # "free" /\ (i \in Heap <=> j \in Heap)
                 /\ \A k \in NodeIds : j \in u[k].kids => k = i
                 /\ \A k \in u[i].kids : u[k].name = u[j].name => k = j
      <3>1. j \in n[i].kids /\ j \in NodeIds /\ j # root /\ i # root
        BY <1>1, <1>4, <1>5, <2>2 DEF Node
      <3>2. /\ n[i].type = "dir" /\ n[j].type # "free" /\ (i \in Heap <=> j \in Heap)
            /\ \A k \in NodeIds : j \in n[k].kids => k = i
            /\ \A k \in n[i].kids : n[k].name = n[j].name => k = j
        BY <1>1, <3>1 DEF Tree, Kin
      <3>3. u[i] = n[i] /\ u[j] = n[j] /\ \A k \in n[i].kids : u[k] = n[k]
        BY <1>1, <1>3, <1>4, <3>1 DEF Node
      <3> QED
        BY <1>5, <3>2, <3>3
    <2> QED
      BY <2>1, <2>2 DEF Kin
  <1>8. Grounded(u)
    BY <1>1, <1>5 DEF Tree, Grounded
  <1>9. \A i \in NodeIds : LinkedIn(u, i) <=> LinkedIn(n, i)
    BY <1>5 DEF LinkedIn
  <1>10. \A i \in NodeIds : InTree(u, Q, i) <=> (InTree(n, R, i) \/ i = root)
    BY <1>9 DEF InTree
  <1>11. Rooted(u, Q)
    <2>1. ASSUME NEW i \in Q PROVE u[i].type = "dir" /\ ~LinkedIn(u, i)
      <3>1. CASE i = root
        BY <1>1, <1>2, <1>3, <1>4, <1>9, <3>1 DEF InTree
      <3>2. CASE i # root
        BY <1>1, <1>3, <1>9, <3>2 DEF Tree, Rooted
      <3> QED
        BY <3>1, <3>2
    <2>2. \A i \in NodeIds : u[i].kids # {} => InTree(u, Q, i)
      BY <1>1, <1>5, <1>10 DEF Tree, Rooted
    <2> QED
      BY <1>1, <2>1, <2>2 DEF Rooted
  <1>12. Exact(u, f, Q, M, 0)
    <2>1. M \subseteq Q
      BY DEF Good, Exact
    <2>2. ASSUME NEW i \in Heap
          PROVE  /\ u[i].refs = One(InTree(u, Q, i)) + One(i \in M) + Cardinality(OnNode(f, i))
                                 + One(i = 0)
                 /\ u[i].type = "free" <=> u[i].refs = 0
      <3> DEFINE a == One(InTree(n, R, i))
                 b == One(i \in M)
                 c == Cardinality(OnNode(f, i))
                 d == One(i = 0)
                 e == One(InTree(u, Q, i))
      <3>1. n[i].refs = a + b + c + d /\ (n[i].type = "free" <=> n[i].refs = 0)
        BY DEF Good, Exact
      <3>2. a \in Nat /\ b \in Nat /\ c \in Nat /\ d \in Nat /\ e \in Nat
        BY OnNodeFinite, FS_CardinalityType DEF One
      <3>3. i = root => e = 1 /\ a = 0
        BY <1>1, <1>4, <1>10 DEF One
      <3>4. i # root => e = a
        BY <1>1, <1>10 DEF One
      <3> HIDE DEF a, b, c, d, e
      <3>5. u[i].refs = e + b + c + d /\ (u[i].type = "free" <=> u[i].refs = 0)
        <4>1. CASE i = root
          <5>1. b = 0 /\ c = 0 /\ d = 0
            BY <3>1, <3>2, <4>1
          <5> QED
            BY <1>2, <1>3, <3>3, <4>1, <5>1
        <4>2. CASE i # root
          <5>1. u[i] = n[i]
            BY <1>1, <1>3, <4>2
          <5> QED
            BY <3>1, <3>4, <4>2, <5>1
        <4> QED
          BY <4>1, <4>2
      <3> QED
        BY <3>5 DEF b, c, d, e
    <2> QED
      BY <2>1, <2>2 DEF Exact
  <1>13. Fresh(n, u)
    <2>1. u[root].kids = {}
      BY <1>2, <1>3
    <2> QED
      BY <1>1, <1>3, <1>4, <2>1 DEF Fresh, Tree, Kin
  <1>14. Good(u, f, Q, M, 0)
    BY <1>6, <1>7, <1>8, <1>11, <1>12 DEF Good, Tree
  <1> QED
    BY <1>2, <1>3, <1>13, <1>14 DEF u, new

\* u is n with the new tree so far, and i a node of it.
Built(u, n, f, R, M) == Good(u, f, R, M, 0) /\ Fresh(n, u)
NewIn(u, n, R, i, type) ==
    i \in Heap /\ n[i].type = "free" /\ u[i].type = type /\ InTree(u, R, i)
IsDone(r) == DOMAIN r = {"n", "st", "id"}
Grown(r, n, f, R, M, type) ==
    /\ IsDone(r) /\ Built(r.n, n, f, R, M)
    /\ r.st = "OK" => NewIn(r.n, n, R, r.id, type)

LEMMA DoneIs ==
    ASSUME NEW n, NEW i, NEW code
    PROVE  /\ IsDone(Done(n, i)) /\ Done(n, i).n = n /\ Done(n, i).st = "OK" /\ Done(n, i).id = i
           /\ IsDone(Fail(n, code)) /\ Fail(n, code).n = n /\ Fail(n, code).st = code
  BY DEF IsDone, Done, Fail

LEMMA AllocateIs ==
    ASSUME NEW n, NEW u, NEW f, NEW R, NEW M, Built(u, n, f, R, M), NEW dir,
           NewIn(u, n, R, dir, "dir"), NEW name \in STRING, Named(u, dir, name) = {},
           NEW type \in {"dir", "reg"}, NEW implicit \in BOOLEAN
    PROVE  Grown(allocate_node(u, dir, name, type, implicit), n, f, R, M, type)
  <1> DEFINE ids == FreeOf(u, Heap)
             i == Smallest(ids)
             new == [NewNode(name, type, 1) EXCEPT !.implicit = implicit]
             v == PlacedAt(u, dir, i, new)
             r == allocate_node(u, dir, name, type, implicit)
  <1>1. /\ Good(u, f, R, M, 0) /\ Fresh(n, u) /\ dir \in Heap /\ n[dir].type = "free"
        /\ u[dir].type = "dir" /\ InTree(u, R, dir) /\ u \in [NodeIds -> Node] /\ Tree(u, R)
        /\ Heap \subseteq NodeIds
    BY Ids DEF Built, NewIn, Good, Tree, Typed
  <1>2. r = IF ids = {} THEN Fail(u, "ENOMEM") ELSE Done(v, i)
    BY DEF allocate_node, PlacedAt
  <1>3. CASE ids = {}
    <2>1. r = Fail(u, "ENOMEM")
      BY <1>2, <1>3
    <2>2. IsDone(r) /\ r.n = u /\ r.st = "ENOMEM"
      BY <2>1, DoneIs
    <2> HIDE DEF r
    <2> QED
      BY <2>2 DEF Grown, r
  <1>4. CASE ids # {}
    <2>1. i \in Heap /\ u[i].type = "free"
      <3>1. ids \in SUBSET Nat
        BY DEF FreeOf, Heap
      <3>2. i \in ids
        <4> HIDE DEF ids
        <4> QED
          BY <1>4, <3>1, SmallestIs
      <3> QED
        BY <3>2 DEF FreeOf
    <2> HIDE DEF i, ids
    <2>2. /\ new \in Node /\ Sound(new) /\ new.name = name /\ new.type = type /\ new.refs = 1
          /\ new.kids = {}
      <3> DEFINE a == NewNode(name, type, 1)
      <3>1. /\ a \in Node /\ Sound(a) /\ a.name = name /\ a.type = type /\ a.refs = 1
            /\ a.kids = {}
        <4> DEFINE refs == 1
        <4>1. name \in Name /\ type \in {"free", "dir", "reg", "char"} /\ refs \in Nat
          BY DEF Name
        <4> HIDE DEF refs
        <4>2. LET b == NewNode(name, type, refs)
              IN  /\ b \in Node /\ Sound(b) /\ b.name = name /\ b.type = type /\ b.refs = refs
                  /\ b.kids = {}
          BY <4>1, NewNodeIs
        <4> QED
          BY <4>2 DEF refs
      <3> HIDE DEF a
      <3>2. new = [a EXCEPT !.implicit = implicit]
        BY DEF a
      <3> HIDE DEF new
      <3>3. new \in Node /\ new.size = a.size /\ new.data = a.data /\ new.want = a.want
            /\ new.name = a.name /\ new.type = a.type /\ new.refs = a.refs /\ new.kids = a.kids
        BY <3>1, <3>2 DEF Node
      <3> QED
        BY <3>1, <3>3 DEF Sound
    <2> HIDE DEF new
    <2>3. i # dir /\ i # 0 /\ i \in NodeIds /\ dir \in NodeIds
      BY <1>1, <2>1, Ids
    <2>4. \A k \in u[dir].kids : u[k].name # new.name
      BY <2>2 DEF Named
    <2>5. new.refs = 1 + One(0 = i)
      BY <2>2, <2>3 DEF One
    <2>6. Good(v, f, R, M, 0)
      <3> DEFINE y == 0
      <3>1. y \in {0, i} /\ (IF i \in Heap THEN new.refs = 1 + One(y = i) ELSE new.refs <= 1)
        BY <2>1, <2>5
      <3>2. dir \in Heap <=> i \in Heap
        BY <1>1, <2>1
      <3>3. new.type # "free"
        BY <2>2
      <3> HIDE DEF y
      <3>4. Good(v, f, R, M, y)
        BY <1>1, <2>1, <2>2, <2>3, <2>4, <3>1, <3>2, <3>3, PlacedGood
      <3> QED
        BY <3>4 DEF y
    <2>7. IsPlaced(v, u, dir, i, new)
      BY <1>1, <2>2, <2>3, PlacedIs
    <2> HIDE DEF v
    <2>8. /\ v[i] = new /\ v[dir].kids = u[dir].kids \cup {i}
          /\ \A j \in NodeIds : j # i /\ j # dir => v[j] = u[j]
      BY <2>7 DEF IsPlaced
    <2>9. n[i].type = "free"
      BY <1>1, <2>1, <2>3 DEF Fresh
    <2>10. Fresh(n, v)
      <3> SUFFICES ASSUME NEW j \in NodeIds
                   PROVE  IF n[j].type # "free" \/ j \notin Heap THEN v[j] = n[j]
                          ELSE \A k \in v[j].kids : n[k].type = "free"
        BY DEF Fresh
      <3>1. CASE j = i
        BY <2>1, <2>2, <2>8, <2>9, <3>1
      <3>2. CASE j = dir
        BY <1>1, <2>8, <2>9, <3>2 DEF Fresh
      <3>3. CASE j # i /\ j # dir
        BY <1>1, <2>8, <3>3 DEF Fresh
      <3> QED
        BY <3>1, <3>2, <3>3
    <2>11. InTree(v, R, i)
      BY <2>3, <2>8 DEF InTree, LinkedIn
    <2>12. NewIn(v, n, R, i, type)
      BY <2>1, <2>2, <2>8, <2>9, <2>11 DEF NewIn
    <2>13. r = Done(v, i)
      BY <1>2, <1>4 DEF ids, i
    <2>14. IsDone(r) /\ r.n = v /\ r.id = i
      BY <2>13, DoneIs
    <2> HIDE DEF r
    <2> QED
      BY <2>6, <2>10, <2>12, <2>14 DEF Grown, Built, r
  <1> QED
    BY <1>3, <1>4

\* A child of a directory of the new tree is in the new tree.
LEMMA NewChild ==
    ASSUME NEW n, NEW u, NEW f, NEW R, NEW M, Built(u, n, f, R, M), NEW dir,
           NewIn(u, n, R, dir, "dir"), NEW name, Named(u, dir, name) # {}
    PROVE  LET i == Smallest(Named(u, dir, name))
           IN  NewIn(u, n, R, i, u[i].type)
  <1> DEFINE i == Smallest(Named(u, dir, name))
  <1>1. /\ Fresh(n, u) /\ dir \in Heap /\ n[dir].type = "free" /\ u \in [NodeIds -> Node]
        /\ Tree(u, R) /\ dir \in NodeIds
    BY Ids DEF Built, NewIn, Good, Tree, Typed
  <1>2. i \in u[dir].kids /\ i \in NodeIds
    BY <1>1, NamedIs
  <1> HIDE DEF i
  <1>3. i \in Heap /\ InTree(u, R, i)
    BY <1>1, <1>2 DEF Tree, Kin, InTree, LinkedIn
  <1>4. n[i].type = "free"
    BY <1>1, <1>2 DEF Fresh
  <1> QED
    BY <1>3, <1>4 DEF NewIn, i

LEMMA GetDirectoryIs ==
    ASSUME NEW n, NEW u, NEW f, NEW R, NEW M, Built(u, n, f, R, M), NEW dir,
           NewIn(u, n, R, dir, "dir"), NEW name \in STRING
    PROVE  Grown(get_directory(u, dir, name), n, f, R, M, "dir")
  <1> DEFINE hit == Named(u, dir, name)
             i == Smallest(hit)
             r == get_directory(u, dir, name)
             a == allocate_node(u, dir, name, "dir", TRUE)
  <1>1. r = IF hit = {} THEN a ELSE IF u[i].type # "dir" THEN Fail(u, "ENOTDIR") ELSE Done(u, i)
    BY DEF get_directory
  <1>2. CASE hit = {}
    <2>1. Grown(a, n, f, R, M, "dir")
      BY <1>2, AllocateIs
    <2> HIDE DEF a, r
    <2> QED
      BY <1>1, <1>2, <2>1 DEF r
  <1>3. CASE hit # {} /\ u[i].type # "dir"
    <2>1. r = Fail(u, "ENOTDIR")
      BY <1>1, <1>3
    <2>2. IsDone(r) /\ r.n = u /\ r.st = "ENOTDIR"
      BY <2>1, DoneIs
    <2> HIDE DEF r
    <2> QED
      BY <2>2 DEF Grown, r
  <1>4. CASE hit # {} /\ u[i].type = "dir"
    <2>1. NewIn(u, n, R, i, "dir")
      BY <1>4, NewChild
    <2>2. r = Done(u, i)
      BY <1>1, <1>4
    <2> HIDE DEF i
    <2>3. IsDone(r) /\ r.n = u /\ r.id = i
      BY <2>2, DoneIs
    <2> HIDE DEF r
    <2> QED
      BY <2>1, <2>3 DEF Grown, r
  <1> QED
    BY <1>2, <1>3, <1>4

FilledNode(a, bytes) ==
    [a EXCEPT !.data = bytes, !.size = Len(bytes), !.want = bytes, !.implicit = FALSE]

LEMMA FilledNodeIs ==
    ASSUME NEW a \in Node, NEW bytes \in Seq(Nat)
    PROVE  LET r == FilledNode(a, bytes)
           IN  /\ r \in Node /\ Sound(r) /\ r.name = a.name /\ r.type = a.type
               /\ r.refs = a.refs /\ r.kids = a.kids
  <1> DEFINE l == Len(bytes)
             r == FilledNode(a, bytes)
  <1>1. l \in Nat
    BY LenProperties
  <1>2. r = [a EXCEPT !.data = bytes, !.size = l, !.want = bytes, !.implicit = FALSE]
    BY DEF FilledNode
  <1> HIDE DEF r, l
  <1>3. r \in Node /\ r.data = bytes /\ r.size = l /\ r.want = bytes /\ r.name = a.name
        /\ r.type = a.type /\ r.refs = a.refs /\ r.kids = a.kids
    BY <1>1, <1>2 DEF Node
  <1>4. Sound(r)
    BY <1>1, <1>3 DEF Sound, l
  <1> QED
    BY <1>3, <1>4 DEF r

LEMMA FilledIs ==
    ASSUME NEW n, NEW f, NEW R, NEW M, NEW r, NEW type, type # "free",
           Grown(r, n, f, R, M, type), NEW bytes \in Seq(Nat)
    PROVE  Grown(Filled(r, bytes), n, f, R, M, type)
  <1> DEFINE a == r.n[r.id]
             b == FilledNode(a, bytes)
             v == [r.n EXCEPT ![r.id] = b]
             z == Filled(r, bytes)
  <1>1. CASE r.st # "OK"
    BY <1>1 DEF Filled
  <1>2. CASE r.st = "OK"
    <2>1. /\ Good(r.n, f, R, M, 0) /\ Fresh(n, r.n) /\ r.id \in Heap /\ r.id \in NodeIds
          /\ n[r.id].type = "free" /\ a.type = type /\ InTree(r.n, R, r.id)
          /\ r.n \in [NodeIds -> Node] /\ a \in Node
      BY <1>2, Ids DEF Grown, Built, NewIn, Good, Tree, Typed
    <2>2. z = Done(v, r.id)
      BY <1>2, <2>1 DEF Filled, FilledNode
    <2>3. /\ b \in Node /\ Sound(b) /\ b.name = a.name /\ b.type = a.type
          /\ b.refs = a.refs /\ b.kids = a.kids
      BY <2>1, FilledNodeIs
    <2> HIDE DEF b
    <2>4. v \in [NodeIds -> Node] /\ v[r.id] = b /\ \A j \in NodeIds : j # r.id => v[j] = r.n[j]
      BY <2>1, <2>3
    <2>5. Good(v, f, R, M, 0) /\ Grows(r.n, v, R)
      BY <2>1, <2>3, InDataOnly
    <2> HIDE DEF v
    <2>6. Fresh(n, v)
      <3> SUFFICES ASSUME NEW j \in NodeIds
                   PROVE  IF n[j].type # "free" \/ j \notin Heap THEN v[j] = n[j]
                          ELSE \A k \in v[j].kids : n[k].type = "free"
        BY DEF Fresh
      <3>1. CASE j = r.id
        BY <2>1, <2>3, <2>4, <3>1 DEF Fresh
      <3>2. CASE j # r.id
        BY <2>1, <2>4, <3>2 DEF Fresh
      <3> QED
        BY <3>1, <3>2
    <2>7. InTree(v, R, r.id)
      BY <2>1, <2>5 DEF Grows
    <2>8. NewIn(v, n, R, r.id, type)
      BY <2>1, <2>3, <2>4, <2>7 DEF NewIn
    <2>9. IsDone(z) /\ z.n = v /\ z.id = r.id
      BY <2>2, DoneIs
    <2> HIDE DEF z
    <2> QED
      BY <2>5, <2>6, <2>8, <2>9 DEF Grown, Built, z
  <1> QED
    BY <1>1, <1>2

LEMMA PlaceMemberIs ==
    ASSUME NEW n, NEW u, NEW f, NEW R, NEW M, Built(u, n, f, R, M), NEW dir,
           NewIn(u, n, R, dir, "dir"), NEW name \in STRING, NEW m, m.type \in {"dir", "reg"},
           m.size \in Nat
    PROVE  LET r == place_member(u, dir, name, m)
           IN  IsDone(r) /\ Built(r.n, n, f, R, M)
  <1> DEFINE hit == Named(u, dir, name)
             i == Smallest(hit)
             N == IF m.type = "reg" THEN m.size ELSE 0
             bytes == [k \in 1..N |-> 1]
             r == place_member(u, dir, name, m)
             a == allocate_node(u, dir, name, m.type, FALSE)
             b == Done(u, i)
  <1>1. r = IF hit = {} THEN Filled(a, bytes)
            ELSE IF u[i].implicit /\ m.type = "dir" THEN Filled(b, bytes)
            ELSE Fail(u, "EEXIST")
    BY DEF place_member
  <1>2. bytes \in Seq(Nat)
    <2>1. N \in Nat
      OBVIOUS
    <2> HIDE DEF N
    <2>2. bytes \in [1..N -> Nat]
      OBVIOUS
    <2> HIDE DEF bytes
    <2> QED
      BY <2>1, <2>2, MadeSeq
  <1> HIDE DEF bytes
  <1>3. CASE hit = {}
    <2> DEFINE type == m.type
    <2>1. type \in {"dir", "reg"} /\ type # "free"
      OBVIOUS
    <2> HIDE DEF type
    <2>2. a = allocate_node(u, dir, name, type, FALSE)
      BY DEF type
    <2> HIDE DEF a
    <2>3. Grown(a, n, f, R, M, type)
      BY <1>3, <2>1, <2>2, AllocateIs
    <2>4. Grown(Filled(a, bytes), n, f, R, M, type)
      BY <1>2, <2>1, <2>3, FilledIs
    <2>5. r = Filled(a, bytes)
      BY <1>1, <1>3
    <2> HIDE DEF r
    <2> QED
      BY <2>4, <2>5 DEF Grown, r
  <1>4. CASE hit # {}
    <2> DEFINE type == u[i].type
    <2>1. NewIn(u, n, R, i, type)
      BY <1>4, NewChild
    <2>2. type # "free"
      BY <2>1, Ids, LiveRefs DEF NewIn, Built
    <2> HIDE DEF i, type
    <2>3. Grown(b, n, f, R, M, type)
      BY <2>1, DoneIs DEF Grown
    <2> HIDE DEF b
    <2>4. Grown(Filled(b, bytes), n, f, R, M, type)
      BY <1>2, <2>2, <2>3, FilledIs
    <2>5. r = Filled(b, bytes) \/ r = Fail(u, "EEXIST")
      BY <1>1, <1>4 DEF i, b
    <2>6. IsDone(Fail(u, "EEXIST")) /\ Fail(u, "EEXIST").n = u
      BY DoneIs
    <2> HIDE DEF r
    <2> QED
      BY <2>4, <2>5, <2>6 DEF Grown, r
  <1> QED
    BY <1>3, <1>4

\* A member is being placed: more of its path is to come, or not.
Placing(r, n, f, R, M, more) ==
    /\ DOMAIN r = {"n", "st", "id", "saw"} /\ Built(r.n, n, f, R, M)
    /\ r.st = "OK" /\ more => NewIn(r.n, n, R, r.id, "dir")

Member == [abs : BOOLEAN, path : Seq(STRING), type : {"dir", "reg"}, size : Nat, sound : BOOLEAN]

LEMMA ComponentIs ==
    ASSUME NEW n, NEW f, NEW R, NEW M, NEW m \in Member, NEW k \in 1..Len(m.path), NEW r,
           Placing(r, n, f, R, M, TRUE)
    PROVE  Placing(insert_component(r, m, k), n, f, R, M, k < Len(m.path))
  <1> DEFINE v == insert_component(r, m, k)
             name == m.path[k]
             c1 == r.st # "OK"
             c2 == name = "." /\ ~(k = Len(m.path) /\ r.saw)
             c3 == name \in {".", ".."}
             w == [r EXCEPT !.st = "EINVAL"]
             d == get_directory(r.n, r.id, name)
             p == place_member(r.n, r.id, name, m)
             more == k < Len(m.path)
             z == Into(IF more THEN d ELSE p)
  <1>1. name \in STRING /\ m.type \in {"dir", "reg"} /\ m.size \in Nat
    BY DEF Member
  <1>2. v = CASE c1 -> r [] c2 -> r [] c3 -> w [] OTHER -> z
    BY DEF insert_component
  <1>3. /\ DOMAIN r = {"n", "st", "id", "saw"} /\ Built(r.n, n, f, R, M)
        /\ r.st = "OK" => NewIn(r.n, n, R, r.id, "dir")
    BY DEF Placing
  <1> HIDE DEF name
  <1>4. Placing(r, n, f, R, M, more)
    BY <1>3 DEF Placing
  <1>5. Placing(w, n, f, R, M, more)
    <2>1. DOMAIN w = {"n", "st", "id", "saw"} /\ w.n = r.n /\ w.st = "EINVAL"
      BY <1>3
    <2> HIDE DEF w
    <2> QED
      BY <1>3, <2>1 DEF Placing
  <1>6. ~c1 => Placing(z, n, f, R, M, more)
    <2> SUFFICES ASSUME ~c1 PROVE Placing(z, n, f, R, M, more)
      OBVIOUS
    <2>1. Grown(d, n, f, R, M, "dir")
      BY <1>1, <1>3, GetDirectoryIs
    <2>2. IsDone(p) /\ Built(p.n, n, f, R, M)
      BY <1>1, <1>3, PlaceMemberIs
    <2> HIDE DEF d, p
    <2> DEFINE q == IF more THEN d ELSE p
    <2>3. Built(q.n, n, f, R, M) /\ (q.st = "OK" /\ more => NewIn(q.n, n, R, q.id, "dir"))
      <3>1. CASE more
        <4>1. q = d
          BY <3>1
        <4> HIDE DEF q
        <4> QED
          BY <2>1, <4>1 DEF Grown
      <3>2. CASE ~more
        <4>1. q = p
          BY <3>2
        <4> HIDE DEF q
        <4> QED
          BY <2>2, <3>2, <4>1
      <3> QED
        BY <3>1, <3>2
    <2>4. z = [n |-> q.n, st |-> q.st, id |-> q.id, saw |-> TRUE]
      BY DEF Into
    <2> HIDE DEF q, z
    <2>5. DOMAIN z = {"n", "st", "id", "saw"} /\ z.n = q.n /\ z.st = q.st /\ z.id = q.id
      BY <2>4
    <2> QED
      BY <2>3, <2>5 DEF Placing
  <1> HIDE DEF v, w, z, c2, c3, more
  <1>7. v = r \/ v = w \/ (~c1 /\ v = z)
    <2> HIDE DEF c1
    <2> QED
      BY <1>2
  <1>8. Placing(v, n, f, R, M, more)
    BY <1>4, <1>5, <1>6, <1>7
  <1> QED
    BY <1>8 DEF v, more

LEMMA RootStays ==
    ASSUME NEW n, NEW u, NEW f, NEW R, NEW M, Built(u, n, f, R, M), NEW root \in R, root \in Heap,
           n[root].type = "free"
    PROVE  NewIn(u, n, R, root, "dir")
  BY DEF Built, Good, Tree, Rooted, NewIn, InTree

LEMMA InsertMemberIs ==
    ASSUME NEW n, NEW u, NEW f, NEW R, NEW M, Built(u, n, f, R, M), NEW root \in R, root \in Heap,
           n[root].type = "free", NEW m \in Member
    PROVE  LET r == insert_member(u, root, m)
           IN  IsDone(r) /\ Built(r.n, n, f, R, M)
  <1> DEFINE N == Len(m.path)
             r == insert_member(u, root, m)
  <1>1. N \in Nat
    BY LenProperties DEF Member
  <1>2. PICK at : InsertionTrace(u, root, m, at)
    BY <1>1, InsertionStates
  <1>3. /\ r = (IF m.abs \/ m.path = <<>> THEN Fail(u, "EINVAL") ELSE Inserted(at[N], u, m))
        /\ at[0] = [n |-> u, st |-> "OK", id |-> root, saw |-> FALSE]
        /\ \A k \in 1..N : at[k] = insert_component(at[k - 1], m, k)
    BY <1>2 DEF InsertionTrace
  <1> DEFINE P(k) == Placing(at[k], n, f, R, M, k < N)
             Bad == {k \in 0..N : ~P(k)}
  <1>4. P(0)
    <2> DEFINE o == at[0]
    <2>1. NewIn(u, n, R, root, "dir")
      BY RootStays
    <2>2. DOMAIN o = {"n", "st", "id", "saw"} /\ o.n = u /\ o.id = root
      BY <1>3
    <2> HIDE DEF o
    <2> QED
      BY <2>1, <2>2 DEF Placing, o
  <1>5. ASSUME NEW k \in 1..N, P(k - 1) PROVE P(k)
    <2>1. k - 1 < N
      BY <1>1
    <2>2. Placing(at[k - 1], n, f, R, M, TRUE)
      BY <1>5, <2>1 DEF Placing
    <2>3. Placing(insert_component(at[k - 1], m, k), n, f, R, M, k < N)
      BY <2>2, ComponentIs
    <2> QED
      BY <1>3, <2>3
  <1> HIDE DEF P
  <1>6. Bad = {}
    <2>1. Bad \subseteq 0..N /\ 0 \notin Bad
      BY <1>4
    <2>2. \A k \in 1..N : k \in Bad => k - 1 \in Bad
      BY <1>1, <1>5
    <2> HIDE DEF Bad, N
    <2> QED
      BY <1>1, <2>1, <2>2, Downwards
  <1>7. P(N)
    <2>1. N \in 0..N
      BY <1>1
    <2> QED
      BY <1>6, <2>1
  <1> DEFINE z == at[N]
  <1>8. Built(z.n, n, f, R, M)
    BY <1>7 DEF P, Placing
  <1> HIDE DEF z, N
  <1>9. r = Fail(u, "EINVAL") \/ r = [n |-> z.n, st |-> z.st, id |-> z.id]
    BY <1>3 DEF Inserted, z
  <1> HIDE DEF r
  <1>10. IsDone(r) /\ (r.n = u \/ r.n = z.n)
    BY <1>9 DEF Fail, IsDone
  <1> QED
    BY <1>8, <1>10 DEF r

LEMMA ParseIs ==
    ASSUME NEW n, NEW u, NEW f, NEW R, NEW M, Built(u, n, f, R, M), NEW root \in R, root \in Heap,
           n[root].type = "free", NEW archive \in Archives
    PROVE  Built(parse_archive(u, root, archive).n, n, f, R, M)
  <1> DEFINE N == Len(archive.members)
             r == parse_archive(u, root, archive)
  <1>1. archive.members \in Seq(Member)
    BY VfsAssumption DEF Member
  <1>2. N \in Nat /\ \A k \in 1..N : archive.members[k] \in Member
    BY <1>1, LenProperties, ElementOfSeq
  <1>3. PICK at : ParseTrace(u, root, archive, at)
    BY <1>2, ParseStates
  <1>4. /\ r = (IF at[N].st = "OK" /\ ~archive.trailer THEN [at[N] EXCEPT !.st = "EINVAL"] ELSE at[N])
        /\ at[0] = Done(u, root)
        /\ \A k \in 1..N : at[k] = parse_member(at[k - 1], root, archive.members[k])
    BY <1>3 DEF ParseTrace
  <1> DEFINE P(k) == IsDone(at[k]) /\ Built(at[k].n, n, f, R, M)
             Bad == {k \in 0..N : ~P(k)}
  <1>5. P(0)
    BY <1>4, DoneIs
  <1>6. ASSUME NEW k \in 1..N, P(k - 1) PROVE P(k)
    <2> DEFINE o == at[k - 1]
               m == archive.members[k]
               a == insert_member(o.n, root, m)
               b == [o EXCEPT !.st = "EINVAL"]
               v == at[k]
    <2>1. m \in Member /\ IsDone(o) /\ Built(o.n, n, f, R, M)
      BY <1>2, <1>6
    <2>2. v = IF o.st # "OK" THEN o ELSE IF ~m.sound THEN b ELSE a
      BY <1>4 DEF parse_member
    <2> HIDE DEF o, m, v
    <2>3. IsDone(a) /\ Built(a.n, n, f, R, M)
      BY <2>1, InsertMemberIs
    <2>4. IsDone(b) /\ b.n = o.n
      BY <2>1 DEF IsDone
    <2> HIDE DEF a, b
    <2>5. IsDone(v) /\ Built(v.n, n, f, R, M)
      BY <2>1, <2>2, <2>3, <2>4
    <2> QED
      BY <2>5 DEF v
  <1> HIDE DEF P
  <1>7. Bad = {}
    <2>1. Bad \subseteq 0..N /\ 0 \notin Bad
      BY <1>5
    <2>2. \A k \in 1..N : k \in Bad => k - 1 \in Bad
      BY <1>2, <1>6
    <2> HIDE DEF Bad, N
    <2> QED
      BY <1>2, <2>1, <2>2, Downwards
  <1>8. P(N)
    <2>1. N \in 0..N
      BY <1>2
    <2> QED
      BY <1>7, <2>1
  <1> DEFINE z == at[N]
             y == [z EXCEPT !.st = "EINVAL"]
  <1>9. IsDone(z) /\ Built(z.n, n, f, R, M)
    BY <1>8 DEF P
  <1>10. r = y \/ r = z
    BY <1>4
  <1> HIDE DEF z
  <1>11. y.n = z.n
    BY <1>9 DEF IsDone
  <1> HIDE DEF y, r
  <1> QED
    BY <1>9, <1>10, <1>11 DEF r

LEMMA InitramfsIs ==
    ASSUME VfsInv, NEW p \in Paths, NEW archive \in Archives, NEW oom \in BOOLEAN,
           ns_vfs_mount_initramfs(p, archive, oom)
    PROVE  VfsInv'
  <1> DEFINE path == ns_vfs_canonicalize(<<>>, p).path
             root == Smallest(FreeOf(node, Heap))
             u == [node EXCEPT ![root] = NewNode("", "dir", 1)]
             parsed == parse_archive(u, root, archive)
             v == parsed.n
             r == MountOn(resolve_canonical(v, path), path, root, oom)
             M == RootsOf(mounts)
             R == Roots \cup {root}
  <1>1. /\ up /\ FreeOf(node, Heap) # {} /\ UNCHANGED <<file, table, up>>
        /\ \/ node' = ramfs_destroy_tree(v, root) /\ mounts' = mounts
           \/ /\ node' = IF r.st = "OK" THEN r.n ELSE ramfs_destroy_tree(r.n, root)
              /\ mounts' = IF r.st = "OK" THEN mounts \cup {MountAt(path, root, TRUE, r.at)}
                           ELSE mounts
    BY DEF ns_vfs_mount_initramfs, Mounted, MountAt
  <1>2. root \in Heap /\ node[root].type = "free"
    <2>1. FreeOf(node, Heap) \in SUBSET Nat
      BY DEF FreeOf, Heap
    <2>2. root \in FreeOf(node, Heap)
      BY <1>1, <2>1, SmallestIs
    <2> QED
      BY <2>2 DEF FreeOf
  <1>3. /\ MountsUp /\ MountsOK(mounts) /\ Good(node, file, Roots, M, 0) /\ M \subseteq Roots
        /\ Anchored(node, mounts) /\ Tree(node, Roots)
    BY <1>1, UpIs DEF MountsUp
  <1>4. path \in Seq(STRING)
    BY RootIsCanonical, CanonicalizeIs DEF Canonical
  <1> HIDE DEF path, root, M
  <1>5. Good(u, file, R, M, 0) /\ Fresh(node, u)
    BY <1>2, <1>3, FreshRoot
  <1>6. root \in R
    OBVIOUS
  <1> HIDE DEF u, R
  <1>7. Built(v, node, file, R, M)
    BY <1>2, <1>5, <1>6, ParseIs DEF Built
  <1> HIDE DEF v
  <1>8. Good(v, file, R, M, 0) /\ Fresh(node, v)
    BY <1>7 DEF Built
  <1>9. ramfs_destroy_tree(v, root) = node
    BY <1>2, <1>3, <1>8, FreshDestroyed DEF R
  <1>10. MountedOn(r, v, path, root)
    <2>1. RootsOf(mounts) \subseteq R
      BY <1>3 DEF R, M
    <2> QED
      BY <1>3, <1>4, <1>6, <1>8, <2>1, MountOnIs
  <1> HIDE DEF r
  <1>11. CASE node' = node /\ mounts' = mounts
    BY <1>1, <1>3, <1>11, NodesEnd DEF M
  <1>12. CASE r.st = "OK" /\ node' = r.n /\ mounts' = mounts \cup {MountAt(path, root, TRUE, r.at)}
    <2>1. Grows(node, v, Roots)
      BY <1>3, <1>8, FreshGrows
    <2>2. Anchored(v, mounts)
      BY <1>3, <2>1, AnchoredGrows DEF M
    <2>3. root \notin M
      BY <1>2, <1>3 DEF Tree, Rooted
    <2>4. M \cup {NsfsRoot} \subseteq R /\ R = M \cup {NsfsRoot, root}
      BY DEF R, Roots, M
    <2>5. root \in R \cap (Heap \cup {NsfsRoot})
      BY <1>2, <1>6
    <2> QED
      BY <1>1, <1>4, <1>8, <1>10, <1>12, <2>2, <2>3, <2>4, <2>5, MountMade DEF M
  <1>13. r.st # "OK" => r.n = v
    BY <1>10 DEF MountedOn
  <1> QED
    BY <1>1, <1>9, <1>11, <1>12, <1>13

----------------------------------------------------------------------------
\* The end: every tree in memory goes.

LEMMA RootsReleasedIs ==
    ASSUME NEW n, NEW f, NEW M, Good(n, f, M \cup {NsfsRoot}, M, 0),
           \A i \in NodeIds : OnNode(f, i) = {}
    PROVE  LET v == RootsReleased(n, M)
           IN  /\ Tree(v, M \cup {NsfsRoot})
               /\ \A i \in NodeIds : /\ v[i].kids = n[i].kids /\ v[i].type = n[i].type
                                     /\ i \notin Heap => v[i] = n[i]
  <1> DEFINE R == M \cup {NsfsRoot}
             v == RootsReleased(n, M)
             Like(a, b) == /\ a \in Node /\ Sound(a) /\ a.kids = b.kids /\ a.name = b.name
                           /\ a.type = b.type /\ (a.type = "free" => a = FreeNode)
  <1>1. Tree(n, R) /\ n \in [NodeIds -> Node] /\ Heap \subseteq NodeIds /\ R \subseteq NodeIds
        /\ \A i \in NodeIds : Like(n[i], n[i])
    BY Ids DEF Good, Tree, Typed, Rooted, Kin
  <1>2. v = [i \in NodeIds |-> IF i \in M THEN node_release(n, i)[i] ELSE n[i]]
    BY DEF RootsReleased
  <1>3. ASSUME NEW i \in NodeIds
        PROVE  LET a == IF i \in M THEN node_release(n, i)[i] ELSE n[i]
               IN  Like(a, n[i]) /\ (i \notin Heap => a = n[i])
    <2>1. CASE i \notin M
      BY <1>1, <2>1
    <2>2. CASE i \in M /\ i \notin Heap
      BY <1>1, <2>2 DEF node_release, Counted
    <2>3. CASE i \in M /\ i \in Heap
      <3> DEFINE a == One(InTree(n, R, i))
                 b == One(i \in M)
                 c == Cardinality(OnNode(f, i))
                 d == One(i = 0)
                 u == node_release(n, i)
      <3>1. n[i].refs = a + b + c + d
        BY <2>3 DEF Good, Exact
      <3>2. a = 1 /\ b = 1 /\ c = 0 /\ d = 0
        BY <1>1, <2>3, FS_EmptySet DEF One, InTree, Heap
      <3> HIDE DEF a, b, c, d
      <3>3. n[i].refs = 2
        BY <3>1, <3>2
      <3>4. n[i].type = "dir"
        BY <1>1, <2>3 DEF Tree, Rooted
      <3>5. /\ u[i] = WithRefs(n[i], n[i].refs - 1)
            /\ u[i].kids = n[i].kids /\ u[i].name = n[i].name /\ u[i].type = n[i].type
            /\ u \in [NodeIds -> Node]
        BY <1>1, <2>3, <3>3, ReleaseIs
      <3>6. n[i] \in Node /\ n[i].refs - 1 \in Nat /\ Sound(n[i])
        BY <1>1, <3>3
      <3> HIDE DEF u
      <3>7. Sound(u[i])
        <4> DEFINE x == n[i]
                   k == n[i].refs - 1
        <4> HIDE DEF x, k
        <4>1. u[i] = WithRefs(x, k) /\ x \in Node /\ k \in Nat /\ Sound(x)
          BY <3>5, <3>6 DEF x, k
        <4> DEFINE y == WithRefs(x, k)
        <4>2. y.data = x.data /\ y.size = x.size /\ y.want = x.want
          BY <4>1, RefsOnly
        <4> HIDE DEF y
        <4>3. Sound(y)
          BY <4>1, <4>2 DEF Sound
        <4> QED
          BY <4>1, <4>3 DEF y
      <3>8. Like(u[i], n[i])
        BY <3>4, <3>5, <3>7
      <3> QED
        BY <2>3, <3>8 DEF u
    <2> QED
      BY <2>1, <2>2, <2>3
  <1> HIDE DEF v
  <1>4. \A i \in NodeIds : Like(v[i], n[i]) /\ (i \notin Heap => v[i] = n[i])
    BY <1>2, <1>3
  <1>5. v \in [NodeIds -> Node]
    <2>1. \A i \in NodeIds : v[i] \in Node
      BY <1>4
    <2> QED
      BY <1>2, <2>1
  <1>6. Tree(v, R)
    <2> HIDE DEF R
    <2> QED
      BY <1>1, <1>4, <1>5, AlikeTree
  <1> QED
    BY <1>4, <1>6 DEF v, R

\* When no file is open, nothing of them is left.
LEMMA TreesGone ==
    ASSUME NEW n, NEW f, NEW M, Good(n, f, M \cup {NsfsRoot}, M, 0),
           \A i \in NodeIds : OnNode(f, i) = {}
    PROVE  LET v == RootsReleased(n, M)
               u == Destroyed(v, UNION {Subtree(v, i) : i \in M \cap Heap})
           IN  \A i \in NodeIds : u[i] = IF i \in Heap THEN FreeNode ELSE n[i]
  <1> DEFINE R == M \cup {NsfsRoot}
             v == RootsReleased(n, M)
             T == UNION {Subtree(v, i) : i \in M \cap Heap}
             u == Destroyed(v, T)
             B == {i \in Heap : v[i].type # "free" /\ i \notin T}
  <1>1. Tree(n, R) /\ n \in [NodeIds -> Node] /\ Heap \subseteq NodeIds /\ R \subseteq NodeIds
        /\ NsfsRoot \notin Heap
    BY Ids, NodesAssumption DEF Good, Tree, Typed, Rooted, Heap
  <1>2. /\ Tree(v, R)
        /\ \A i \in NodeIds : /\ v[i].kids = n[i].kids /\ v[i].type = n[i].type
                              /\ i \notin Heap => v[i] = n[i]
    BY RootsReleasedIs
  <1> HIDE DEF v
  <1>3. /\ T \subseteq Heap /\ M \cap Heap \subseteq T /\ \A j \in T : v[j].kids \subseteq T
    <2>1. \A i \in M \cap Heap :
            /\ Subtree(v, i) \subseteq Heap /\ i \in Subtree(v, i)
            /\ \A j \in Subtree(v, i) : v[j].kids \subseteq Subtree(v, i)
      <3> HIDE DEF R
      <3> QED
        BY <1>2, SubtreeIs
    <2> QED
      BY <2>1
  <1> HIDE DEF T
  <1>4. B = {}
    <2> SUFFICES ASSUME B # {} PROVE FALSE
      OBVIOUS
    <2>1. B \in SUBSET NodeIds
      BY <1>1
    <2>2. PICK i \in B : \A j \in B : i \notin v[j].kids
      <3> HIDE DEF B
      <3> QED
        BY <1>2, <2>1 DEF Tree, Grounded
    <2>3. i \in Heap /\ i \in NodeIds /\ n[i].type # "free" /\ i \notin T
      BY <1>1, <1>2, <2>2
    <2>4. i \notin M /\ i \notin R
      BY <1>1, <1>3, <2>3
    <2>5. InTree(n, R, i)
      <3> DEFINE a == One(InTree(n, R, i))
                 b == One(i \in M)
                 c == Cardinality(OnNode(f, i))
                 d == One(i = 0)
      <3>1. n[i].refs = a + b + c + d /\ n[i].refs # 0
        BY <2>3 DEF Good, Exact
      <3>2. a \in Nat /\ b = 0 /\ c = 0 /\ d = 0
        BY <2>3, <2>4, FS_EmptySet DEF One, Heap
      <3> HIDE DEF a, b, c, d
      <3>3. a # 0
        BY <3>1, <3>2
      <3> QED
        BY <3>3 DEF a, One
    <2>6. PICK j \in NodeIds : i \in n[j].kids
      BY <2>4, <2>5 DEF InTree, LinkedIn
    <2>7. j \in Heap /\ n[j].type # "free"
      BY <1>1, <2>3, <2>6 DEF Tree, Kin
    <2>8. j \in B \/ j \in T
      BY <1>2, <2>7
    <2> QED
      BY <1>2, <1>3, <2>2, <2>3, <2>6, <2>8
  <1>5. ASSUME NEW i \in NodeIds
        PROVE  (IF i \in T THEN FreeNode ELSE v[i]) = IF i \in Heap THEN FreeNode ELSE n[i]
    <2>1. i \in Heap => i \in T \/ v[i] = FreeNode
      BY <1>2, <1>4 DEF Tree, Kin
    <2>2. i \notin Heap => i \notin T /\ v[i] = n[i]
      BY <1>2, <1>3
    <2> QED
      BY <2>1, <2>2
  <1>6. \A i \in NodeIds : u[i] = IF i \in Heap THEN FreeNode ELSE n[i]
    BY <1>5 DEF Destroyed
  <1> QED
    BY <1>6 DEF u, T, v

LEMMA DestroyIs ==
    ASSUME VfsInv, ns_vfs_destroy
    PROVE  VfsInv'
  <1> DEFINE M == RootsOf(mounts)
             R == M \cup {NsfsRoot}
             v == RootsReleased(node, M)
             u == Destroyed(v, UNION {Subtree(v, i) : i \in M \cap Heap})
  <1>1. /\ \A t \in Tables : table[t] = NoTable
        /\ up' = FALSE /\ mounts' = {} /\ node' = u /\ file' = file /\ table' = table
    BY DEF ns_vfs_destroy, Exists, RootsOf
  <1>2. /\ TablesOK(table) /\ FilesOK(file, EntryMap(table), 0)
        /\ Good(node, file, R, M, 0) /\ Tree(node, R) /\ node \in [NodeIds -> Node]
    BY DEF VfsInv, Good, Tree, Typed
  <1>3. ASSUME NEW k \in FileIds PROVE file[k].kind = "free"
    <2> DEFINE E == EntryMap(table)
    <2>1. EntriesOf(E, k) = {}
      <3>1. \A e \in Tables \X Fds : E[e] = 0
        BY <1>1 DEF EntryMap
      <3>2. k # 0
        BY FileIs
      <3> QED
        BY <3>1, <3>2 DEF EntriesOf
    <2>2. Cardinality(EntriesOf(E, k)) = 0 /\ One(k = 0) = 0
      BY <2>1, FS_EmptySet, FileIs DEF One
    <2>3. file[k].refs = Cardinality(EntriesOf(E, k)) + One(k = 0)
          /\ (file[k].kind = "free" <=> file[k].refs = 0)
      BY <1>2 DEF FilesOK
    <2> QED
      BY <2>2, <2>3
  <1>4. \A i \in NodeIds : OnNode(file, i) = {}
    BY <1>3 DEF OnNode
  <1>5. \A i \in NodeIds : u[i] = IF i \in Heap THEN FreeNode ELSE node[i]
    BY <1>2, <1>4, TreesGone
  <1>6. u \in [NodeIds -> Node]
    <2>1. \A i \in NodeIds : u[i] \in Node
      BY <1>2, <1>5, FreeNodeIs
    <2>2. u = [i \in NodeIds |-> u[i]]
      BY DEF Destroyed
    <2> HIDE DEF u
    <2> QED
      BY <2>1, <2>2
  <1> HIDE DEF u, v, M, R
  <1>7. Heap \subseteq NodeIds /\ NsfsRoot \in NodeIds /\ NsfsRoot \notin Heap /\ NsfsRoot \in R
        /\ 0 \notin Heap
    BY Ids, NodesAssumption DEF R
  <1>8. Typed(u)
    BY <1>2, <1>5, <1>6, FreeNodeIs DEF Tree, Typed, Uncounted
  <1>9. \A i \in NodeIds : u[i].kids = IF i \in Heap THEN {} ELSE node[i].kids
    BY <1>5, FreeNodeIs
  <1>10. ASSUME NEW i \in NodeIds, NEW j \in u[i].kids
         PROVE  /\ i \notin Heap /\ j \notin Heap /\ j \in NodeIds /\ j \in node[i].kids
                /\ u[i] = node[i] /\ u[j] = node[j]
    <2>1. i \notin Heap /\ j \in node[i].kids
      BY <1>9, <1>10
    <2>2. j \notin Heap
      BY <1>2, <2>1 DEF Tree, Kin
    <2>3. j \in NodeIds
      BY <1>2, <2>1 DEF Node
    <2> QED
      BY <1>5, <2>1, <2>2, <2>3
  <1>11. Kin(u)
    <2>1. \A i \in NodeIds : u[i].type = "free" => u[i] = FreeNode
      BY <1>2, <1>5 DEF Tree, Kin
    <2>2. ASSUME NEW i \in NodeIds, NEW j \in u[i].kids
          PROVE  /\ u[i].type = "dir" /\ u[j].type # "free" /\ (i \in Heap <=> j \in Heap)
                 /\ \A k \in NodeIds : j \in u[k].kids => k = i
                 /\ \A k \in u[i].kids : u[k].name = u[j].name => k = j
      <3>1. /\ i \notin Heap /\ j \notin Heap /\ j \in NodeIds /\ j \in node[i].kids
            /\ u[i] = node[i] /\ u[j] = node[j]
        BY <1>10, <2>2
      <3>2. /\ node[i].type = "dir" /\ node[j].type # "free"
            /\ \A k \in NodeIds : j \in node[k].kids => k = i
            /\ \A k \in node[i].kids : node[k].name = node[j].name => k = j
        BY <1>2, <3>1 DEF Tree, Kin
      <3>3. \A k \in NodeIds : j \in u[k].kids => k = i
        BY <1>9, <3>2
      <3>4. \A k \in u[i].kids : u[k] = node[k] /\ k \in node[i].kids
        BY <1>10
      <3> QED
        BY <3>1, <3>2, <3>3, <3>4
    <2> QED
      BY <2>1, <2>2 DEF Kin
  <1>12. Grounded(u)
    <2>1. \A i \in NodeIds : u[i].kids \subseteq node[i].kids
      BY <1>9
    <2>2. Grounded(node)
      BY <1>2 DEF Tree
    <2>3. ASSUME NEW S \in SUBSET NodeIds, S # {}
          PROVE  \E i \in S : \A j \in S : i \notin u[j].kids
      <3>1. PICK i \in S : \A j \in S : i \notin node[j].kids
        BY <2>2, <2>3 DEF Grounded
      <3> QED
        BY <2>1, <3>1
    <2> QED
      BY <2>3 DEF Grounded
  <1>13. Rooted(u, {NsfsRoot})
    <2>1. node[NsfsRoot].type = "dir" /\ ~LinkedIn(node, NsfsRoot)
      BY <1>2, <1>7 DEF Tree, Rooted
    <2>2. u[NsfsRoot].type = "dir" /\ ~LinkedIn(u, NsfsRoot)
      BY <1>5, <1>7, <1>9, <2>1 DEF LinkedIn
    <2>3. M \subseteq Heap \cup {NsfsRoot}
      BY DEF VfsInv, MountsOK, Mount, RootsOf, M
    <2>4. ASSUME NEW i \in NodeIds, u[i].kids # {} PROVE InTree(u, {NsfsRoot}, i)
      <3>1. i \notin Heap /\ node[i].kids # {}
        BY <1>9, <2>4
      <3>2. InTree(node, R, i)
        BY <1>2, <3>1 DEF Tree, Rooted
      <3>3. CASE LinkedIn(node, i)
        <4>1. PICK j \in NodeIds : i \in node[j].kids
          BY <3>3 DEF LinkedIn
        <4>2. j \notin Heap
          BY <1>2, <3>1, <4>1 DEF Tree, Kin
        <4>3. i \in u[j].kids
          BY <1>9, <4>1, <4>2
        <4> QED
          BY <4>3 DEF InTree, LinkedIn
      <3>4. CASE i = NsfsRoot
        BY <3>4 DEF InTree
      <3> QED
        BY <3>1, <3>2, <3>3, <3>4, <2>3 DEF InTree, R
    <2> QED
      BY <1>7, <2>2, <2>4 DEF Rooted
  <1>14. Exact(u, file, {NsfsRoot}, {}, 0)
    <2>1. ASSUME NEW i \in Heap
          PROVE  /\ u[i].refs = One(InTree(u, {NsfsRoot}, i)) + One(i \in {})
                                 + Cardinality(OnNode(file, i)) + One(i = 0)
                 /\ u[i].type = "free" <=> u[i].refs = 0
      <3> DEFINE a == One(InTree(u, {NsfsRoot}, i))
                 b == One(i \in {})
                 c == Cardinality(OnNode(file, i))
                 d == One(i = 0)
      <3>1. ~LinkedIn(u, i)
        BY <1>10 DEF LinkedIn
      <3>2. a = 0 /\ b = 0 /\ c = 0 /\ d = 0
        BY <1>4, <1>7, <3>1, FS_EmptySet DEF One, InTree
      <3>3. u[i].refs = 0 /\ u[i].type = "free"
        BY <1>5, <1>7, FreeNodeIs
      <3> HIDE DEF a, b, c, d
      <3>4. u[i].refs = a + b + c + d
        BY <3>2, <3>3
      <3> QED
        BY <3>3, <3>4 DEF a, b, c, d
    <2> QED
      BY <2>1 DEF Exact
  <1>15. Good(u, file, {NsfsRoot}, {}, 0)
    BY <1>8, <1>11, <1>12, <1>13, <1>14 DEF Good, Tree
  <1>16. RootsOf(mounts') = {} /\ RootsOf(mounts') \cup {NsfsRoot} = {NsfsRoot}
    BY <1>1 DEF RootsOf
  <1>17. Good(node', file', RootsOf(mounts') \cup {NsfsRoot}, RootsOf(mounts'), 0)
    BY <1>1, <1>15, <1>16
  <1>18. MountsOK(mounts') /\ Anchored(node', mounts')
    BY <1>1 DEF MountsOK, Anchored
  <1>19. TablesOK(table') /\ FilesOK(file', EntryMap(table'), 0)
         /\ \A t \in Tables : table'[t] = NoTable
    BY <1>1, <1>2
  <1> QED
    BY <1>1, <1>17, <1>18, <1>19 DEF VfsInv

----------------------------------------------------------------------------
\* The first state.

LEMMA FirstNodes ==
    ASSUME ns_vfs_create, file = [k \in FileIds |-> FreeFile]
    PROVE  Good(node, file, {1, NsfsRoot}, {1}, 0)
  <1> DEFINE R == {1, NsfsRoot}
             name == ""
             type == "dir"
             two == 2
             one == 1
             a == NewNode(name, type, two)
             b == NewNode(name, type, one)
  <1>1. /\ a \in Node /\ Sound(a) /\ a.type = type /\ a.refs = two /\ a.kids = {}
        /\ b \in Node /\ Sound(b) /\ b.type = type /\ b.refs = one /\ b.kids = {}
    <2>1. name \in Name /\ type \in {"free", "dir", "reg", "char"} /\ two \in Nat /\ one \in Nat
      BY DEF Name
    <2> HIDE DEF name, type, two, one
    <2> QED
      BY <2>1, NewNodeIs
  <1>2. node = [i \in NodeIds |-> IF i = 1 THEN a ELSE IF i = NsfsRoot THEN b ELSE FreeNode]
    <2> HIDE DEF a, b
    <2>1. node = [i \in NodeIds |-> CASE i = 1 -> a [] i = NsfsRoot -> b [] OTHER -> FreeNode]
      BY Zenon DEF ns_vfs_create, a, b
    <2>2. 1 # NsfsRoot
      BY Ids
    <2> QED
      BY <2>1, <2>2
  <1>3. /\ a \in Node /\ Sound(a) /\ a.type = "dir" /\ a.refs = 2 /\ a.kids = {}
        /\ b \in Node /\ Sound(b) /\ b.type = "dir" /\ b.refs = 1 /\ b.kids = {}
    BY <1>1
  <1> HIDE DEF a, b, R
  <1>4. /\ node \in [NodeIds -> Node] /\ node[1] = a /\ node[NsfsRoot] = b
        /\ \A i \in NodeIds : i \notin R => node[i] = FreeNode
        /\ \A i \in NodeIds : node[i].kids = {}
        /\ R \subseteq NodeIds /\ 1 # NsfsRoot
    BY <1>2, <1>3, Ids, FreeNodeIs DEF R
  <1>5. Typed(node)
    BY <1>3, <1>4, Ids, FreeNodeIs DEF Typed, Uncounted, R
  <1>6. Kin(node)
    BY <1>3, <1>4, FreeNodeIs DEF Kin, R
  <1>7. Grounded(node)
    BY <1>4 DEF Grounded
  <1>8. \A i \in NodeIds : InTree(node, R, i) <=> i \in R
    BY <1>4 DEF InTree, LinkedIn
  <1>9. Rooted(node, R)
    BY <1>3, <1>4 DEF Rooted, LinkedIn, R
  <1>10. Exact(node, file, R, {1}, 0)
    <2>1. {1} \subseteq R
      BY DEF R
    <2>2. ASSUME NEW i \in Heap
          PROVE  /\ node[i].refs = One(InTree(node, R, i)) + One(i \in {1})
                                    + Cardinality(OnNode(file, i)) + One(i = 0)
                 /\ node[i].type = "free" <=> node[i].refs = 0
      <3> DEFINE e == One(InTree(node, R, i))
                 f == One(i \in {1})
                 g == Cardinality(OnNode(file, i))
                 h == One(i = 0)
      <3>1. OnNode(file, i) = {}
        BY FileIs DEF OnNode
      <3>2. i \in NodeIds /\ i # NsfsRoot /\ i # 0
        BY Ids
      <3>3. e = One(i = 1) /\ f = One(i = 1) /\ g = 0 /\ h = 0
        BY <1>8, <3>1, <3>2, FS_EmptySet DEF One, R
      <3> HIDE DEF e, f, g, h
      <3>4. node[i].refs = e + f + g + h /\ (node[i].type = "free" <=> node[i].refs = 0)
        BY <1>3, <1>4, <3>2, <3>3, FreeNodeIs DEF One, R
      <3> QED
        BY <3>4 DEF e, f, g, h
    <2> QED
      BY <2>1, <2>2 DEF Exact
  <1> QED
    BY <1>5, <1>6, <1>7, <1>9, <1>10 DEF Good, Tree, R

LEMMA FirstTables ==
    ASSUME NEW t \in Tables, table = [[u \in Tables |-> NoTable] EXCEPT ![t] = EmptyTable],
           file = [k \in FileIds |-> FreeFile]
    PROVE  TablesOK(table) /\ FilesOK(file, EntryMap(table), 0)
  <1>1. \A u \in Tables : table[u] = IF u = t THEN EmptyTable ELSE NoTable
    OBVIOUS
  <1>2. table \in [Tables -> Table \cup {NoTable}]
    BY TableIs
  <1>3. TablesOK(table)
    BY <1>1, <1>2, TableIs DEF TablesOK
  <1> DEFINE E == EntryMap(table)
  <1>4. \A e \in Tables \X Fds : E[e] = 0
    <2>1. ASSUME NEW u \in Tables, NEW d \in Fds PROVE E[<<u, d>>] = 0
      <3>1. E[<<u, d>>] = IF table[u] = NoTable THEN 0 ELSE table[u].fds[d].file
        BY DEF EntryMap
      <3> QED
        BY <1>1, <3>1, TableIs, FileIs
    <2> HIDE DEF E
    <2> QED
      BY <2>1
  <1> HIDE DEF E
  <1>5. ASSUME NEW k \in FileIds
        PROVE  /\ file[k].kind = "vnode" => file[k].node \in NodeIds
               /\ file[k].refs = Cardinality(EntriesOf(E, k)) + One(k = 0)
               /\ file[k].kind = "free" <=> file[k].refs = 0
    <2>1. EntriesOf(E, k) = {} /\ k # 0
      BY <1>4, FileIs DEF EntriesOf
    <2>2. Cardinality(EntriesOf(E, k)) = 0 /\ One(k = 0) = 0
      BY <2>1, FS_EmptySet DEF One
    <2> QED
      BY <2>2, FileIs
  <1>6. FilesOK(file, E, 0)
    BY <1>5, FileIs DEF FilesOK
  <1> QED
    BY <1>3, <1>6 DEF E

LEMMA InitIs == Init => VfsInv
  <1> SUFFICES ASSUME Init PROVE VfsInv
    OBVIOUS
  <1>1. ns_vfs_create /\ file = [k \in FileIds |-> FreeFile]
    BY DEF Init
  <1>2. PICK t \in Tables : table = [[u \in Tables |-> NoTable] EXCEPT ![t] = EmptyTable]
    BY DEF Init
  <1>3. TablesOK(table) /\ FilesOK(file, EntryMap(table), 0)
    BY <1>1, <1>2, FirstTables
  <1> DEFINE m == [target |-> <<>>, root |-> 1, ro |-> FALSE, covered |-> 0]
  <1>4. up = TRUE /\ mounts = {m}
    BY DEF Init, ns_vfs_create
  <1>5. m \in Mount /\ m.target = <<>> /\ m.root = 1
    BY Ids DEF Mount
  <1> HIDE DEF m
  <1>6. MountsOK(mounts) /\ (\E o \in mounts : o.target = <<>>) /\ RootsOf(mounts) = {1}
    BY <1>4, <1>5 DEF MountsOK, RootsOf
  <1>7. Anchored(node, mounts)
    BY <1>4, <1>5 DEF Anchored
  <1>8. Good(node, file, {1, NsfsRoot}, {1}, 0)
    BY <1>1, FirstNodes
  <1>9. RootsOf(mounts) \cup {NsfsRoot} = {1, NsfsRoot}
    BY <1>6
  <1>10. Good(node, file, RootsOf(mounts) \cup {NsfsRoot}, RootsOf(mounts), 0)
    BY <1>6, <1>8, <1>9
  <1> QED
    BY <1>3, <1>4, <1>6, <1>7, <1>10 DEF VfsInv

----------------------------------------------------------------------------
\* Every call keeps the invariant.

LEMMA NameCallIs ==
    ASSUME VfsInv, NameCall
    PROVE  VfsInv'
  BY MountIs, InitramfsIs, MkdirIs, UnlinkIs, RegisterIs, ChdirIs DEF NameCall

LEMMA OpenCallsAre ==
    ASSUME VfsInv, OpenCall
    PROVE  VfsInv'
  BY CreateTable, FileCreateIs, OpenCallIs, SpawnIs, DupCallIs, Dup2CallIs DEF OpenCall

LEMMA DataCallIs ==
    ASSUME VfsInv, DataCall
    PROVE  VfsInv'
  <1>1. Counts \subseteq Nat
    BY VfsAssumption
  <1> QED
    BY <1>1, WriteIs, ReadIs, SeekIs, GetdentsIs DEF DataCall

LEMMA CloseCallsAre ==
    ASSUME VfsInv, CloseCall
    PROVE  VfsInv'
  BY DestroyTable, CloseCallIs, ExecIs, DestroyIs DEF CloseCall

LEMMA StepIs == VfsInv /\ [Next]_vars => VfsInv'
  <1> SUFFICES ASSUME VfsInv, [Next]_vars PROVE VfsInv'
    OBVIOUS
  <1>1. CASE Next
    BY <1>1, NameCallIs, OpenCallsAre, DataCallIs, CloseCallsAre DEF Next
  <1>2. CASE UNCHANGED vars
    BY <1>2 DEF VfsInv, vars
  <1> QED
    BY <1>1, <1>2

LEMMA InvariantHolds == Spec => []VfsInv
  BY InitIs, StepIs, PTL DEF Spec

----------------------------------------------------------------------------
\* What the invariant says of the properties.

LEMMA HolderCounts ==
    ASSUME VfsInv, NEW i \in Heap
    PROVE  LET tree == IF Linked(i) \/ MountsOf(i) # {} THEN 1 ELSE 0
               ms == Cardinality(MountsOf(i))
               fs == Cardinality(FilesOn(i))
           IN  /\ node[i].refs = tree + ms + fs /\ (Live(i) <=> node[i].refs # 0)
               /\ tree \in 0..1 /\ ms \in 0..1 /\ fs \in 0..OpenFiles
  <1> DEFINE M == RootsOf(mounts)
             R == M \cup {NsfsRoot}
             tree == IF Linked(i) \/ MountsOf(i) # {} THEN 1 ELSE 0
             ms == Cardinality(MountsOf(i))
             fs == Cardinality(FilesOn(i))
             a == One(InTree(node, R, i))
             b == One(i \in M)
             c == Cardinality(OnNode(file, i))
             d == One(i = 0)
  <1>1. MountsOK(mounts) /\ Good(node, file, R, M, 0) /\ i # NsfsRoot /\ i # 0 /\ i \in NodeIds
    BY Ids DEF VfsInv
  <1>2. node[i].refs = a + b + c + d /\ (node[i].type = "free" <=> node[i].refs = 0)
    BY <1>1 DEF Good, Exact
  <1>3. MountsOf(i) # {} <=> i \in M
    BY DEF MountsOf, RootsOf
  <1>4. a = tree
    BY <1>1, <1>3 DEF One, InTree, LinkedIn, Linked
  <1>5. b = ms
    <2>1. CASE i \in M
      <3>1. PICK m \in mounts : m.root = i
        BY <2>1 DEF RootsOf
      <3>2. MountsOf(i) = {m}
        BY <1>1, <3>1 DEF MountsOf, MountsOK
      <3> QED
        BY <2>1, <3>2, FS_Singleton DEF One
    <2>2. CASE i \notin M
      <3>1. MountsOf(i) = {}
        BY <1>3, <2>2
      <3> QED
        BY <2>2, <3>1, FS_EmptySet DEF One
    <2> QED
      BY <2>1, <2>2
  <1>6. c = fs /\ d = 0
    BY <1>1 DEF OnNode, FilesOn, One
  <1>7. fs \in 0..OpenFiles
    <2>1. IsFiniteSet(FileIds) /\ Cardinality(FileIds) = OpenFiles /\ OpenFiles \in Nat
      <3>1. OpenFiles \in Nat \ {0} /\ 1 \in Int
        BY VfsAssumption
      <3>2. /\ IsFiniteSet(1..OpenFiles)
            /\ Cardinality(1..OpenFiles) = IF 1 > OpenFiles THEN 0 ELSE OpenFiles - 1 + 1
        BY <3>1, FS_Interval
      <3> QED
        BY <3>1, <3>2 DEF FileIds
    <2>2. FilesOn(i) \subseteq FileIds
      BY DEF FilesOn
    <2>3. IsFiniteSet(FilesOn(i)) /\ fs <= OpenFiles
      BY <2>1, <2>2, FS_Subset
    <2>4. fs \in Nat
      BY <2>3, FS_CardinalityType
    <2> QED
      BY <2>1, <2>3, <2>4
  <1>8. tree \in 0..1 /\ b \in 0..1
    BY DEF One
  <1> HIDE DEF a, b, c, d, tree, ms, fs
  <1>9. node[i].refs = tree + ms + fs
    BY <1>2, <1>4, <1>5, <1>6, <1>7, <1>8
  <1>10. Live(i) <=> node[i].refs # 0
    BY <1>2 DEF Live
  <1> QED
    BY <1>5, <1>7, <1>8, <1>9, <1>10 DEF tree, ms, fs

LEMMA EntryCounts ==
    ASSUME VfsInv, NEW k \in FileIds
    PROVE  /\ file[k].refs = Cardinality(Entries(k)) /\ (file[k].kind = "free" <=> Entries(k) = {})
           /\ file[k].refs \in 0..(MaximumFds * Cardinality(Tables)) /\ file[k] \in File
  <1> DEFINE E == EntryMap(table)
             c == Cardinality(EntriesOf(E, k))
  <1>1. k # 0
    BY FileIs
  <1>2. /\ file[k].refs = c + One(k = 0) /\ file[k] \in File
        /\ file[k].kind = "free" <=> file[k].refs = 0
    BY DEF VfsInv, FilesOK
  <1>3. Entries(k) = EntriesOf(E, k)
    <2>1. ASSUME NEW e \in Tables \X Fds
          PROVE  E[e] = k <=> Exists(e[1]) /\ table[e[1]].fds[e[2]].file = k
      <3>1. E[e] = IF table[e[1]] = NoTable THEN 0 ELSE table[e[1]].fds[e[2]].file
        BY DEF EntryMap
      <3> QED
        BY <1>1, <3>1 DEF Exists
    <2> HIDE DEF E
    <2> QED
      BY <2>1 DEF Entries, EntriesOf
  <1>4. c \in Nat /\ (c = 0 <=> EntriesOf(E, k) = {}) /\ c <= MaximumFds * Cardinality(Tables)
    BY EntriesFinite
  <1>5. MaximumFds * Cardinality(Tables) \in Nat
    <2>1. MaximumFds \in Nat /\ Cardinality(Tables) \in Nat
      BY VfsAssumption, FS_CardinalityType
    <2> QED
      BY <2>1
  <1>6. One(k = 0) = 0
    BY <1>1 DEF One
  <1> HIDE DEF E, c
  <1>7. file[k].refs = c
    BY <1>2, <1>4, <1>6
  <1> QED
    BY <1>2, <1>3, <1>4, <1>5, <1>7 DEF c

LEMMA ExactIs == VfsInv => ReferencesExact
  <1> SUFFICES ASSUME VfsInv PROVE ReferencesExact
    OBVIOUS
  <1>1. \A k \in FileIds : /\ file[k].refs = Cardinality(Entries(k))
                           /\ file[k].kind = "free" <=> Entries(k) = {}
    BY EntryCounts
  <1>2. ASSUME NEW i \in Heap
        PROVE  LET tree == IF Linked(i) \/ MountsOf(i) # {} THEN 1 ELSE 0
                   held == tree + Cardinality(MountsOf(i)) + Cardinality(FilesOn(i))
               IN  node[i].refs = held /\ (Live(i) <=> held > 0)
    <2> DEFINE tree == IF Linked(i) \/ MountsOf(i) # {} THEN 1 ELSE 0
               ms == Cardinality(MountsOf(i))
               fs == Cardinality(FilesOn(i))
    <2>1. /\ node[i].refs = tree + ms + fs /\ (Live(i) <=> node[i].refs # 0)
          /\ tree \in 0..1 /\ ms \in 0..1 /\ fs \in 0..OpenFiles
      BY HolderCounts
    <2> HIDE DEF tree, ms, fs
    <2>2. node[i].refs = tree + ms + fs /\ (Live(i) <=> tree + ms + fs > 0)
      BY <2>1
    <2> QED
      BY <2>2 DEF tree, ms, fs
  <1>3. \A i \in NodeIds : \A j \in node[i].kids : Live(i) /\ Live(j)
    BY DEF VfsInv, Good, Tree, Kin, Live
  <1> QED
    BY <1>1, <1>2, <1>3 DEF ReferencesExact

LEMMA TypesAre == VfsInv => TypeOK
  <1> SUFFICES ASSUME VfsInv PROVE TypeOK
    OBVIOUS
  <1>1. Typed(node)
    BY DEF VfsInv, Good, Tree
  <1>2. ASSUME NEW i \in NodeIds
        PROVE  /\ node[i].type \in {"free", "dir", "reg", "char"}
               /\ node[i].refs \in 0..(2 + OpenFiles)
               /\ node[i].size <= Len(node[i].data)
    <2>1. node[i] \in Node /\ Sound(node[i]) /\ OpenFiles \in Nat
      BY <1>1, VfsAssumption DEF Typed
    <2>2. node[i].type \in {"free", "dir", "reg", "char"} /\ node[i].size <= Len(node[i].data)
          /\ node[i].refs \in Nat
      BY <2>1 DEF Node, Sound
    <2>3. CASE i \notin Heap
      BY <1>1, <2>1, <2>2, <2>3 DEF Typed, Uncounted
    <2>4. CASE i \in Heap
      <3> DEFINE tree == IF Linked(i) \/ MountsOf(i) # {} THEN 1 ELSE 0
                 ms == Cardinality(MountsOf(i))
                 fs == Cardinality(FilesOn(i))
      <3>1. node[i].refs = tree + ms + fs /\ tree \in 0..1 /\ ms \in 0..1 /\ fs \in 0..OpenFiles
        BY <2>4, HolderCounts
      <3> HIDE DEF tree, ms, fs
      <3> QED
        BY <2>1, <2>2, <3>1
    <2> QED
      BY <2>3, <2>4
  <1>3. \A k \in FileIds : /\ file[k].kind \in {"free", "vnode", "device", "custom"}
                           /\ file[k].refs \in 0..(MaximumFds * Cardinality(Tables))
    BY EntryCounts DEF File
  <1>4. \A t \in Tables : Len(table[t].cwd) <= MaxDepth
    BY DEF VfsInv, TablesOK
  <1> QED
    BY <1>2, <1>3, <1>4 DEF TypeOK

LEMMA AnchorsHold == VfsInv => MountsAnchored
  <1> SUFFICES ASSUME VfsInv, NEW m \in mounts, m.target # <<>>
               PROVE  LET i == m.covered
                      IN  node[i].type = "dir" /\ (Linked(i) \/ MountsOf(i) # {})
    BY DEF MountsAnchored
  <1> DEFINE i == m.covered
             R == Roots
  <1>1. /\ MountsOK(mounts) /\ Tree(node, R) /\ Anchored(node, mounts) /\ RootsOf(mounts) \subseteq R
    BY DEF VfsInv, Good, Roots
  <1>2. PICK o \in mounts : Arrives(node, o, m.target, i)
    BY <1>1 DEF Anchored
  <1>3. node[i].type = "dir" /\ m.target \in Seq(STRING)
    BY <1>1 DEF Anchored, MountsOK, Mount
  <1>4. i \in RootsOf(mounts) \/ LinkedIn(node, i)
    <2> HIDE DEF i, R
    <2> QED
      BY <1>1, <1>2, <1>3, ArrivesIn
  <1> QED
    BY <1>3, <1>4 DEF MountsOf, RootsOf, LinkedIn, Linked

LEMMA ContentsAre == VfsInv => ContentsAsWritten
  <1> SUFFICES ASSUME VfsInv, NEW i \in NodeIds
               PROVE  SubSeq(node[i].data, 1, node[i].size) = node[i].want
    BY DEF ContentsAsWritten
  <1> DEFINE r == node[i]
  <1>1. r \in Node /\ Sound(r)
    BY DEF VfsInv, Good, Tree, Typed
  <1> HIDE DEF r
  <1>2. /\ r.data \in Seq(Nat) /\ r.want \in Seq(Nat) /\ r.size \in Nat /\ r.size <= Len(r.data)
        /\ Len(r.want) = r.size /\ \A k \in 1..r.size : r.data[k] = r.want[k]
    BY <1>1 DEF Node, Sound
  <1> DEFINE d == r.data
             w == r.want
             c == r.size
  <1>3. SubSeq(d, 1, c) = w
    <2> HIDE DEF d, w, c
    <2>1. d \in Seq(Nat) /\ w \in Seq(Nat) /\ c \in Nat /\ c <= Len(d) /\ Len(w) = c
          /\ \A k \in 1..c : d[k] = w[k]
      BY <1>2 DEF d, w, c
    <2>2. /\ SubSeq(d, 1, c) \in Seq(Nat) /\ Len(SubSeq(d, 1, c)) = c
          /\ \A k \in 1..c : SubSeq(d, 1, c)[k] = d[k]
      BY <2>1, SubSeqProperties
    <2> QED
      BY <2>1, <2>2, SeqEqual
  <1> QED
    BY <1>3 DEF r

----------------------------------------------------------------------------
\* The theorems.

\* The types of nodes, open files and working directories hold in every reachable
\* state, for every size of every table; in particular the buffer of a file is
\* never shorter than its contents (ramfs_write, ramfs_truncate, the initramfs
\* parser) and no counter exceeds the number of holders there can be.
THEOREM VfsTypeCorrect == Spec => []TypeOK
  BY InvariantHolds, TypesAre, PTL

\* Whatever calls are made in whatever order, and wherever they fail, every open
\* file has exactly one reference per descriptor and every node in memory exactly
\* one for its place in the tree, one per mount and one per open file; a node or a
\* file is free if and only if nothing holds it, and ns_vfs_destroy leaves nothing.
THEOREM VfsReferencesExact == Spec => []ReferencesExact
  BY InvariantHolds, ExactIs, PTL

\* A directory that a file system is mounted on stays a directory of the tree as
\* long as the mount stands: ns_vfs_unlink and rmdir cannot take it, or one above
\* it, away by any path, relative, through another mount or with a trailing slash.
THEOREM VfsMountsAnchored == Spec => []MountsAnchored
  BY InvariantHolds, AnchorsHold, PTL

\* The contents of every file are what the writes, truncations and archive members
\* so far make them: a write past the end reads as zeros up to it, also where the
\* buffer kept bytes from before a truncation (ramfs_write, ramfs_truncate).
THEOREM VfsContentsAsWritten == Spec => []ContentsAsWritten
  BY InvariantHolds, ContentsAre, PTL
====
