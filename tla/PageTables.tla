----------------------------- MODULE PageTables -----------------------------
(* The physical memory manager (pmm.c) and the page tables (vmm.c) as         *)
(* operators on one record m:                                                 *)
(*   allocated, reserved  the two bitmaps, as sets of frames;                 *)
(*   free_frames, next_hint  the counter and the place the next search starts;*)
(*   tables  what each frame holds when it is read as a page table;           *)
(*   data    whose bytes each frame holds: NoBytes after it has been zeroed.  *)
(* An operation that can fail returns [m, r] with r = "OK" or the error.      *)
(* Addresses are page numbers; sizes that need not be whole pages count Sub   *)
(* parts of a page.  Entries 0 .. Fan \div 2 - 1 of a root are the user half. *)
EXTENDS Integers, Sequences, FiniteSets, SequencesExt

CONSTANTS
  Sub,            \* parts of a page the firmware's ranges are measured in
  Word,           \* 2^64: one more than the greatest physical address
  E820,           \* the firmware's map: records [usable, enabled, base, length]
  BootRegions,    \* what the loader left in memory: records [base, length]
  DirectMap,      \* boot->direct_map_size, in parts
  LowReserve,     \* NS_PMM_LOW_MEMORY_RESERVE, in parts
  KernelRoot,     \* the frame of boot->pml4_phys
  Levels,         \* 4 on x86-64
  Fan,            \* 512 on x86-64
  NoBytes         \* the contents of a zeroed frame

ASSUME PageTablesAssumption ==
  /\ {Sub, Word, DirectMap, Levels} \subseteq Nat \ {0}
  /\ LowReserve \in Nat
  /\ Fan \in Nat \ {0, 1}
  /\ Len(E820) > 0

-----------------------------------------------------------------------------
(* pmm.c *)

align_up_page(u) == (u + Sub - 1) \div Sub

align_down_page(u) == u \div Sub

\* The end of a range, saturating where base + length overflows.
RangeEnd(e) == IF e.base + e.length >= Word THEN Word - 1 ELSE e.base + e.length

MinOf(a, b) == IF a < b THEN a ELSE b

frame_count ==
  LET ends == {RangeEnd(E820[i]) : i \in {j \in DOMAIN E820 : E820[j].enabled /\ E820[j].length # 0}}
  IN  align_up_page(MinOf(Max(ends \cup {0}), DirectMap))

Frame == 0 .. frame_count - 1

\* The frames a usable range covers whole, and those a reserved one touches.
WholePages(e) ==
  align_up_page(e.base) .. MinOf(align_down_page(RangeEnd(e)), frame_count) - 1

TouchedPages(e) ==
  IF e.length = 0 THEN {}
  ELSE align_down_page(e.base) .. MinOf(align_up_page(RangeEnd(e)), frame_count) - 1

reserve_boot_regions ==
  UNION {TouchedPages(r) : r \in BootRegions \cup {[base |-> 0, length |-> LowReserve]}}

Absent == [phys |-> -1, user |-> FALSE, write |-> FALSE, exec |-> FALSE, owned |-> FALSE]

Index == 0 .. Fan - 1

ZeroTable == [i \in Index |-> Absent]

\* A reserved entry wins over an overlapping usable one.
ns_pmm_init ==
  LET on == {E820[i] : i \in {j \in DOMAIN E820 : E820[j].enabled}}
      usable == UNION {WholePages(e) : e \in {x \in on : x.usable}}
      taken == reserve_boot_regions
               \cup UNION {TouchedPages(e) : e \in {x \in on : ~x.usable}}
      hint == align_down_page(LowReserve)
  IN  [allocated |-> Frame \ (usable \ taken), reserved |-> Frame \ (usable \ taken),
       free_frames |-> Cardinality(usable \ taken),
       next_hint |-> IF hint >= frame_count THEN 0 ELSE hint,
       tables |-> [f \in Frame |-> ZeroTable], data |-> [f \in Frame |-> NoBytes]]

\* The first aligned run of count free frames within begin .. end - 1, or -1.
find_run(m, begin, end, count, alignment) ==
  LET fits == {f \in begin .. end - count :
                 f % alignment = 0 /\ (f .. f + count - 1) \cap m.allocated = {}}
  IN  IF fits = {} THEN -1 ELSE Min(fits)

\* A missing wrap of the hint.
NextHint_Unwrapped(next) == next

NextHint(next) == IF next >= frame_count THEN 0 ELSE next

\* phys = -1 reports NS_PMM_ENOSPC.
TakeRun(m, run, count) ==
  IF run = -1 THEN [m |-> m, phys |-> -1]
  ELSE [m |-> [m EXCEPT !.allocated = @ \cup (run .. run + count - 1),
                        !.free_frames = @ - count,
                        !.next_hint = NextHint(run + count)],
        phys |-> run]

\* The search from the hint and the one below it each miss a run across it.
SearchRun(m, hint, limit, count, alignment) ==
  LET Below(above) ==
        IF above = -1 /\ hint # 0 THEN find_run(m, 0, hint, count, alignment) ELSE above
  IN  Below(find_run(m, hint, limit, count, alignment))

\* limit is max_phys_exclusive in frames.
ns_pmm_alloc_pages(m, count, alignment, limit) ==
  LET top == MinOf(limit, frame_count)
      hint == IF m.next_hint < top THEN m.next_hint ELSE 0
  IN  TakeRun(m, IF count > m.free_frames THEN -1 ELSE SearchRun(m, hint, top, count, alignment),
              count)

ns_pmm_alloc_page(m) == ns_pmm_alloc_pages(m, 1, 1, frame_count)

\* All the frames or none: a reserved or a free one refuses the call.
ns_pmm_free_pages(m, phys, count) ==
  LET run == phys .. phys + count - 1 IN
  IF phys \notin Frame \/ run \cap m.reserved # {} \/ ~(run \subseteq m.allocated) THEN m
  ELSE [m EXCEPT !.allocated = @ \ run, !.free_frames = @ + count,
                 !.next_hint = MinOf(@, phys)]

ns_pmm_free_page(m, phys) == ns_pmm_free_pages(m, phys, 1)

\* ns_pmm_free_page of each frame in turn; the ones it refuses stay.
FreeFrames(m, frames) ==
  LET freed == (frames \cap m.allocated) \ m.reserved IN
  [m EXCEPT !.allocated = @ \ freed, !.free_frames = @ + Cardinality(freed),
            !.next_hint = Min({@} \cup freed)]

ns_pmm_check_invariants(m) ==
  /\ m.reserved \subseteq m.allocated
  /\ m.free_frames = Cardinality(Frame \ m.allocated)

-----------------------------------------------------------------------------
(* vmm.c.  A space is [root, owns]; flags are [user, write, exec, owned]. *)

KernelSpace == [root |-> KernelRoot, owns |-> FALSE]

\* The first page of the upper half of the address space.
KernelHalf == (Fan \div 2) * Fan ^ (Levels - 1)

LastPage == Fan ^ Levels - 1

table_index(virt, level) == (virt \div Fan ^ (level - 1)) % Fan

entry_from_flags(phys, flags) ==
  [phys |-> phys, user |-> flags.user, write |-> flags.write, exec |-> flags.exec,
   owned |-> flags.owned]

FillTable(a, entries) ==
  IF a.phys = -1 THEN a
  ELSE [a EXCEPT !.m.tables[a.phys] = entries, !.m.data[a.phys] = NoBytes]

\* phys = -1 reports NS_VMM_ENOMEM.
allocate_table(m) == FillTable(ns_pmm_alloc_page(m), ZeroTable)

\* The new root aliases the kernel's tables in its upper half.
ns_vmm_create_space(m) ==
  FillTable(allocate_table(m),
            [i \in Index |-> IF i < Fan \div 2 THEN Absent ELSE m.tables[KernelRoot][i]])

\* Below root, through the entries in roots: the tables of each level.
Subtree(m, root, roots) ==
  LET at[l \in 1 .. Levels - 1] ==
        {e.phys : e \in (IF l = Levels - 1 THEN {m.tables[root][i] : i \in roots}
                         ELSE {m.tables[t][i] : t \in at[l + 1], i \in Index}) \ {Absent}}
  IN  at

destroy_table_level(m, root) ==
  LET at == Subtree(m, root, 0 .. Fan \div 2 - 1)
      leaves == {m.tables[t][i] : t \in at[1], i \in Index}
  IN  UNION {at[l] : l \in 1 .. Levels - 1} \cup {e.phys : e \in {x \in leaves : x.owned}}

\* Only the lower half is private; the upper half aliases kernel tables.
ns_vmm_destroy_space(m, root) ==
  FreeFrames(m, destroy_table_level(m, root) \cup {root})

\* The tables from the root down to the leaf table, -1 below an absent entry.
walk_leaf(m, root, virt) ==
  LET at[l \in 1 .. Levels] ==
        IF l = Levels THEN root
        ELSE IF at[l + 1] = -1 THEN -1
        ELSE m.tables[at[l + 1]][table_index(virt, l + 1)].phys
  IN  at

Leaf(m, root, virt) ==
  LET table == walk_leaf(m, root, virt)[1] IN
  IF table = -1 THEN Absent ELSE m.tables[table][table_index(virt, 1)]

\* Gives the frames back and leaves the entries that name them.
DropCreated_Dangling(m, created) == FreeFrames(m, {c[3] : c \in Range(created)})

\* Takes back the tables created for a mapping that cannot be completed: each
\* is <<table, index, frame>>.
DropCreated(m, created) ==
  LET places == {<<c[1], c[2]>> : c \in Range(created)} IN
  FreeFrames([m EXCEPT !.tables = [f \in Frame |-> [i \in Index |->
                IF <<f, i>> \in places THEN Absent ELSE @[f][i]]]],
             {c[3] : c \in Range(created)})

\* The walk a stands at an absent entry i; new is the table for it.
CreateTable(a, i, user, new) ==
  IF new.phys = -1
  THEN [a EXCEPT !.r = "ENOMEM", !.m = DropCreated(a.m, a.created)]
  ELSE [m |-> [new.m EXCEPT !.tables[a.table][i] =
                 [phys |-> new.phys, user |-> user, write |-> TRUE, exec |-> TRUE,
                  owned |-> FALSE]],
        table |-> new.phys, created |-> Append(a.created, <<a.table, i, new.phys>>), r |-> "OK"]

walk_create_leaf(m, root, virt, user) ==
  LET Down(a, i) ==
        IF a.r # "OK" THEN a
        ELSE IF a.m.tables[a.table][i] = Absent
        THEN CreateTable(a, i, user, allocate_table(a.m))
        ELSE [a EXCEPT !.m.tables[a.table][i].user = @ \/ user,
                       !.table = a.m.tables[a.table][i].phys]
  IN  FoldLeft(Down, [m |-> m, table |-> root, created |-> <<>>, r |-> "OK"],
               [k \in 1 .. Levels - 1 |-> table_index(virt, Levels + 1 - k)])

SetLeaf(w, i, entry) ==
  IF w.r # "OK" THEN [m |-> w.m, r |-> w.r]
  ELSE IF w.m.tables[w.table][i] # Absent THEN [m |-> w.m, r |-> "EEXIST"]
  ELSE [m |-> [w.m EXCEPT !.tables[w.table][i] = entry], r |-> "OK"]

ns_vmm_map(m, space, virt, phys, flags) ==
  IF phys \notin Frame THEN [m |-> m, r |-> "EINVAL"]
  ELSE IF \/ space.owns /\ virt >= KernelHalf
          \/ flags.user /\ (virt >= KernelHalf \/ phys \in m.reserved)
  THEN [m |-> m, r |-> "EPERM"]
  ELSE SetLeaf(walk_create_leaf(m, space.root, virt, flags.user), table_index(virt, 1),
               entry_from_flags(phys, flags))

\* Frees the tables at[1], at[2], ... that are empty, never the root itself.
ReclaimTables(m, at, virt) ==
  LET Reclaim(a, level) ==
        IF a.stop \/ a.m.tables[at[level]] # ZeroTable THEN [a EXCEPT !.stop = TRUE]
        ELSE [a EXCEPT !.m = ns_pmm_free_page(
                [@ EXCEPT !.tables[at[level + 1]][table_index(virt, level + 1)] = Absent],
                at[level])]
  IN  FoldLeft(Reclaim, [m |-> m, stop |-> FALSE], [l \in 1 .. Levels - 1 |-> l]).m

ReleaseFrame(m, leaf, release_owned) ==
  IF release_owned /\ leaf.owned THEN ns_pmm_free_page(m, leaf.phys) ELSE m

unmap_unlocked(m, space, virt, release_owned) ==
  LET i == table_index(virt, 1)
      Clear(at) ==
        ReclaimTables(ReleaseFrame([m EXCEPT !.tables[at[1]][i] = Absent], m.tables[at[1]][i],
                                   release_owned), at, virt)
  IN  IF space.owns /\ virt >= KernelHalf THEN [m |-> m, r |-> "EPERM"]
      ELSE IF Leaf(m, space.root, virt) = Absent THEN [m |-> m, r |-> "ENOENT"]
      ELSE [m |-> Clear(walk_leaf(m, space.root, virt)), r |-> "OK"]

\* Goes on over pages that are not mapped and reports the first other error.
ns_vmm_unmap_range(m, space, virt, count, release_owned) ==
  LET Next1(a, u) == [m |-> u.m, r |-> IF a.r = "OK" /\ u.r # "ENOENT" THEN u.r ELSE a.r]
  IN  FoldLeft(LAMBDA a, page : Next1(a, unmap_unlocked(a.m, space, page, release_owned)),
               [m |-> m, r |-> "OK"], [k \in 1 .. count |-> virt + k - 1])

\* A page failed: everything mapped before it goes back.
RollBack(m, space, virt, count, r) ==
  [m |-> ns_vmm_unmap_range(m, space, virt, count, TRUE).m, r |-> r]

\* Maps the frame in got, zeroed, at page.  A frame that was not to be had, or
\* could not be mapped, is left to the caller's roll back.
MapPage(space, page, got, flags) ==
  LET Zeroed(map) ==
        IF map.r # "OK" THEN [m |-> ns_pmm_free_page(map.m, got.phys), r |-> map.r]
        ELSE [map EXCEPT !.m.data[got.phys] = NoBytes]
  IN  IF got.phys = -1 THEN [m |-> got.m, r |-> "ENOMEM"]
      ELSE Zeroed(ns_vmm_map(got.m, space, page, got.phys, [flags EXCEPT !.owned = TRUE]))

ns_vmm_alloc_map(m, space, virt, count, flags) ==
  LET Count(a, x) == [m |-> x.m, r |-> x.r, mapped |-> a.mapped + IF x.r = "OK" THEN 1 ELSE 0]
      One(a, page) ==
        IF a.r # "OK" THEN a
        ELSE Count(a, MapPage(space, page, ns_pmm_alloc_page(a.m), flags))
      Settle(a) ==
        IF a.r = "OK" THEN [m |-> a.m, r |-> a.r]
        ELSE RollBack(a.m, space, virt, a.mapped, a.r)
  IN  IF count = 0 \/ virt + count - 1 > LastPage THEN [m |-> m, r |-> "EINVAL"]
      ELSE Settle(FoldLeft(One, [m |-> m, r |-> "OK", mapped |-> 0],
                           [k \in 1 .. count |-> virt + k - 1]))

\* The effective rights of a page: every level of the walk must grant them.
translate_unlocked(m, root, virt) ==
  LET Path(at) == {m.tables[at[l]][table_index(virt, l)] : l \in {k \in 1 .. Levels : at[k] # -1}}
      Effective(path, leaf) ==
        IF Absent \in path THEN Absent
        ELSE [leaf EXCEPT !.user = \A e \in path : e.user, !.write = \A e \in path : e.write,
                          !.exec = \A e \in path : e.exec]
  IN  Effective(Path(walk_leaf(m, root, virt)), Leaf(m, root, virt))

\* Stops at the first page it may not change; the earlier ones stay changed.
ns_vmm_protect(m, space, virt, count, flags) ==
  LET Change(a, page, table, old) ==
        IF old = Absent THEN [a EXCEPT !.r = "ENOENT"]
        ELSE IF flags.user /\ (~old.user \/ old.phys \in a.m.reserved)
        THEN [a EXCEPT !.r = "EPERM"]
        ELSE [a EXCEPT !.m.tables[table][table_index(page, 1)] =
                entry_from_flags(old.phys, [flags EXCEPT !.owned = old.owned])]
      One(a, page) ==
        IF a.r # "OK" THEN a
        ELSE Change(a, page, walk_leaf(a.m, space.root, page)[1], Leaf(a.m, space.root, page))
  IN  IF space.owns /\ virt >= KernelHalf THEN [m |-> m, r |-> "EPERM"]
      ELSE FoldLeft(One, [m |-> m, r |-> "OK"], [k \in 1 .. count |-> virt + k - 1])

\* Copies page by page through the direct map until a page refuses.
ns_vmm_copy_to_space(m, root, virt, count, bytes) ==
  LET Put(a, e) ==
        IF e = Absent THEN [a EXCEPT !.r = "ENOENT"]
        ELSE IF ~e.user \/ ~e.write THEN [a EXCEPT !.r = "EPERM"]
        ELSE [a EXCEPT !.m.data[e.phys] = bytes]
  IN  FoldLeft(LAMBDA a, page :
                 IF a.r # "OK" THEN a ELSE Put(a, translate_unlocked(a.m, root, page)),
               [m |-> m, r |-> "OK"], [k \in 1 .. count |-> virt + k - 1])

ns_vmm_user_range_valid(m, root, virt, count, require_write) ==
  LET Grants(e) == e # Absent /\ e.user /\ (require_write => e.write)
  IN  /\ count > 0 /\ virt + count <= KernelHalf
      /\ \A page \in virt .. virt + count - 1 : Grants(translate_unlocked(m, root, page))
=============================================================================
