------------------------------- MODULE Memory -------------------------------
(* Processes, kernel clients and device buffers over the physical memory      *)
(* manager, the page tables and the kernel heap: images are built, replaced   *)
(* and destroyed (image.c, elf_loader.c, process.c), breaks move              *)
(* (runtime.c), the heap serves its clients and grows through the kernel's    *)
(* page tables (heap.c, mm/runtime.c), and drivers take runs of frames (m5.c).*)
(* A call runs to its end before the next: system calls enter through an      *)
(* interrupt gate on the only processor.                                      *)
EXTENDS Kheap

CONSTANTS
  Proc, Client,   \* processes, and kernel code that holds heap memory
  Programs,       \* files that are run, see ns_elf64_plan
  UserMin, DynamicBias, MaxImage, MaxArgs, MaxHeap,  \* of image.c, in parts of a page
  StackTop, StackPages,
  SpaceSize, FilesSize,    \* heap units of a space and of a descriptor table
  KmallocSizes, Alignments, Increments,
  DmaPages, DmaLimit,      \* sizes of device buffers, and M5_DMA_LIMIT in frames
  MaxSteps        \* calls in a behaviour

ASSUME MemoryAssumption ==
  /\ StackTop <= KernelHalf /\ StackPages < StackTop
  /\ MaxSteps \in Nat

VARIABLES
  mem,      \* the record m of PageTables
  heap,     \* the record h of Kheap
  proc,     \* p -> [root, object, base, brk, limit], or Dead
  held,     \* c -> the pointer and the size the client believes it holds, or Nothing
  dma,      \* the device buffers: records [phys, pages]
  steps

vars == <<mem, heap, proc, held, dma, steps>>

Dead == [root |-> -1, object |-> 0, base |-> 0, brk |-> 0, limit |-> 0]

Nothing == [pointer |-> 0, size |-> 0]

Space(root) == [root |-> root, owns |-> TRUE]

-----------------------------------------------------------------------------
(* elf_loader.c *)

StackBase == StackTop - StackPages

UserMax == (StackBase - 1) * Sub

\* The part of the file's segments that occupy memory, moved by the bias.
Segments(program) ==
  LET bias == IF program.dynamic THEN DynamicBias ELSE 0
      loads == SelectSeq(program.segments, LAMBDA s : s.memsz # 0)
  IN  [i \in DOMAIN loads |-> [loads[i] EXCEPT !.vaddr = @ + bias]]

FirstPage(s) == s.vaddr \div Sub

EndPage(s) == align_up_page(s.vaddr + s.memsz)

PageSpan(s) == EndPage(s) - FirstPage(s)

\* A program is [header, dynamic, entry, args, segments]; header stands for the
\* checks of the ELF header and of the file's bounds.
ns_elf64_plan(program) ==
  LET segments == Segments(program)
      entry == program.entry + (IF program.dynamic THEN DynamicBias ELSE 0)
      mapped == FoldLeft(LAMBDA a, s : a + PageSpan(s) * Sub, 0, segments)
  IN  /\ program.header
      /\ Len(segments) > 0
      /\ \A i \in DOMAIN segments :
           LET s == segments[i] IN
           /\ s.filesz <= s.memsz
           /\ ~(s.write /\ s.exec)
           /\ s.vaddr >= UserMin /\ s.vaddr + s.memsz <= UserMax
           /\ \A j \in 1 .. i - 1 :
                \* Shared pages imply conflicting protection.
                FirstPage(s) >= EndPage(segments[j]) \/ FirstPage(segments[j]) >= EndPage(s)
      /\ mapped <= MaxImage
      /\ \E i \in DOMAIN segments :
           LET s == segments[i] IN s.exec /\ entry >= s.vaddr /\ entry < s.vaddr + s.memsz

MapFlags(write, exec) == [user |-> TRUE, write |-> write, exec |-> exec, owned |-> FALSE]

UnmapSegments(m, root, segments) ==
  FoldRight(LAMBDA s, a : ns_vmm_unmap_range(a, Space(root), FirstPage(s), PageSpan(s), TRUE).m,
            segments, m)

\* Segment i has been mapped, or not; reading segment io from the file fails.
\* mapped counts the segments to take back when the load fails.
FillSegment(map, root, s, i, io, bytes) ==
  LET Copied(copy) ==
        [m |-> copy.m, r |-> IF copy.r = "OK" THEN "OK" ELSE "E_COPY", mapped |-> i]
  IN  IF map.r # "OK" THEN [m |-> map.m, r |-> "E_MAP", mapped |-> i - 1]
      ELSE IF i = io THEN [m |-> map.m, r |-> "E_IO", mapped |-> i]
      ELSE Copied(ns_vmm_copy_to_space(map.m, root, FirstPage(s),
                    align_up_page(s.vaddr + s.filesz) - FirstPage(s), bytes))

LoadSegments(m, root, segments, io, bytes) ==
  LET Map(a, s) ==
        ns_vmm_alloc_map(a.m, Space(root), FirstPage(s), PageSpan(s), MapFlags(TRUE, FALSE))
  IN  FoldLeft(LAMBDA a, i :
                 IF a.r # "OK" THEN a
                 ELSE FillSegment(Map(a, segments[i]), root, segments[i], i, io, bytes),
               [m |-> m, r |-> "OK", mapped |-> 0], [i \in DOMAIN segments |-> i])

\* Nothing is protected once something has failed.
ProtectSegments(a, root, segments) ==
  LET Protected(x, y) == [x EXCEPT !.m = y.m, !.r = IF y.r = "OK" THEN "OK" ELSE "E_PROTECT"]
      One(x, s) ==
        IF x.r # "OK" THEN x
        ELSE Protected(x, ns_vmm_protect(x.m, Space(root), FirstPage(s), PageSpan(s),
                                         MapFlags(s.write, s.exec)))
  IN  FoldLeft(One, a, segments)

ns_elf64_load(m, root, program, io, bytes) ==
  LET segments == Segments(program)
      Settle(a) ==
        IF a.r = "OK" THEN [m |-> a.m, r |-> a.r]
        ELSE [m |-> UnmapSegments(a.m, root, SubSeq(segments, 1, a.mapped)), r |-> a.r]
  IN  IF ~ns_elf64_plan(program) THEN [m |-> m, r |-> "E_PLAN"]
      ELSE Settle(ProtectSegments(LoadSegments(m, root, segments, io, bytes), root, segments))

-----------------------------------------------------------------------------
(* image.c *)

\* The arguments and the vector lie in the uppermost page of the stack.
build_initial_stack(m, root, args, bytes) ==
  LET Settle(copy) ==
        IF copy.r = "OK" THEN copy
        ELSE [m |-> ns_vmm_unmap_range(copy.m, Space(root), StackBase, StackPages, TRUE).m, r |-> "EFAULT"]
      Fill(map) ==
        IF map.r # "OK" THEN map
        ELSE Settle(ns_vmm_copy_to_space(map.m, root, StackTop - 1, 1, bytes))
  IN  IF args > MaxArgs THEN [m |-> m, r |-> "E2BIG"]
      ELSE Fill(ns_vmm_alloc_map(m, Space(root), StackBase, StackPages, MapFlags(TRUE, FALSE)))

BreakLimit(brk) ==
  IF MaxHeap > UserMax - brk THEN UserMax ELSE brk + MaxHeap

ImageEnd(program) == Max({EndPage(s) : s \in Range(Segments(program))}) * Sub

\* Loads into the fresh space at root; a failure destroys it again.
LoadImage(m, root, program, io, bytes) ==
  LET Stack(elf) ==
        IF elf.r # "OK" THEN elf ELSE build_initial_stack(elf.m, root, program.args, bytes)
      Settle(a) ==
        IF a.r = "OK" THEN a ELSE [a EXCEPT !.m = ns_vmm_destroy_space(@, root)]
  IN  Settle(Stack(ns_elf64_load(m, root, program, io, bytes)))

\* image = Dead reports failure.
ImageIn(object, space, program, io, bytes) ==
  LET brk == ImageEnd(program)
      Image(load) ==
        IF load.r # "OK"
        THEN [m |-> load.m, h |-> ns_kheap_free(object.h, object.pointer), image |-> Dead]
        ELSE [m |-> load.m, h |-> object.h,
              image |-> [root |-> space.phys, object |-> object.pointer, base |-> brk,
                         brk |-> brk, limit |-> BreakLimit(brk)]]
  IN  IF space.phys = -1
      THEN [m |-> space.m, h |-> ns_kheap_free(object.h, object.pointer), image |-> Dead]
      ELSE Image(LoadImage(space.m, space.phys, program, io, bytes))

\* The descriptor table that reads the file goes back in every case, the space
\* object in every failure.
ns_proc_build_process_image(m, h, program, io, bytes) ==
  LET Build(object) ==
        IF object.pointer = 0 THEN [m |-> object.m, h |-> object.h, image |-> Dead]
        ELSE ImageIn(object, ns_vmm_create_space(object.m), program, io, bytes)
      Close(a, files) == [a EXCEPT !.h = ns_kheap_free(@, files)]
      Read(files) ==
        IF files.pointer = 0 THEN [m |-> files.m, h |-> files.h, image |-> Dead]
        ELSE Close(Build(ns_kheap_alloc(files.m, files.h, SpaceSize)), files.pointer)
  IN  Read(ns_kheap_alloc(m, h, FilesSize))

ns_proc_destroy_process_image_space(m, h, image) ==
  [m |-> ns_vmm_destroy_space(m, image.root), h |-> ns_kheap_free(h, image.object)]

-----------------------------------------------------------------------------
Step == steps < MaxSteps /\ steps' = steps + 1

Init ==
  LET h == ns_kheap_init(ns_pmm_init) IN
  /\ mem = h.m /\ heap = h.h
  /\ proc = [p \in Proc |-> Dead]
  /\ held = [c \in Client |-> Nothing]
  /\ dma = {}
  /\ steps = 0

\* The part of ns_proc_spawn that takes memory for the child's image; its
\* process, thread and kernel stack are among the clients of the heap.
process_build_image(p, program, io) ==
  /\ proc[p] = Dead /\ Step
  /\ \E b \in {ns_proc_build_process_image(mem, heap, program, io, p)} :
       mem' = b.m /\ heap' = b.h /\ proc' = [proc EXCEPT ![p] = b.image]
  /\ UNCHANGED <<held, dma>>

\* The old space outlives the building of the new one.
ns_proc_exec(p, program, io) ==
  /\ proc[p] # Dead /\ Step
  /\ \E b \in {ns_proc_build_process_image(mem, heap, program, io, p)} :
       IF b.image = Dead
       THEN mem' = b.m /\ heap' = b.h /\ UNCHANGED proc
       ELSE /\ LET d == ns_proc_destroy_process_image_space(b.m, b.h, proc[p])
               IN  mem' = d.m /\ heap' = d.h
            /\ proc' = [proc EXCEPT ![p] = b.image]
  /\ UNCHANGED <<held, dma>>

\* The parent reaps the child.
process_destroy_space(p) ==
  /\ proc[p] # Dead /\ Step
  /\ \E d \in {ns_proc_destroy_process_image_space(mem, heap, proc[p])} :
       mem' = d.m /\ heap' = d.h
  /\ proc' = [proc EXCEPT ![p] = Dead]
  /\ UNCHANGED <<held, dma>>

ns_proc_runtime_adjust_break(m, image, new_break) ==
  LET old == align_up_page(image.brk)
      new == align_up_page(new_break)
  IN  IF new_break < image.base \/ new_break > image.limit THEN [m |-> m, r |-> "EINVAL"]
      ELSE IF new > old
      THEN ns_vmm_alloc_map(m, Space(image.root), old, new - old, MapFlags(TRUE, FALSE))
      ELSE ns_vmm_unmap_range(m, Space(image.root), new, old - new, TRUE)

sys_sbrk(p, increment) ==
  /\ proc[p] # Dead
  /\ LET new == proc[p].brk + increment IN
     /\ new >= proc[p].base /\ new <= proc[p].limit
     /\ Step
     /\ \E a \in {ns_proc_runtime_adjust_break(mem, proc[p], new)} :
          /\ mem' = a.m
          /\ proc' = IF a.r = "OK" THEN [proc EXCEPT ![p].brk = new] ELSE proc
  /\ UNCHANGED <<heap, held, dma>>

\* The kernel answers into a buffer of the process: validated, then copied.
ns_copy_to_user(p, page) ==
  /\ proc[p] # Dead
  /\ ns_vmm_user_range_valid(mem, proc[p].root, page, 1, TRUE)
  /\ mem' = ns_vmm_copy_to_space(mem, proc[p].root, page, 1, p).m
  /\ mem' # mem /\ Step
  /\ UNCHANGED <<heap, proc, held, dma>>

kmalloc_aligned(c, size, alignment) ==
  /\ held[c] = Nothing /\ Step
  /\ \E a \in {ns_kheap_alloc_aligned(mem, heap, size, alignment)} :
       /\ mem' = a.m /\ heap' = a.h
       /\ held' = IF a.pointer = 0 THEN held
                  ELSE [held EXCEPT ![c] = [pointer |-> a.pointer, size |-> size]]
  /\ UNCHANGED <<proc, dma>>

\* On failure the old allocation is still the client's.
krealloc(c, size) ==
  /\ held[c] # Nothing /\ Step
  /\ \E a \in {ns_kheap_realloc(mem, heap, held[c].pointer, size)} :
       /\ mem' = a.m /\ heap' = a.h
       /\ held' = IF a.pointer = 0 THEN held
                  ELSE [held EXCEPT ![c] = [pointer |-> a.pointer, size |-> size]]
  /\ UNCHANGED <<proc, dma>>

kfree(c) ==
  /\ held[c] # Nothing /\ Step
  /\ heap' = ns_kheap_free(heap, held[c].pointer)
  /\ held' = [held EXCEPT ![c] = Nothing]
  /\ UNCHANGED <<mem, proc, dma>>

m5_dma_alloc(pages, alignment) ==
  /\ Step
  /\ \E a \in {ns_pmm_alloc_pages(mem, pages, alignment, DmaLimit)} :
       /\ a.phys # -1
       /\ mem' = [a.m EXCEPT !.data = [f \in Frame |->
                    IF f \in a.phys .. a.phys + pages - 1 THEN NoBytes ELSE @[f]]]
       /\ dma' = dma \cup {[phys |-> a.phys, pages |-> pages]}
  /\ UNCHANGED <<heap, proc, held>>

m5_dma_free(d) ==
  /\ Step
  /\ mem' = ns_pmm_free_pages(mem, d.phys, d.pages)
  /\ dma' = dma \ {d}
  /\ UNCHANGED <<heap, proc, held>>

Next ==
  \/ \E p \in Proc, program \in Programs : \E io \in 0 .. Len(program.segments) :
       process_build_image(p, program, io) \/ ns_proc_exec(p, program, io)
  \/ \E p \in Proc : process_destroy_space(p)
  \/ \E p \in Proc, increment \in Increments : sys_sbrk(p, increment)
  \/ \E p \in Proc, page \in 0 .. KernelHalf - 1 : ns_copy_to_user(p, page)
  \/ \E c \in Client, size \in KmallocSizes, alignment \in Alignments :
       kmalloc_aligned(c, size, alignment)
  \/ \E c \in Client, size \in KmallocSizes : krealloc(c, size)
  \/ \E c \in Client : kfree(c)
  \/ \E pages \in DmaPages, alignment \in {1, 2} : m5_dma_alloc(pages, alignment)
  \/ \E d \in dma : m5_dma_free(d)

Spec == Init /\ [][Next]_vars

-----------------------------------------------------------------------------
(* What the runs check *)

\* Frames, hints, blocks and breaks stay within what the allocators manage, as
\* the loops of pmm.c, vmm.c and heap.c that use them as bounds take for granted.
TypeOK ==
  /\ mem.allocated \subseteq Frame /\ mem.reserved \subseteq Frame
  /\ mem.free_frames \in 0 .. frame_count /\ mem.next_hint \in Frame
  /\ \A f \in Frame, i \in Index : mem.tables[f][i].phys \in Frame \cup {-1}
  /\ \A f \in Frame : mem.data[f] \in Proc \cup {NoBytes}
  /\ heap.committed \in 0 .. ArenaPages * PageSize
  /\ \A p \in Proc : proc[p] = Dead \/ proc[p].brk \in proc[p].base .. proc[p].limit
  /\ \A d \in dma : d.phys .. d.phys + d.pages - 1 \subseteq Frame
  /\ steps \in 0 .. MaxSteps

Live == {p \in Proc : proc[p] # Dead}

\* The entries through which a space owns frames: the lower half of a process,
\* the upper half of the kernel.
EntriesBelow(root, roots) ==
  LET at == Subtree(mem, root, roots) IN
  {<<root, i>> : i \in roots} \cup {<<t, i>> : t \in UNION {at[l] : l \in DOMAIN at}, i \in Index}

Entries ==
  {e \in EntriesBelow(KernelRoot, Fan \div 2 .. Fan - 1)
         \cup UNION {EntriesBelow(proc[p].root, 0 .. Fan \div 2 - 1) : p \in Live} :
     mem.tables[e[1]][e[2]] # Absent}

DmaFrames == UNION {d.phys .. d.phys + d.pages - 1 : d \in dma}

\* Every frame handed out has one owner - an entry of one table, the root of one
\* process, or one device buffer - and every frame that has an owner is handed
\* out: after failures and rollbacks nothing leaks and nothing is owned twice.
FramesOwned ==
  LET targets == {mem.tables[e[1]][e[2]].phys : e \in Entries}
      roots == {proc[p].root : p \in Live}
  IN  /\ ns_pmm_check_invariants(mem)
      /\ mem.allocated \ mem.reserved = targets \cup roots \cup DmaFrames
      /\ Cardinality(mem.allocated \ mem.reserved)
           = Cardinality(Entries) + Cardinality(Live)
             + MapThenSumSet(LAMBDA d : d.pages, dma)

\* Every space sees the kernel's half as the kernel does.
KernelHalfShared ==
  \A p \in Live : \A i \in Fan \div 2 .. Fan - 1 :
    mem.tables[proc[p].root][i] = mem.tables[KernelRoot][i]

\* What a process can reach: its own pages, never writable and executable at
\* once, with its own bytes or zeros; its stack, and all of its break.
SpacesSeparate ==
  LET Own(p, v, e) ==
        IF e = Absent
        THEN v \notin align_up_page(proc[p].base) .. align_up_page(proc[p].brk) - 1
        ELSE /\ e.user /\ e.owned /\ ~(e.write /\ e.exec)
             /\ mem.data[e.phys] \in {p, NoBytes}
             /\ v \notin align_up_page(proc[p].brk) .. StackBase - 1
  IN  /\ \A p \in Live, v \in 0 .. KernelHalf - 1 :
           Own(p, v, translate_unlocked(mem, proc[p].root, v))
      /\ \A v \in HeapBase .. HeapBase + ArenaPages - 1 :
           ~translate_unlocked(mem, KernelRoot, v).user

\* The heap's list is whole, its pages are mapped, and what its clients believe
\* they hold are exactly the blocks in use.
HeapIntact ==
  LET claims == {held[c] : c \in {x \in Client : held[x] # Nothing}}
                \cup {[pointer |-> proc[p].object, size |-> SpaceSize] : p \in Live}
      used == {b \in Range(heap.blocks) : ~b.free}
  IN  /\ check_invariants_unlocked(heap)
      /\ \A v \in HeapBase .. HeapBase + ArenaPages - 1 :
           (Leaf(mem, KernelRoot, v) # Absent) <=> v < HeapBase + heap.committed \div PageSize
      /\ claims = {[pointer |-> b.pointer, size |-> b.requested] : b \in used}
      /\ Cardinality(used)
           = Cardinality(Live) + Cardinality({c \in Client : held[c] # Nothing})

\* Frames, page tables, spaces and heap agree after every call, whichever step
\* of it ran out of frames, of arena or of file (pmm.c, vmm.c, heap.c, image.c).
MemoryIntact == FramesOwned /\ KernelHalfShared /\ SpacesSeparate /\ HeapIntact
=============================================================================
