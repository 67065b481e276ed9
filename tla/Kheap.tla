-------------------------------- MODULE Kheap --------------------------------
(* The kernel heap (heap.c) as operators on h = [committed, blocks] and the    *)
(* memory record m of PageTables, from which it takes its pages.  The doubly   *)
(* linked block list is a sequence; a block is [base, span, free, requested,   *)
(* pointer].  Addresses are offsets into the arena, in units smaller than      *)
(* NS_KHEAP_MIN_ALIGNMENT, so that rounding matters.                           *)
EXTENDS PageTables

CONSTANTS
  PageSize,       \* units of a page
  MinAlign,       \* NS_KHEAP_MIN_ALIGNMENT
  Header,         \* BLOCK_HEADER_SIZE
  Tag,            \* sizeof(struct allocation_tag)
  HeapBase,       \* the first page of the arena
  ArenaPages,     \* NS_MM_HEAP_SIZE
  InitialPages,   \* RUNTIME_HEAP_INITIAL_PAGES
  GrowthPages     \* RUNTIME_HEAP_GROWTH_PAGES

ASSUME KheapAssumption ==
  /\ {PageSize, MinAlign, Header, Tag, ArenaPages, InitialPages, GrowthPages} \subseteq Nat \ {0}
  /\ Header % MinAlign = 0 /\ PageSize % MinAlign = 0
  /\ InitialPages <= ArenaPages
  /\ HeapBase >= KernelHalf /\ HeapBase + ArenaPages - 1 <= LastPage

MIN_BLOCK_SPAN == Header + Tag + MinAlign

align_up_size(value, alignment) == ((value + alignment - 1) \div alignment) * alignment

initialize_free_block(base, span) ==
  [base |-> base, span |-> span, free |-> TRUE, requested |-> 0, pointer |-> 0]

\* consumed = -1 when the block is too small.
allocation_layout(block, size, alignment) ==
  LET pointer == align_up_size(block.base + Header + Tag, alignment)
      consumed == align_up_size(pointer + size - block.base, MinAlign)
  IN  [pointer |-> pointer, consumed |-> IF consumed > block.span THEN -1 ELSE consumed]

\* Takes the free block after block i into it.
merge_next(blocks, i) ==
  IF i = Len(blocks) THEN blocks
  ELSE IF ~blocks[i + 1].free THEN blocks
  ELSE RemoveAt([blocks EXCEPT ![i].span = @ + blocks[i + 1].span], i + 1)

\* A shrinking realloc may split just before a free block: the tail absorbs it.
split_trailing(blocks, i, consumed) ==
  LET left == blocks[i].span - consumed IN
  IF left < MIN_BLOCK_SPAN THEN blocks
  ELSE merge_next(InsertAt([blocks EXCEPT ![i].span = consumed], i + 1,
                           initialize_free_block(blocks[i].base + consumed, left)), i + 1)

ns_kheap_vmm_map_pages(m, page, count) ==
  ns_vmm_alloc_map(m, KernelSpace, page, count,
                   [user |-> FALSE, write |-> TRUE, exec |-> FALSE, owned |-> FALSE])

\* The pages are mapped: they extend a free last block or make a new one.
CommitGrowth(map, h, growth) ==
  LET last == Len(h.blocks)
      extends == IF last = 0 THEN FALSE ELSE h.blocks[last].free
  IN  IF map.r # "OK" THEN [m |-> map.m, h |-> h, r |-> "ENOMEM"]
      ELSE [m |-> map.m, r |-> "OK",
            h |-> [committed |-> h.committed + growth,
                   blocks |-> IF extends THEN [h.blocks EXCEPT ![last].span = @ + growth]
                              ELSE Append(h.blocks, initialize_free_block(h.committed, growth))]]

grow_heap(m, h, minimum) ==
  LET asked == Max({align_up_size(minimum, PageSize) \div PageSize, GrowthPages})
      pages == MinOf(asked, ArenaPages - h.committed \div PageSize)
  IN  IF pages * PageSize < minimum \/ pages = 0 THEN [m |-> m, h |-> h, r |-> "ENOMEM"]
      ELSE CommitGrowth(
             ns_kheap_vmm_map_pages(m, HeapBase + h.committed \div PageSize, pages),
             h, pages * PageSize)

ns_kheap_init(m) == grow_heap(m, [committed |-> 0, blocks |-> <<>>], InitialPages * PageSize)

Fits(h, size, alignment) ==
  {i \in DOMAIN h.blocks :
     h.blocks[i].free /\ allocation_layout(h.blocks[i], size, alignment).consumed # -1}

\* First fit.  pointer = 0 reports failure: no allocation lies at offset 0.
PlaceFirst(a, fits, size, alignment) ==
  LET i == Min(fits)
      Place(layout) ==
        [m |-> a.m, pointer |-> layout.pointer,
         h |-> [a.h EXCEPT !.blocks =
                  [split_trailing(@, i, layout.consumed) EXCEPT
                     ![i].free = FALSE, ![i].requested = size, ![i].pointer = layout.pointer]]]
  IN  IF fits = {} THEN [m |-> a.m, h |-> a.h, pointer |-> 0]
      ELSE Place(allocation_layout(a.h.blocks[i], size, alignment))

\* Grows the heap until a block fits, or until it cannot grow.
ns_kheap_alloc_aligned(m, h, size, align) ==
  LET alignment == Max({align, MinAlign})
      Grow(a, n) ==
        IF a.r # "OK" \/ Fits(a.h, size, alignment) # {} THEN a
        ELSE grow_heap(a.m, a.h, Header + Tag + size + alignment)
      Place(a) == PlaceFirst(a, Fits(a.h, size, alignment), size, alignment)
  IN  IF size = 0 THEN [m |-> m, h |-> h, pointer |-> 0]
      ELSE Place(FoldLeft(Grow, [m |-> m, h |-> h, r |-> "OK"], [n \in 1 .. ArenaPages |-> n]))

ns_kheap_alloc(m, h, size) == ns_kheap_alloc_aligned(m, h, size, MinAlign)

\* The block of a live allocation, 0 for a pointer that is none.
validate_pointer(h, pointer) ==
  LET is == {i \in DOMAIN h.blocks : ~h.blocks[i].free /\ h.blocks[i].pointer = pointer}
  IN  IF is = {} THEN 0 ELSE Min(is)

FreeBlock(h, i) ==
  LET freed == [h.blocks EXCEPT ![i] = initialize_free_block(@.base, @.span)]
      merged == merge_next(freed, i)
      backward == IF i = 1 THEN FALSE ELSE merged[i - 1].free
  IN  [h EXCEPT !.blocks = IF backward THEN merge_next(merged, i - 1) ELSE merged]

ns_kheap_free(h, pointer) ==
  LET i == validate_pointer(h, pointer) IN IF i = 0 THEN h ELSE FreeBlock(h, i)

Available(block) == block.span - (block.pointer - block.base)

\* Moves to a new allocation; without one the old stays.
Replace(new, pointer) ==
  IF new.pointer = 0 THEN new ELSE [new EXCEPT !.h = ns_kheap_free(@, pointer)]

\* Grows in place over a free neighbour, which stays merged even when the
\* replacement it then looks for cannot be had.
ReallocBlock(m, h, i, size) ==
  LET block == h.blocks[i]
      consumed == align_up_size(block.pointer + size - block.base, MinAlign)
  IN  IF Available(block) >= size
      THEN [m |-> m, pointer |-> block.pointer,
            h |-> [h EXCEPT !.blocks =
                     [split_trailing(@, i, consumed) EXCEPT ![i].requested = size]]]
      ELSE Replace(ns_kheap_alloc(m, h, size), block.pointer)

\* The client holds the pointer and asks for more than nothing.
ns_kheap_realloc(m, h, pointer, size) ==
  LET i == validate_pointer(h, pointer)
      wide == IF Available(h.blocks[i]) < size THEN merge_next(h.blocks, i) ELSE h.blocks
  IN  IF i = 0 THEN [m |-> m, h |-> h, pointer |-> 0]
      ELSE ReallocBlock(m, [h EXCEPT !.blocks = wide], i, size)

\* The blocks tile the committed pages, no two free ones touch, and what was
\* asked for lies inside its block behind the header.
check_invariants_unlocked(h) ==
  /\ Len(h.blocks) > 0
  /\ \A i \in DOMAIN h.blocks :
       LET b == h.blocks[i] IN
       /\ b.base = (IF i = 1 THEN 0 ELSE h.blocks[i - 1].base + h.blocks[i - 1].span)
       /\ b.span >= Header /\ b.span % MinAlign = 0
       /\ i > 1 => ~(b.free /\ h.blocks[i - 1].free)
       /\ ~b.free => /\ b.pointer > b.base + Header /\ b.requested > 0
                     /\ b.requested <= b.base + b.span - b.pointer
  /\ h.blocks[Len(h.blocks)].base + h.blocks[Len(h.blocks)].span = h.committed
=============================================================================
