------------------------------ MODULE MCMemory ------------------------------
EXTENDS Memory

CONSTANTS p1, p2, c1, c2, zero

MCProc == {p1, p2}
MCClient == {c1, c2}

Range_(usable, base, length) ==
  [usable |-> usable, enabled |-> TRUE, base |-> base, length |-> length]

\* Usable memory with partial pages at its ends, a reserved range that overlaps
\* it, an entry that is switched off, and one whose end overflows.
MCE820 == << Range_(TRUE, 0, 25), Range_(FALSE, 13, 2), Range_(TRUE, 25, 37),
             [Range_(FALSE, 4, 20) EXCEPT !.enabled = FALSE], Range_(FALSE, 100, 60) >>
MCBoot == {[base |-> 2, length |-> 2]}

Segment(vaddr, memsz, filesz, write, exec) ==
  [vaddr |-> vaddr, memsz |-> memsz, filesz |-> filesz, write |-> write, exec |-> exec]

Text == Segment(14, 1, 1, FALSE, TRUE)

Program(segments, args) ==
  [header |-> TRUE, dynamic |-> FALSE, entry |-> 14, args |-> args, segments |-> segments]

\* Code alone, so that the break crosses into a new table of the second level;
\* code and data with a page of zeros, moved by the bias; two segments in a
\* page, which the plan refuses; too many arguments.
MCPrograms == {Program(<<Text>>, 0),
               [Program(<<Text, Segment(17, 2, 1, TRUE, FALSE)>>, 0) EXCEPT !.dynamic = TRUE],
               Program(<<Text, Segment(15, 1, 1, TRUE, FALSE)>>, 0),
               Program(<<Text>>, 9)}
MCIncrements == {-3, 1, 4}
Symmetry == Permutations(MCProc) \cup Permutations(MCClient)
=============================================================================
