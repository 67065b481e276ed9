------------------------------ MODULE MCKernel ------------------------------
EXTENDS Kernel

CONSTANTS p1, p2, p3, o1

MCThread == {p1, p2, p3}
MCPipe == {o1}

\* The wait kinds the system calls use, with their keys.
MCKey == {<<"PIPE_READ", o1>>, <<"PIPE_WRITE", o1>>}
         \cup {<<"CHILD", t>> : t \in MCThread}

\* The processes that are spawned are interchangeable.
Symmetry == Permutations({p2, p3})

\* Two processes, for the liveness properties.
MCPair == {p1, p2}
MCPairKey == MCKey \ {<<"CHILD", p3>>}
====
