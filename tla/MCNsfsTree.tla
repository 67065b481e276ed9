----------------------------- MODULE MCNsfsTree -----------------------------
(* A volume of four inodes and four blocks, two names of different length.  *)
EXTENDS NsfsTree
MCNameUnits == [n \in Names |-> IF n = "a" THEN 1 ELSE 2]
=============================================================================
