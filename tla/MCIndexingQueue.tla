--------------------------- MODULE MCIndexingQueue ---------------------------
(***************************************************************************)
(* Instances of IndexingQueue for TLC: two jobs of one repository and one  *)
(* of another.                                                             *)
(***************************************************************************)
EXTENDS IndexingQueue, TLC

CONSTANTS p1, p2, w1, w2, j1, j2, j3, r1, r2

MCRepoOf == [j \in Jobs |-> IF j = j3 THEN r2 ELSE r1]

Symmetry == Permutations(Workers) \cup Permutations(Procs) \cup Permutations(Jobs \ {j3})

=============================================================================
