---------------------------- MODULE MCFullIndex ----------------------------
(***************************************************************************)
(* Instances of FullIndex for TLC: up to two runs, each of its own commit; *)
(* files of three, two and no chunks.                                      *)
(***************************************************************************)
EXTENDS FullIndex

CONSTANTS w1, w2, w3

MCShaOf == [a \in Runs |-> a]
MCChunkCount == [f \in Files |-> IF f = 1 THEN 3 ELSE IF f = 2 THEN 2 ELSE 0]

=============================================================================
