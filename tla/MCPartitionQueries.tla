------------------------- MODULE MCPartitionQueries -------------------------
(* Instances of PartitionQueries for TLC.                                  *)
EXTENDS PartitionQueries

CONSTANTS n1, n2, c1, q1, q2    \* model values
=============================================================================
