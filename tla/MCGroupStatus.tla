--------------------------- MODULE MCGroupStatus ----------------------------
(* Instances of GroupStatus for TLC.                                       *)
EXTENDS GroupStatus
=============================================================================
