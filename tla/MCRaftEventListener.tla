------------------------ MODULE MCRaftEventListener ------------------------
(* Instances of RaftEventListener for TLC.                                 *)
EXTENDS RaftEventListener

CONSTANTS p1, p2, start, s1    \* model values
=============================================================================
