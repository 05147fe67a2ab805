---------------------------- MODULE MCNodeEvents ----------------------------
(* Instances of NodeEvents for TLC.                                        *)
EXTENDS NodeEvents

CONSTANTS p1, start, s1, w1, g1, g2    \* model values
=============================================================================
