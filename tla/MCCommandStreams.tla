-------------------------- MODULE MCCommandStreams --------------------------
(* Instances of CommandStreams for TLC.                                    *)
EXTENDS CommandStreams, TLC

CONSTANTS n1, n2, c1, c2    \* model values

\* Neither nodes nor commands are told apart anywhere in the model.
Symmetry == Permutations(Nodes) \cup Permutations(Commands)
=============================================================================
