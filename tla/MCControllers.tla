--------------------------- MODULE MCControllers ----------------------------
(* Instances of Controllers for TLC.                                       *)
EXTENDS Controllers
=============================================================================
