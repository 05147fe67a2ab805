--------------------------- MODULE MCMemberStatus ---------------------------
(* Instances of MemberStatus for TLC.                                      *)
EXTENDS MemberStatus
=============================================================================
