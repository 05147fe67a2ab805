--------------------------- MODULE MemberObjects ---------------------------
(***************************************************************************)
(* What the RaftMember objects of one group promise to those who read      *)
(* them: a member shows a term and perhaps a leader; the term never goes   *)
(* back; the leader is the one Raft elected in that very term.  A member   *)
(* may be behind, and may miss terms and leaders altogether.               *)
(***************************************************************************)
EXTENDS Naturals

CONSTANTS NumMembers,   \* members of the group, all of them voting
          NoLeader,     \* a nil Leader
          MaxTerm       \* bound on the terms

Members == 0..NumMembers - 1
Terms   == 0..MaxTerm           \* 0: a nil Term
Leaders == Members \cup {NoLeader}

VARIABLES elected,   \* elected[t]: the leader Raft elected in term t
          shown      \* shown[m]: the [term, leader] that member m shows

vars == <<elected, shown>>

Shown == [term : Terms, leader : Leaders]
Blank == [term |-> 0, leader |-> NoLeader]

Init == /\ elected = [t \in Terms |-> NoLeader]
        /\ shown = [m \in Members |-> Blank]

\* Raft elects one leader per term, if any.
Elected(t, m) == /\ t > 0
                 /\ elected[t] = NoLeader
                 /\ elected' = [elected EXCEPT ![t] = m]
                 /\ UNCHANGED shown

\* m shows term t, a newer one or the one it shows already, and the leader of
\* t unless it has not heard of it.
Show(m, t) ==
  /\ t > 0
  /\ t >= shown[m].term
  /\ \E l \in {elected[t], NoLeader} :
       /\ l = NoLeader => t > shown[m].term
       /\ shown' = [shown EXCEPT ![m] = [term |-> t, leader |-> l]]
  /\ UNCHANGED elected

Next == \E m \in Members, t \in Terms : Elected(t, m) \/ Show(m, t)

Spec == Init /\ [][Next]_vars
=============================================================================
