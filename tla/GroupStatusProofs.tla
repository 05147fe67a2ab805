------------------------- MODULE GroupStatusProofs -------------------------
(***************************************************************************)
(* Proofs about GroupStatus, for any number of members and any terms.      *)
(*                                                                         *)
(* GroupInv is inductive.  What it says of the group alone is not: the     *)
(* group is written from a copy of a stale copy of itself, into which      *)
(* stale members have been folded, so that all of them have to be founded  *)
(* at all times.  That the members only move forward keeps them so.        *)
(***************************************************************************)
EXTENDS GroupStatus, TLAPS

USE GroupAssumption

-----------------------------------------------------------------------------
(* The members move forward.                                               *)

\* What a step does to the members: a leader stays the leader of its term, and
\* no member goes back to an older one.
MembersMoveOn ==
  /\ \A t \in Terms : elected[t] # NoLeader => elected'[t] = elected[t]
  /\ \A m \in Members : shown'[m].term >= shown[m].term

\* Every step of the members is of this kind, and leaves them well-formed: the
\* leader that a member shows is the one of its term.
LEMMA MemberStepMovesOn ==
  ASSUME TypeOK, CacheIsFounded, MemberStep
  PROVE  /\ MembersMoveOn
         /\ elected' \in [Terms -> Members \cup {NoLeader}]
         /\ shown' \in [Members -> Shown]
         /\ CacheIsFounded'
<1> USE DEF TypeOK, Terms, Members, Shown, Objects!Shown, Objects!Terms,
            Objects!Members, Objects!Leaders
<1>1. PICK m \in Members, t \in Terms : Objects!Elected(t, m) \/ Objects!Show(m, t)
  BY DEF MemberStep, Objects!Next
<1>2. cache' = cache
  BY DEF MemberStep
<1>3. CASE Objects!Elected(t, m)
  <2>1. /\ elected' = [elected EXCEPT ![t] = m]
        /\ elected[t] = NoLeader
        /\ shown' = shown
    BY <1>3 DEF Objects!Elected
  <2>2. MembersMoveOn
    BY <2>1 DEF MembersMoveOn
  <2>3. CacheIsFounded'
    BY <2>1, <2>2, <1>2 DEF MembersMoveOn, CacheIsFounded
  <2> QED  BY <2>1, <2>2, <2>3
<1>4. CASE Objects!Show(m, t)
  <2>1. PICK l \in {elected[t], NoLeader} :
          shown' = [shown EXCEPT ![m] = [term |-> t, leader |-> l]]
    BY <1>4 DEF Objects!Show
  <2>2. elected' = elected /\ t > 0 /\ t >= shown[m].term
    BY <1>4 DEF Objects!Show
  <2>3. shown' \in [Members -> Shown]
    BY <2>1
  <2>4. \A k \in Members : shown'[k] = IF k = m THEN [term |-> t, leader |-> l]
                                                ELSE shown[k]
    BY <2>1
  <2>5. \A k \in Members : shown[k].term \in Nat /\ cache[k].term \in Nat
    OBVIOUS
  <2>6. \A k \in Members : shown'[k].term >= shown[k].term
    <3> SUFFICES ASSUME NEW k \in Members
                 PROVE  shown'[k].term >= shown[k].term
      OBVIOUS
    <3>1. CASE k = m  BY <3>1, <2>2, <2>4
    <3>2. CASE k # m  BY <3>2, <2>4, <2>5
    <3> QED  BY <3>1, <3>2
  <2>7. MembersMoveOn
    BY <2>2, <2>6 DEF MembersMoveOn
  <2>8. CacheIsFounded'
    <3> SUFFICES ASSUME NEW k \in Members
                 PROVE  /\ cache[k].term <= shown'[k].term
                        /\ \A s \in {cache[k], shown'[k]} :
                             s.leader # NoLeader => s.term > 0 /\ elected[s.term] = s.leader
      BY <2>2, <1>2 DEF CacheIsFounded
    <3>1. cache[k].term <= shown'[k].term
      BY <2>3, <2>5, <2>6 DEF CacheIsFounded
    <3>2. shown'[k].leader # NoLeader =>
            shown'[k].term > 0 /\ elected[shown'[k].term] = shown'[k].leader
      BY <2>1, <2>2, <2>4 DEF CacheIsFounded
    <3> QED  BY <3>1, <3>2 DEF CacheIsFounded
  <2> QED  BY <2>2, <2>3, <2>7, <2>8
<1> QED  BY <1>1, <1>3, <1>4

\* What is founded stays so while the members move on.
LEMMA FoundedStays ==
  ASSUME TypeOK, shown' \in [Members -> Shown], MembersMoveOn,
         NEW s \in Shown, Founded(s)
  PROVE  Founded(s)'
<1> USE DEF TypeOK, Terms, Members, Shown, Objects!Shown, Objects!Terms,
            Objects!Members, Objects!Leaders
<1>1. PICK m \in Members : shown[m].term >= s.term
  BY DEF Founded
<1>2. shown'[m].term >= s.term
  BY <1>1 DEF MembersMoveOn
<1>3. ASSUME s.leader # NoLeader
      PROVE  \E t \in 1..s.term : elected'[t] = s.leader
  <2>1. PICK t \in 1..s.term : elected[t] = s.leader
    BY <1>3 DEF Founded
  <2>2. t \in Terms
    OBVIOUS
  <2> QED  BY <2>1, <2>2, <1>3 DEF MembersMoveOn
<1> QED  BY <1>2, <1>3 DEF Founded

-----------------------------------------------------------------------------
(* One round of the loop over the members.                                 *)

\* A member that is read is folded into the copy: the copy goes forward, and
\* what it shows then is founded if it was before.
LEMMA FoldIsFounded ==
  ASSUME GroupInv, NEW m \in Members
  PROVE  LET f == Fold(copy, cache[m])
         IN  /\ f \in Shown
             /\ f.term >= copy.term
             /\ f.term = copy.term /\ copy.leader # NoLeader => f.leader = copy.leader
             /\ f.term >= cache[m].term
             /\ cache[m].leader # NoLeader => f.leader # NoLeader
             /\ Founded(f)
<1> USE DEF GroupInv, TypeOK, Terms, Members, Shown, Objects!Shown,
            Objects!Terms, Objects!Members, Objects!Leaders
<1> DEFINE s == cache[m]
           f == Fold(copy, s)
<1>1. copy \in Shown /\ s \in Shown /\ f \in Shown
  BY DEF Fold
<1>2. /\ f.term = IF s.term > copy.term THEN s.term ELSE copy.term
      /\ f.leader \in {copy.leader, s.leader}
      /\ s.term > copy.term \/ copy.leader = NoLeader => f.leader = s.leader
      /\ ~(s.term > copy.term) /\ copy.leader # NoLeader => f.leader = copy.leader
  BY <1>1 DEF Fold
<1>3. Founded(copy)
  OBVIOUS
<1>4. shown[m].term >= s.term /\ (s.leader # NoLeader => s.term > 0 /\ elected[s.term] = s.leader)
  BY DEF CacheIsFounded
<1> HIDE DEF f, s
<1>5. f.term >= copy.term /\ f.term >= s.term
  BY <1>1, <1>2
<1>6. \E k \in Members : shown[k].term >= f.term
  BY <1>1, <1>2, <1>3, <1>4 DEF Founded
<1>7. ASSUME f.leader # NoLeader
      PROVE  \E t \in 1..f.term : elected[t] = f.leader
  <2>1. CASE f.leader = s.leader
    BY <2>1, <1>7, <1>1, <1>4, <1>5
  <2>2. CASE f.leader = copy.leader
    <3>1. PICK t \in 1..copy.term : elected[t] = copy.leader
      BY <2>2, <1>3, <1>7 DEF Founded
    <3>2. t \in 1..f.term
      BY <1>1, <1>5, <3>1
    <3> QED  BY <2>2, <3>1, <3>2
  <2> QED  BY <2>1, <2>2, <1>2
<1>8. Founded(f)
  BY <1>6, <1>7 DEF Founded
<1>9. s.leader # NoLeader => f.leader # NoLeader
  BY <1>1, <1>2
<1> QED  BY <1>1, <1>2, <1>5, <1>8, <1>9 DEF f, s

-----------------------------------------------------------------------------
(* GroupInv is inductive.                                                  *)

\* Nobody shows anything in the beginning.
LEMMA InitGroup == Init => GroupInv
<1> USE DEF Init, Objects!Init, Blank, Objects!Blank, Shown, Objects!Shown,
            Terms, Objects!Terms, Members, Objects!Members, Objects!Leaders
<1>1. Init => TypeOK
  BY DEF TypeOK, Idle
<1>2. Init => \A s \in {group, groupCache, read, copy} : Founded(s)
  <2>1. 0 \in Members
    OBVIOUS
  <2>2. Init => shown[0].term >= 0
    BY <2>1
  <2> QED  BY <2>1, <2>2 DEF Founded
<1>3. Init => CacheIsFounded /\ PassGoesForward
  BY DEF CacheIsFounded, PassGoesForward
<1>4. Init => PassIsCurrent /\ NoMemberForgotten
  BY DEF PassIsCurrent, NoMemberForgotten
<1> QED  BY <1>1, <1>2, <1>3, <1>4 DEF GroupInv

\* The members move on beneath what the group and its copies show.
LEMMA MemberStepInv ==
  ASSUME GroupInv, MemberStep
  PROVE  GroupInv'
<1>1. /\ MembersMoveOn
      /\ elected' \in [Terms -> Members \cup {NoLeader}]
      /\ shown' \in [Members -> Shown]
      /\ CacheIsFounded'
  BY MemberStepMovesOn DEF GroupInv
<1>2. UNCHANGED <<cache, group, groupCache, queued, next, read, copy>>
  BY DEF MemberStep, groupVars
<1>3. TypeOK'
  BY <1>1, <1>2 DEF GroupInv, TypeOK, Shown
<1>4. \A s \in {group, groupCache, read, copy} : Founded(s)'
  BY <1>1, FoundedStays DEF GroupInv, TypeOK
<1>5. (\A s \in {group, groupCache, read, copy} : Founded(s))'
  BY <1>2, <1>4 DEF Founded
<1>6. PassGoesForward' /\ PassIsCurrent' /\ NoMemberForgotten'
  BY <1>2 DEF GroupInv, PassGoesForward, PassIsCurrent, NoMemberForgotten, Has,
              WillHave
<1> QED  BY <1>1, <1>3, <1>5, <1>6 DEF GroupInv

\* The client's cache catches up with one member, or with the group.
LEMMA SyncInv ==
  ASSUME GroupInv, (\E m \in Members : SyncMember(m)) \/ SyncGroup
  PROVE  GroupInv'
<1> USE DEF GroupInv, TypeOK
<1>1. CASE \E m \in Members : SyncMember(m)
  <2>1. PICK m \in Members : SyncMember(m)
    BY <1>1
  <2>2. /\ cache' = [cache EXCEPT ![m] = shown[m]]
        /\ UNCHANGED <<elected, shown, group, groupCache, next, read, copy>>
        /\ queued' = TRUE
    BY <2>1 DEF SyncMember
  <2>3. TypeOK'
    BY <2>2 DEF Shown
  <2>4. CacheIsFounded'
    <3> SUFFICES ASSUME NEW k \in Members
                 PROVE  /\ cache'[k].term <= shown'[k].term
                        /\ \A s \in {cache'[k], shown'[k]} :
                             s.leader # NoLeader => s.term > 0 /\ elected'[s.term] = s.leader
      BY DEF CacheIsFounded
    <3>1. shown[k].term \in Nat
      BY DEF Shown, Objects!Shown, Objects!Terms
    <3> QED  BY <2>2, <3>1 DEF CacheIsFounded
  <2> QED  BY <2>2, <2>3, <2>4 DEF Founded, PassGoesForward, PassIsCurrent,
                                   NoMemberForgotten
<1>2. CASE SyncGroup
  BY <1>2 DEF SyncGroup, memberVars, CacheIsFounded, Founded, PassGoesForward,
              PassIsCurrent, NoMemberForgotten
<1> QED  BY <1>1, <1>2

\* A pass is begun with the cached group, folds in one member after the other,
\* and ends with the group as it was or as the copy is.
LEMMA GroupStepInv ==
  ASSUME GroupInv, GroupStep
  PROVE  GroupInv'
<1> USE DEF GroupInv, TypeOK, memberVars
<1>0. \A s \in Shown : s.term \in Nat
  BY DEF Shown, Objects!Shown, Objects!Terms
<1>1. CASE GroupGet
  <2>1. TypeOK'
    <3>1. next' \in 0..Idle
      BY <1>1 DEF GroupGet, Idle
    <3> QED  BY <1>1, <3>1 DEF GroupGet
  <2>2. PassGoesForward'
    BY <1>0, <1>1 DEF GroupGet, PassGoesForward
  <2>3. PassIsCurrent' /\ NoMemberForgotten'
    BY <1>1 DEF GroupGet, PassIsCurrent, NoMemberForgotten, Members, Idle
  <2> QED  BY <1>1, <2>1, <2>2, <2>3 DEF GroupGet, CacheIsFounded, Founded
<1>2. CASE GroupReadMember
  <2> DEFINE f == Fold(copy, cache[next])
  <2>1. /\ f \in Shown
        /\ f.term >= copy.term
        /\ f.term = copy.term /\ copy.leader # NoLeader => f.leader = copy.leader
        /\ f.term >= cache[next].term
        /\ cache[next].leader # NoLeader => f.leader # NoLeader
        /\ Founded(f)
    BY <1>2, FoldIsFounded DEF GroupReadMember
  <2>2. /\ copy' = f
        /\ UNCHANGED <<elected, shown, cache, group, groupCache, queued, read>>
        /\ next \in Members
        /\ next' = next + 1
    BY <1>2 DEF GroupReadMember
  <2> HIDE DEF f
  <2>3. TypeOK'
    BY <2>1, <2>2 DEF Members, Idle
  <2>4. PassGoesForward'
    BY <1>0, <2>1, <2>2 DEF PassGoesForward
  <2>5. Founded(copy)'
    BY <2>1, <2>2 DEF Founded
  <2>6. PassIsCurrent'
    BY <2>2 DEF PassIsCurrent, Members, Idle
  <2>7. NoMemberForgotten'
    <3> SUFFICES ASSUME NEW m \in Members,
                        ~queued, groupCache = group, ~(next + 1 <= m)
                 PROVE  /\ f.term >= cache[m].term
                        /\ cache[m].leader # NoLeader =>
                             f.leader # NoLeader \/ f.term > read.term
      BY <2>2 DEF NoMemberForgotten, WillHave, Members, Idle
    <3>1. CASE m = next
      BY <3>1, <2>1
    <3>2. CASE m # next
      <4>1. /\ copy.term >= cache[m].term
            /\ cache[m].leader # NoLeader =>
                 copy.leader # NoLeader \/ copy.term > read.term
        BY <3>2, <2>2 DEF NoMemberForgotten, WillHave, Members, Idle
      <4>2. copy.term >= read.term
        BY DEF PassGoesForward
      <4> QED  BY <4>1, <4>2, <2>1, <1>0
    <3> QED  BY <3>1, <3>2
  <2> QED  BY <2>2, <2>3, <2>4, <2>5, <2>6, <2>7 DEF CacheIsFounded, Founded
<1>3. CASE GroupUpdate
  <2>1. /\ group' \in {group, copy}
        /\ read' = Blank /\ copy' = Blank
        /\ UNCHANGED <<elected, shown, cache, groupCache>>
        /\ queued' \in BOOLEAN
        /\ next' = Idle
    BY <1>3 DEF GroupUpdate
  <2>2. Blank \in Shown /\ Blank.term = 0 /\ Blank.leader = NoLeader
    BY DEF Blank, Objects!Blank, Shown, Objects!Shown, Objects!Terms, Objects!Leaders
  <2>3. TypeOK'
    BY <2>1, <2>2 DEF Idle
  <2>4. PassGoesForward'
    BY <2>1, <2>2 DEF PassGoesForward
  <2>5. Founded(Blank)
    BY <2>2, <1>0 DEF Founded, Members
  <2>6. PassIsCurrent'
    BY <2>1 DEF PassIsCurrent
  <2>7. NoMemberForgotten'
    <3> SUFFICES ASSUME NEW m \in Members, ~queued', groupCache = group'
                 PROVE  Has(group', m)
      BY <2>1 DEF NoMemberForgotten, Has
    <3>1. ~queued /\ (copy = read \/ read = group) /\ next = NumMembers
      BY <1>3 DEF GroupUpdate
    <3>2. read = groupCache
      BY <3>1 DEF PassIsCurrent, Idle
    <3>3. copy = read /\ group' = group
      BY <3>1, <3>2, <1>3 DEF GroupUpdate
    <3>4. WillHave(copy, read, m)
      BY <3>1, <3>2, <3>3, <2>1 DEF NoMemberForgotten, Members, Idle
    <3> QED  BY <1>0, <2>1, <3>2, <3>3, <3>4 DEF WillHave, Has
  <2> QED  BY <2>1, <2>3, <2>4, <2>5, <2>6, <2>7 DEF CacheIsFounded, Founded
<1> QED  BY <1>1, <1>2, <1>3 DEF GroupStep

\* The group is well founded, and so are all copies of it.
THEOREM GroupWellFounded == Spec => []GroupInv
<1>1. GroupInv /\ [Next]_vars => GroupInv'
  <2> SUFFICES ASSUME GroupInv, [Next]_vars
               PROVE  GroupInv'
    OBVIOUS
  <2>1. CASE UNCHANGED vars
    BY <2>1 DEF vars, memberVars, groupVars, GroupInv, TypeOK, Founded,
                CacheIsFounded, PassGoesForward, PassIsCurrent,
                NoMemberForgotten, Has, WillHave
  <2> QED  BY <2>1, MemberStepInv, SyncInv, GroupStepInv DEF Next
<1> QED  BY <1>1, InitGroup, PTL DEF Spec

\* When nothing is left to do, the group shows the highest term of its members,
\* and a leader if any of them does.
THEOREM CurrentAtRest == Spec => []RestIsCurrent
<1>1. GroupInv => RestIsCurrent
  <2> SUFFICES ASSUME GroupInv, AtRest
               PROVE  /\ \A m \in Members : shown[m].term <= group.term
                      /\ \E m \in Members : shown[m].term = group.term
                      /\ (\E m \in Members : shown[m].leader # NoLeader)
                           => group.leader # NoLeader
    BY DEF RestIsCurrent
  <2>1. \A m \in Members : /\ shown[m].term <= group.term
                           /\ shown[m].leader # NoLeader => group.leader # NoLeader
    <3> SUFFICES ASSUME NEW m \in Members
                 PROVE  /\ shown[m].term <= group.term
                        /\ shown[m].leader # NoLeader => group.leader # NoLeader
      OBVIOUS
    <3>1. shown[m].term \in Nat /\ group.term \in Nat
      BY DEF GroupInv, TypeOK, Shown, Objects!Shown, Objects!Terms
    <3>2. Has(group, m)
      BY DEF GroupInv, NoMemberForgotten, AtRest
    <3> QED  BY <3>1, <3>2 DEF Has, AtRest
  <2>2. \E m \in Members : shown[m].term >= group.term
    BY DEF GroupInv, Founded
  <2>3. group.term \in Nat /\ \A m \in Members : shown[m].term \in Nat
    BY DEF GroupInv, TypeOK, Shown, Objects!Shown, Objects!Terms
  <2> QED  BY <2>1, <2>2, <2>3
<1> QED  BY <1>1, GroupWellFounded, PTL

-----------------------------------------------------------------------------
(* What a step may do to the group.                                        *)

\* Only GroupUpdate writes the group, from a copy that has gone forward from
\* what was read, and only if the group is still what was read.
LEMMA GroupIsWritten ==
  ASSUME GroupInv, [Next]_vars
  PROVE  \/ group' = group
         \/ GroupUpdate /\ group = read /\ group' = copy
<1>1. ASSUME MemberStep \/ (\E m \in Members : SyncMember(m)) \/ SyncGroup
      PROVE  group' = group
  BY <1>1 DEF MemberStep, SyncMember, SyncGroup, groupVars
<1>2. ASSUME GroupGet \/ GroupReadMember
      PROVE  group' = group
  BY <1>2 DEF GroupGet, GroupReadMember
<1>3. ASSUME GroupUpdate
      PROVE  group' = group \/ (group = read /\ group' = copy)
  BY <1>3 DEF GroupUpdate
<1> QED  BY <1>1, <1>2, <1>3 DEF Next, GroupStep, vars, groupVars

\* The term of a group never goes back.
THEOREM TermNeverDecreases == Spec => GroupTermNeverDecreases
<1>1. GroupInv /\ [Next]_vars => [group'.term >= group.term]_vars
  <2> SUFFICES ASSUME GroupInv, [Next]_vars
               PROVE  group'.term >= group.term
    OBVIOUS
  <2>1. group.term \in Nat
    BY DEF GroupInv, TypeOK, Shown, Objects!Shown, Objects!Terms
  <2> QED  BY <2>1, GroupIsWritten DEF GroupInv, PassGoesForward
<1> QED  BY <1>1, GroupWellFounded, PTL DEF Spec, GroupTermNeverDecreases

\* A group that shows a leader shows another one, or none, only in a newer term.
THEOREM LeaderStays == Spec => LeaderStaysInTerm
<1>1. GroupInv /\ [Next]_vars =>
        [group.leader # NoLeader /\ group'.leader # group.leader
           => group'.term > group.term]_vars
  <2> SUFFICES ASSUME GroupInv, [Next]_vars,
                      group.leader # NoLeader, group'.leader # group.leader
               PROVE  group'.term > group.term
    OBVIOUS
  <2>1. group = read /\ group' = copy
    BY GroupIsWritten
  <2>2. group.term \in Nat /\ copy.term \in Nat
    BY DEF GroupInv, TypeOK, Shown, Objects!Shown, Objects!Terms
  <2> QED  BY <2>1, <2>2 DEF GroupInv, PassGoesForward
<1> QED  BY <1>1, GroupWellFounded, PTL DEF Spec, LeaderStaysInTerm
=============================================================================
