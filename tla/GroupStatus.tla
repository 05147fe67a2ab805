---------------------------- MODULE GroupStatus ----------------------------
(***************************************************************************)
(* How the RaftGroup object sums up its members: reconcileStatus of        *)
(* pkg/controller/storage/v2beta2/group.go.                                *)
(*                                                                         *)
(* The reconciler reads the group and then one member after the other from *)
(* a cache that lags behind, folds their terms and leaders into a copy of  *)
(* the group's status and writes it with an update that is refused if the  *)
(* group has changed since it was read.  The members change all the while, *)
(* as MemberObjects has it (which MemberStatus implements).  The group's   *)
(* State is left out.  The contents stand for the resource version: those  *)
(* of a group never come back once they have changed, since its term only  *)
(* grows and its leader only changes with it.                              *)
(***************************************************************************)
EXTENDS Naturals

CONSTANTS NumMembers,   \* members of the group, all of them voting
          NoLeader,     \* a nil Leader
          MaxTerm       \* bound on the terms

VARIABLES
  elected,     \* elected[t]: the leader Raft elected in term t
  shown,       \* shown[m]: the term and the leader RaftMember m shows
  cache,       \* cache[m]: what the controller reads of it
  group,       \* the status of the RaftGroup
  groupCache,  \* what the controller reads of it
  queued,      \* the RaftGroup is in the work queue
  next,        \* the member the reconciler reads next, or Idle
  read,        \* the status of the RaftGroup as it was read
  copy         \* the copy the reconciler is changing

Objects == INSTANCE MemberObjects

Members == 0..NumMembers - 1
Terms   == 0..MaxTerm
Shown   == Objects!Shown
Blank   == Objects!Blank
Idle    == NumMembers + 1

ASSUME GroupAssumption == /\ NumMembers \in Nat \ {0}
                          /\ MaxTerm \in Nat
                          /\ NoLeader \notin Members

memberVars == <<elected, shown, cache>>
groupVars  == <<group, groupCache, queued, next, read, copy>>
vars == <<memberVars, groupVars>>

Init ==
  /\ Objects!Init
  /\ cache = shown
  /\ group = Blank
  /\ groupCache = group
  /\ queued = TRUE
  /\ next = Idle
  /\ read = Blank
  /\ copy = Blank

-----------------------------------------------------------------------------
(* The members, and the cache of the client (external): it catches up at   *)
(* some time, and the watches of the controller put the group into its     *)
(* work queue.                                                             *)

MemberStep == Objects!Next /\ UNCHANGED <<cache, groupVars>>

\* Mutant: the members are not watched.
SyncMemberUnwatched(m) ==
  /\ cache[m] # shown[m]
  /\ cache' = [cache EXCEPT ![m] = shown[m]]
  /\ UNCHANGED <<elected, shown, groupVars>>

SyncMember(m) ==
  /\ cache[m] # shown[m]
  /\ cache' = [cache EXCEPT ![m] = shown[m]]
  /\ queued' = TRUE
  /\ UNCHANGED <<elected, shown, group, groupCache, next, read, copy>>

SyncGroup ==
  /\ groupCache # group
  /\ groupCache' = group
  /\ queued' = TRUE
  /\ UNCHANGED <<memberVars, group, next, read, copy>>

-----------------------------------------------------------------------------
(* RaftGroupReconciler.reconcileStatus                                     *)

GroupGet ==
  /\ queued
  /\ next = Idle
  /\ queued' = FALSE
  /\ read' = groupCache
  /\ copy' = groupCache
  /\ next' = 0
  /\ UNCHANGED <<memberVars, group, groupCache>>

\* Mutant: a member's leader is taken whether the group has one or not.
FoldAnyLeader(g, s) ==
  LET newer == s.term > g.term
      kept  == IF newer THEN NoLeader ELSE g.leader
  IN [term   |-> IF newer THEN s.term ELSE g.term,
      leader |-> IF s.leader # NoLeader THEN s.leader ELSE kept]

\* Mutant: the term of the member read last is taken.
FoldLastTerm(g, s) ==
  LET newer == s.term # g.term /\ s.term # 0
      kept  == IF newer THEN NoLeader ELSE g.leader
  IN [term   |-> IF newer THEN s.term ELSE g.term,
      leader |-> IF kept = NoLeader THEN s.leader ELSE kept]

\* Mutant: the term is counted on from the member's and not copied.
FoldNextTerm(g, s) ==
  LET newer == s.term > g.term
      kept  == IF newer THEN NoLeader ELSE g.leader
  IN [term   |-> IF newer THEN s.term + 1 ELSE g.term,
      leader |-> IF kept = NoLeader THEN s.leader ELSE kept]

\* One round of the loop over the members: a newer term is taken and clears
\* the leader; a leader is taken if there is none.
Fold(g, s) ==
  LET newer == s.term > g.term
      kept  == IF newer THEN NoLeader ELSE g.leader
  IN [term   |-> IF newer THEN s.term ELSE g.term,
      leader |-> IF kept = NoLeader THEN s.leader ELSE kept]

GroupReadMember ==
  /\ next \in Members
  /\ copy' = Fold(copy, cache[next])
  /\ next' = next + 1
  /\ UNCHANGED <<memberVars, group, groupCache, queued, read>>

\* The update, if anything has changed; a refusal puts the request back into
\* the work queue.  (read and copy are local: they end here.)
GroupUpdate ==
  /\ next = NumMembers
  /\ group' = IF copy # read /\ read = group THEN copy ELSE group
  /\ queued' = (queued \/ (copy # read /\ read # group))
  /\ next' = Idle
  /\ read' = Blank
  /\ copy' = Blank
  /\ UNCHANGED <<memberVars, groupCache>>

-----------------------------------------------------------------------------

GroupStep == GroupGet \/ GroupReadMember \/ GroupUpdate

Next == \/ MemberStep
        \/ \E m \in Members : SyncMember(m)
        \/ SyncGroup
        \/ GroupStep

Spec == Init /\ [][Next]_vars

\* The cache catches up and the reconciler works; nothing is assumed of the
\* members.
Fairness == /\ \A m \in Members : WF_vars(SyncMember(m))
            /\ WF_vars(SyncGroup)
            /\ WF_vars(GroupStep)

FairSpec == Spec /\ Fairness

-----------------------------------------------------------------------------
(* Properties                                                              *)

TypeOK ==
  /\ elected \in [Terms -> Members \cup {NoLeader}]
  /\ shown \in [Members -> Shown]
  /\ cache \in [Members -> Shown]
  /\ {group, groupCache, read, copy} \subseteq Shown
  /\ queued \in BOOLEAN
  /\ next \in 0..Idle

\* The term a group shows never goes back, although it is computed from stale
\* members on top of a stale copy of the group.
GroupTermNeverDecreases == [][group'.term >= group.term]_vars

\* A term that some member has come to show, and a leader that was elected in it
\* or in one before.
Founded(s) ==
  /\ \E m \in Members : shown[m].term >= s.term
  /\ s.leader # NoLeader => \E t \in 1..s.term : elected[t] = s.leader

\* What is read of a member is a leader of its term, and no newer than what the
\* member shows.
CacheIsFounded ==
  \A m \in Members :
    /\ cache[m].term <= shown[m].term
    /\ \A s \in {cache[m], shown[m]} :
         s.leader # NoLeader => s.term > 0 /\ elected[s.term] = s.leader

\* A pass takes the status it has read to the same term and leader or to a newer
\* term, or gives it the leader it did not have.
PassGoesForward ==
  /\ copy.term >= read.term
  /\ copy.term = read.term /\ read.leader # NoLeader => copy.leader = read.leader

\* A pass works on what the cache has of the group, unless the group has come
\* into the work queue again since.
PassIsCurrent == next # Idle /\ ~queued => read = groupCache

\* The status s, and a copy that is going to replace the status r, take account
\* of what is read of m.  A newer term clears a leader that was there; this
\* changes the group, so that there will be one more pass.
Has(s, m) == /\ s.term >= cache[m].term
             /\ cache[m].leader # NoLeader => s.leader # NoLeader
WillHave(s, r, m) == /\ s.term >= cache[m].term
                     /\ cache[m].leader # NoLeader =>
                          s.leader # NoLeader \/ s.term > r.term

\* No member is forgotten: the group takes account of it, or the pass will, or
\* there is going to be another one.
NoMemberForgotten ==
  \A m \in Members :
    \/ queued \/ groupCache # group
    \/ next = Idle /\ Has(group, m)
    \/ next # Idle /\ (next <= m \/ WillHave(copy, read, m))

\* The group never shows a term that no member has shown, nor a leader that
\* was not elected in its term or in one before; nor does any copy of it, stale
\* or half way through a pass, from which it may be written.  And no member is
\* forgotten.
GroupInv ==
  /\ TypeOK
  /\ \A s \in {group, groupCache, read, copy} : Founded(s)
  /\ CacheIsFounded
  /\ PassGoesForward
  /\ PassIsCurrent
  /\ NoMemberForgotten

\* Nothing is in the work queue or under way, and the cache is up to date.
AtRest == ~queued /\ next = Idle /\ groupCache = group /\ cache = shown

\* When nothing is left to do the group shows the highest term of its members,
\* and a leader if any of them does, without a timer that would look again.
RestIsCurrent ==
  AtRest => /\ \A m \in Members : shown[m].term <= group.term
            /\ \E m \in Members : shown[m].term = group.term
            /\ (\E m \in Members : shown[m].leader # NoLeader)
                 => group.leader # NoLeader

\* Within a term the group does not go from one leader to another.
LeaderStaysInTerm ==
  [][group.leader # NoLeader /\ group'.leader # group.leader
       => group'.term > group.term]_vars

\* The group's term catches up with the term of every member, stale caches and
\* refused updates notwithstanding.
GroupCatchesUp ==
  \A m \in Members, t \in Terms \ {0} : shown[m].term = t ~> group.term >= t

\* The resource definitions show the leader of a group as "the current leader
\* for the partition" beside "the current term for the partition".  That it is
\* the leader of that term does NOT hold.
GroupLeaderOfTerm ==
  group.leader # NoLeader => elected[group.term] = group.leader
=============================================================================
