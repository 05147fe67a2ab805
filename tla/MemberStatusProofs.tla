------------------------- MODULE MemberStatusProofs -------------------------
(***************************************************************************)
(* Proofs about MemberStatus, for groups of any size, any terms and any    *)
(* number of events under way.                                             *)
(*                                                                         *)
(* LeaderInv is inductive; MemberLeaderOfTerm and LeaderRoleIsElected      *)
(* follow from it, and under it every step is a step of MemberObjects or   *)
(* leaves what the objects show alone.  What IndInv says beyond that is    *)
(* inductive on top of it: it is about the State, which those do not need. *)
(***************************************************************************)
EXTENDS MemberStatus, TLAPS

USE MemberAssumption

\* A leader, once elected, stays the leader of its term.
ElectedGrows ==
  \A t \in Terms : elected[t] # NoLeader => elected'[t] = elected[t]

-----------------------------------------------------------------------------
(* Events and statuses.                                                    *)

\* An event is MemberReady or has a term and perhaps a leader.
LEMMA EventFields ==
  ASSUME NEW e \in RaftEvents, e # MemberReady
  PROVE  e.term \in Terms /\ e.leader \in Leaders
BY DEF RaftEvents, LeaderUpdated

\* The same of what the monitor has in hand.
LEMMA InHandFields ==
  ASSUME TypeOK, NEW m \in Tracked, inHand[m] \notin {Nothing, MemberReady}
  PROVE  inHand[m].term \in Terms /\ inHand[m].leader \in Leaders
<1>1. inHand[m] \in RaftEvents
  BY DEF TypeOK
<1> QED  BY <1>1, EventFields

\* And of what is under way.
LEMMA UnderWayFields ==
  ASSUME TypeOK, NEW m \in Tracked, NEW i \in 1..Len(events[m])
  PROVE  /\ events[m][i] \in RaftEvents
         /\ events[m][i] # MemberReady =>
              events[m][i].term \in Terms /\ events[m][i].leader \in Leaders
<1>1. events[m][i] \in RaftEvents
  BY DEF TypeOK
<1> QED  BY <1>1, EventFields

-----------------------------------------------------------------------------
(* LeaderInv is inductive.                                                 *)

\* No node knows anything, and no object shows anything, in the beginning.
LEMMA InitInd == Init => LeaderInv
<1> SUFFICES ASSUME Init PROVE LeaderInv
  OBVIOUS
<1> USE DEF Init, Terms, Leaders
<1>1. TypeOK
  BY DEF TypeOK, Status, Roles, States, Copies, RaftEvents
<1>2. MemberLeaderOfTerm /\ LeaderRoleIsElected
  BY DEF MemberLeaderOfTerm, LeaderRoleIsElected
<1>3. NodesSayTheTruth
  BY DEF NodesSayTheTruth, Truthful
<1>4. EventsInOrder
  BY DEF EventsInOrder, NotBefore, NotAfter
<1>5. FreshCopiesAgree
  BY DEF FreshCopiesAgree
<1> QED  BY <1>1, <1>2, <1>3, <1>4, <1>5 DEF LeaderInv

\* Whatever the elections, as long as they keep the leaders there are.
LEMMA ElectionKeeps ==
  ASSUME LeaderInv, elected' \in [Terms -> Leaders], ElectedGrows, UNCHANGED member
  PROVE  MemberLeaderOfTerm' /\ LeaderRoleIsElected'
<1>1. \A m \in Tracked : member[m].term \in Terms
  BY DEF LeaderInv, TypeOK, Status
<1>2. MemberLeaderOfTerm'
  BY <1>1 DEF LeaderInv, MemberLeaderOfTerm, ElectedGrows
<1>3. LeaderRoleIsElected'
  BY <1>1 DEF LeaderInv, LeaderRoleIsElected, MemberLeaderOfTerm, ElectedGrows
<1> QED  BY <1>2, <1>3

\* What was true of a leader stays true.
LEMMA TruthStays ==
  ASSUME ElectedGrows, NEW e \in RaftEvents \cup {Nothing}, Truthful(e)
  PROVE  Truthful(e)'
BY EventFields DEF Truthful, ElectedGrows

\* A node that comes to know what is true, in its term or a later one, and
\* publishes it: the event is true and the last one in the order.
LEMMA PublishInd ==
  ASSUME LeaderInv, NEW m \in Tracked,
         elected' \in [Terms -> Leaders], elected'[0] = NoLeader, ElectedGrows,
         NEW n \in [term : Terms, leader : Leaders],
         node' = [node EXCEPT ![m] = n],
         n.term >= node[m].term,
         n.leader # NoLeader => elected'[n.term] = n.leader,
         NEW e \in RaftEvents,
         e # MemberReady => e.term = n.term /\ n.term > 0 /\ e.leader = n.leader,
         Publish(m, e)
  PROVE  LeaderInv'
<1> USE DEF LeaderInv
<1>1. /\ UNCHANGED <<monitor, podReady, member, cache, fresh, inHand, record,
                     queued, reconcile>>
      /\ \/ events' = [events EXCEPT ![m] = Append(@, e)]
         \/ events' = events
  BY DEF Publish, objectVars, recordVars, reconcileVars
<1>2. TypeOK'
  <2>1. events \in [Tracked -> Seq(RaftEvents)]
    BY DEF TypeOK
  <2>2. Append(events[m], e) \in Seq(RaftEvents)
    BY <2>1
  <2>3. events' \in [Tracked -> Seq(RaftEvents)]
    BY <1>1, <2>1, <2>2
  <2> QED  BY <2>3, <1>1 DEF TypeOK
<1>3. MemberLeaderOfTerm' /\ LeaderRoleIsElected'
  BY <1>1, ElectionKeeps
<1>4. \A k \in Tracked :
        /\ node'[k] = IF k = m THEN n ELSE node[k]
        /\ node[k].term \in Nat /\ node'[k].term \in Nat
        /\ node'[k].term >= node[k].term
  BY DEF TypeOK, Terms
<1>5. ASSUME NEW k \in Tracked, NEW i \in 1..Len(events'[k])
      PROVE  \/ i \in 1..Len(events[k]) /\ events'[k][i] = events[k][i]
             \/ k = m /\ i = Len(events[k]) + 1 /\ i = Len(events'[k]) /\ events'[k][i] = e
  <2>1. events[k] \in Seq(RaftEvents)
    BY DEF TypeOK
  <2>2. CASE events'[k] = events[k]
    BY <2>2
  <2>3. CASE k = m /\ events'[k] = Append(events[k], e)
    BY <2>1, <2>3
  <2> QED  BY <1>1, <2>2, <2>3 DEF TypeOK
<1>6. Truthful(e)'
  BY DEF Truthful
<1>7. NodesSayTheTruth'
  <2>1. ASSUME NEW k \in Tracked
        PROVE  node'[k].leader # NoLeader => elected'[node'[k].term] = node'[k].leader
    <3>1. node[k].term \in Terms
      BY DEF TypeOK
    <3> QED  BY <1>4, <3>1 DEF NodesSayTheTruth, ElectedGrows
  <2>2. ASSUME NEW k \in Tracked
        PROVE  Truthful(inHand[k])'
    BY <1>1, TruthStays DEF NodesSayTheTruth, TypeOK, Truthful
  <2>3. ASSUME NEW k \in Tracked, NEW i \in 1..Len(events'[k])
        PROVE  Truthful(events[k][i])'
    <3>1. CASE i \in 1..Len(events[k]) /\ events'[k][i] = events[k][i]
      BY <3>1, TruthStays, UnderWayFields DEF NodesSayTheTruth, Truthful
    <3>2. CASE events'[k][i] = e
      BY <3>2, <1>6 DEF Truthful
    <3> QED  BY <1>5, <2>3, <3>1, <3>2
  <2> QED  BY <2>1, <2>2, <2>3 DEF NodesSayTheTruth
<1>8. EventsInOrder'
  <2> SUFFICES ASSUME NEW k \in Tracked
               PROVE  (/\ member[k].term <= node[k].term
                       /\ NotBefore(member[k].term, inHand[k])
                       /\ NotAfter(node[k].term, inHand[k])
                       /\ \A i \in 1..Len(events[k]) :
                            /\ NotBefore(member[k].term, events[k][i])
                            /\ NotAfter(node[k].term, events[k][i])
                            /\ inHand[k] \notin {Nothing, MemberReady} =>
                                 NotBefore(inHand[k].term, events[k][i])
                            /\ events[k][i] \notin {Nothing, MemberReady} =>
                                 \A j \in i..Len(events[k]) :
                                   NotBefore(events[k][i].term, events[k][j]))'
    BY DEF EventsInOrder
  <2> USE DEF NotBefore, NotAfter
  <2>1. member[k].term \in Nat
    BY DEF TypeOK, Status, Terms
  <2>2. inHand[k] \notin {Nothing, MemberReady} => inHand[k].term \in Nat
    BY InHandFields DEF Terms
  <2>3. (/\ member[k].term <= node[k].term
         /\ NotBefore(member[k].term, inHand[k])
         /\ NotAfter(node[k].term, inHand[k]))'
    BY <1>1, <1>4, <2>1, <2>2 DEF EventsInOrder
  <2>4. ASSUME NEW i \in 1..Len(events'[k])
        PROVE  (/\ NotBefore(member[k].term, events[k][i])
                /\ NotAfter(node[k].term, events[k][i])
                /\ inHand[k] \notin {Nothing, MemberReady} =>
                     NotBefore(inHand[k].term, events[k][i])
                /\ events[k][i] \notin {Nothing, MemberReady} =>
                     \A j \in i..Len(events[k]) :
                       NotBefore(events[k][i].term, events[k][j]))'
    <3>1. CASE i \in 1..Len(events[k]) /\ events'[k][i] = events[k][i]
      <4>1. events[k][i] # MemberReady => events[k][i].term \in Nat
        BY <3>1, UnderWayFields DEF Terms
      <4>2. ASSUME NEW j \in i..Len(events'[k]), events[k][i] \notin {Nothing, MemberReady}
            PROVE  (NotBefore(events[k][i].term, events[k][j]))'
        <5>1. j \in 1..Len(events'[k])
          BY <2>4, <4>2
        <5>2. CASE j \in 1..Len(events[k]) /\ events'[k][j] = events[k][j]
          BY <3>1, <5>2, <4>2 DEF EventsInOrder
        <5>3. CASE k = m /\ events'[k][j] = e
          BY <3>1, <5>3, <4>1, <4>2, <1>4 DEF EventsInOrder
        <5> QED  BY <1>5, <5>1, <5>2, <5>3
      <4> QED  BY <3>1, <4>1, <4>2, <1>1, <1>4 DEF EventsInOrder
    <3>2. CASE k = m /\ i = Len(events'[k]) /\ events'[k][i] = e
      <4>1. /\ member'[k].term <= n.term
            /\ inHand'[k] \notin {Nothing, MemberReady} => inHand'[k].term <= n.term
        BY <3>2, <1>4, <2>3
      <4>2. \A j \in i..Len(events'[k]) : j = i
        BY <3>2, <2>4
      <4> QED  BY <3>2, <4>1, <4>2, <1>1, <1>4, <2>1, <2>2 DEF Terms
    <3> QED  BY <1>5, <3>1, <3>2
  <2> QED  BY <2>3, <2>4
<1>9. FreshCopiesAgree'
  BY <1>1 DEF FreshCopiesAgree
<1> QED  BY <1>2, <1>3, <1>7, <1>8, <1>9

\* Raft on a node whose object is followed.
LEMMA RaftStepInd ==
  ASSUME LeaderInv, NEW m \in Tracked, RaftStep(m)
  PROVE  LeaderInv'
<1> USE DEF LeaderInv, NodeUpdated, Terms, Leaders
<1>0. /\ node[m].term \in Terms /\ node[m].leader \in Leaders
      /\ elected \in [Terms -> Leaders]
      /\ elected[0] = NoLeader
      /\ node[m].leader # NoLeader => elected[node[m].term] = node[m].leader
  BY DEF TypeOK, NodesSayTheTruth
<1>1. ASSUME UNCHANGED elected
      PROVE  elected' \in [Terms -> Leaders] /\ elected'[0] = NoLeader /\ ElectedGrows
  BY <1>0, <1>1 DEF ElectedGrows
<1>2. \A t \in Terms, l \in Leaders :
        /\ LeaderUpdated(t, l) \in RaftEvents
        /\ LeaderUpdated(t, l).term = t /\ LeaderUpdated(t, l).leader = l
  BY DEF RaftEvents, LeaderUpdated
<1>3. CASE NewTerm(m)
  <2>1. PICK t \in Terms : t > node[m].term /\ NodeUpdated(m, t, NoLeader)
    BY <1>3 DEF NewTerm
  <2>2. UNCHANGED elected /\ t > 0
    BY <1>0, <1>3, <2>1 DEF NewTerm
  <2>3. NoLeader \in Leaders /\ t >= node[m].term
    BY <1>0, <2>1
  <2> DEFINE n == [term |-> t, leader |-> NoLeader]
             e == LeaderUpdated(t, NoLeader)
  <2>4. /\ n \in [term : Terms, leader : Leaders]
        /\ n.term = t /\ n.leader = NoLeader
        /\ node' = [node EXCEPT ![m] = n]
        /\ Publish(m, e)
    BY <2>1, <2>3
  <2>5. e \in RaftEvents /\ e.term = t /\ e.leader = NoLeader
    BY <1>2, <2>3
  <2> HIDE DEF n, e
  <2> QED  BY <1>1, <2>2, <2>3, <2>4, <2>5, PublishInd
<1>4. CASE Elect(m)
  <2> DEFINE t == node[m].term
             n == [term |-> t, leader |-> m]
             e == LeaderUpdated(t, m)
  <2>1. /\ t > 0 /\ elected[t] = NoLeader
        /\ elected' = [elected EXCEPT ![t] = m]
        /\ node' = [node EXCEPT ![m] = n]
        /\ Publish(m, e)
    BY <1>4 DEF Elect
  <2>2. m \in Leaders /\ t \in Terms /\ t >= t
    BY <1>0
  <2>3. elected' \in [Terms -> Leaders] /\ elected'[0] = NoLeader /\ ElectedGrows
    BY <1>0, <2>1, <2>2 DEF ElectedGrows
  <2>4. n \in [term : Terms, leader : Leaders] /\ n.term = t /\ n.leader = m
    BY <2>2
  <2>5. e \in RaftEvents /\ e.term = t /\ e.leader = m
    BY <1>2, <2>2
  <2>6. elected'[t] = m
    BY <1>0, <2>1, <2>2
  <2>7. PICK k \in [term : Terms, leader : Leaders] : k = n
    BY <2>4
  <2>8. PICK f \in RaftEvents : f = e
    BY <2>5
  <2> HIDE DEF n, e
  <2>9. /\ node' = [node EXCEPT ![m] = k]
        /\ k.term >= node[m].term
        /\ k.leader # NoLeader => elected'[k.term] = k.leader
        /\ f # MemberReady => f.term = k.term /\ k.term > 0 /\ f.leader = k.leader
        /\ Publish(m, f)
    BY <2>1, <2>2, <2>4, <2>5, <2>6, <2>7, <2>8
  <2> QED  BY <2>3, <2>9, PublishInd
<1>5. CASE HearOfLeader(m)
  <2>1. PICK t \in Terms : /\ t >= node[m].term
                           /\ elected[t] # NoLeader
                           /\ NodeUpdated(m, t, elected[t])
    BY <1>5 DEF HearOfLeader
  <2>2. PICK l \in Leaders : l = elected[t]
    BY <1>0
  <2>3. UNCHANGED elected /\ t > 0
    BY <1>0, <1>5, <2>1 DEF HearOfLeader
  <2> DEFINE n == [term |-> t, leader |-> l]
             e == LeaderUpdated(t, l)
  <2>4. /\ n \in [term : Terms, leader : Leaders]
        /\ n.term = t /\ n.leader = l
        /\ node' = [node EXCEPT ![m] = n]
        /\ Publish(m, e)
    BY <2>1, <2>2
  <2>5. e \in RaftEvents /\ e.term = t /\ e.leader = l
    BY <1>2
  <2>6. elected'[n.term] = n.leader
    BY <2>2, <2>3, <2>4
  <2> HIDE DEF n, e
  <2> QED  BY <1>1, <2>1, <2>3, <2>4, <2>5, <2>6, PublishInd
<1>6. CASE LoseLeader(m)
  <2>1. PICK t \in Terms : t = node[m].term
    BY <1>0
  <2>2. UNCHANGED elected /\ t > 0 /\ t >= node[m].term
    BY <1>0, <1>6, <2>1 DEF LoseLeader
  <2> DEFINE n == [term |-> t, leader |-> NoLeader]
             e == LeaderUpdated(t, NoLeader)
  <2>3. /\ n \in [term : Terms, leader : Leaders]
        /\ n.term = t /\ n.leader = NoLeader
        /\ node' = [node EXCEPT ![m] = n]
        /\ Publish(m, e)
    BY <1>6, <2>1 DEF LoseLeader
  <2>4. e \in RaftEvents /\ e.term = t /\ e.leader = NoLeader
    BY <1>2
  <2> HIDE DEF n, e
  <2> QED  BY <1>1, <2>2, <2>3, <2>4, PublishInd
<1>7. CASE NodeReady(m)
  <2>1. PICK n \in [term : Terms, leader : Leaders] : n = node[m]
    BY DEF TypeOK
  <2>2. UNCHANGED elected /\ node' = [node EXCEPT ![m] = n] /\ n.term >= node[m].term
    BY <1>0, <1>7, <2>1 DEF NodeReady, raftVars, TypeOK
  <2>3. MemberReady \in RaftEvents /\ Publish(m, MemberReady)
    BY <1>7 DEF NodeReady, RaftEvents
  <2>4. n.leader # NoLeader => elected'[n.term] = n.leader
    BY <1>0, <2>1, <2>2
  <2> QED  BY <1>1, <2>2, <2>3, <2>4, PublishInd
<1> QED  BY <1>3, <1>4, <1>5, <1>6, <1>7 DEF RaftStep

\* The election of a member whose object is not followed.
LEMMA ElectOtherInd ==
  ASSUME LeaderInv, NEW m \in Members \ Tracked, ElectOther(m)
  PROVE  LeaderInv'
<1> USE DEF LeaderInv, Terms, Leaders
<1>1. PICK t \in Terms \ {0} : elected[t] = NoLeader /\ elected' = [elected EXCEPT ![t] = m]
  BY DEF ElectOther
<1>2. UNCHANGED <<node, monitor, events, podReady, member, cache, fresh, inHand,
                  record, queued, reconcile>>
  BY DEF ElectOther, streamVars, objectVars, recordVars, reconcileVars
<1>3. elected' \in [Terms -> Leaders] /\ elected'[0] = NoLeader /\ ElectedGrows
  BY <1>1 DEF TypeOK, NodesSayTheTruth, ElectedGrows
<1>4. TypeOK'
  BY <1>2, <1>3 DEF TypeOK
<1>5. MemberLeaderOfTerm' /\ LeaderRoleIsElected'
  BY <1>2, <1>3, ElectionKeeps
<1>6. NodesSayTheTruth'
  <2>1. ASSUME NEW k \in Tracked
        PROVE  node'[k].leader # NoLeader => elected'[node'[k].term] = node'[k].leader
    <3>1. node[k].term \in Terms
      BY DEF TypeOK
    <3> QED  BY <1>2, <1>3, <3>1 DEF NodesSayTheTruth, ElectedGrows
  <2>2. ASSUME NEW k \in Tracked
        PROVE  Truthful(inHand[k])'
    BY <1>2, <1>3, TruthStays DEF NodesSayTheTruth, TypeOK, Truthful
  <2>3. ASSUME NEW k \in Tracked, NEW i \in 1..Len(events'[k])
        PROVE  Truthful(events[k][i])'
    BY <1>2, <1>3, TruthStays, UnderWayFields DEF NodesSayTheTruth, Truthful
  <2> QED  BY <1>3, <2>1, <2>2, <2>3 DEF NodesSayTheTruth
<1>7. EventsInOrder' /\ FreshCopiesAgree'
  BY <1>2 DEF EventsInOrder, NotBefore, NotAfter, FreshCopiesAgree
<1> QED  BY <1>3, <1>4, <1>5, <1>6, <1>7

\* The stream of a monitor: it opens or does not, breaks, or gives the monitor
\* the first event under way, which is the oldest one.
LEMMA StreamStepInd ==
  ASSUME LeaderInv, NEW m \in Tracked, StreamStep(m)
  PROVE  LeaderInv'
<1> USE DEF LeaderInv
<1>1. CASE Subscribe(m) \/ SubscribeFails(m)
  <2>1. /\ UNCHANGED <<elected, node, events, podReady, member, cache, fresh,
                       inHand, record, queued, reconcile>>
        /\ monitor' \in [Tracked -> {"off", "starting", "on"}]
    BY <1>1 DEF Subscribe, SubscribeFails, raftVars, objectVars, recordVars,
                reconcileVars, TypeOK
  <2> QED  BY <2>1 DEF TypeOK, MemberLeaderOfTerm, LeaderRoleIsElected,
                       NodesSayTheTruth, Truthful, EventsInOrder, NotBefore,
                       NotAfter, FreshCopiesAgree
<1>2. CASE StreamBreaks(m)
  <2>1. /\ UNCHANGED <<elected, node, podReady, member, cache, fresh, inHand,
                       record, queued, reconcile>>
        /\ monitor' \in [Tracked -> {"off", "starting", "on"}]
        /\ events' = [events EXCEPT ![m] = <<>>]
    BY <1>2 DEF StreamBreaks, raftVars, objectVars, recordVars, reconcileVars,
                TypeOK
  <2>2. TypeOK'
    BY <2>1 DEF TypeOK
  <2>3. \A k \in Tracked : events'[k] = IF k = m THEN <<>> ELSE events[k]
    BY <2>1 DEF TypeOK
  <2>4. NodesSayTheTruth' /\ EventsInOrder'
    BY <2>1, <2>3 DEF NodesSayTheTruth, Truthful, EventsInOrder, NotBefore, NotAfter
  <2> QED  BY <2>1, <2>2, <2>4 DEF MemberLeaderOfTerm, LeaderRoleIsElected,
                                   FreshCopiesAgree
<1>3. CASE Recv(m)
  <2>1. /\ UNCHANGED <<elected, node, monitor, podReady, member, cache, fresh,
                       record, queued, reconcile>>
        /\ events[m] # <<>>
        /\ inHand[m] = Nothing
        /\ inHand' = [inHand EXCEPT ![m] = Head(events[m])]
        /\ events' = [events EXCEPT ![m] = Tail(events[m])]
    BY <1>3 DEF Recv, raftVars, objectVars, reconcileVars
  <2>2. events[m] \in Seq(RaftEvents)
    BY DEF TypeOK
  <2>3. /\ Len(events[m]) \in Nat /\ Len(events[m]) > 0
        /\ Head(events[m]) = events[m][1]
        /\ Head(events[m]) \in RaftEvents
        /\ Tail(events[m]) \in Seq(RaftEvents)
        /\ Len(Tail(events[m])) = Len(events[m]) - 1
        /\ \A i \in 1..Len(events[m]) - 1 : Tail(events[m])[i] = events[m][i + 1]
    BY <2>1, <2>2
  <2>4. TypeOK'
    BY <2>1, <2>3 DEF TypeOK
  <2>5. /\ inHand'[m] = events[m][1]
        /\ events'[m] = Tail(events[m])
        /\ \A k \in Tracked : k # m => inHand'[k] = inHand[k] /\ events'[k] = events[k]
    BY <2>1, <2>3 DEF TypeOK
  <2>6. \A i \in 1..Len(events'[m]) :
          /\ i + 1 \in 1..Len(events[m])
          /\ events'[m][i] = events[m][i + 1]
    BY <2>3, <2>5
  <2>7. NodesSayTheTruth'
    <3> SUFFICES ASSUME NEW k \in Tracked
                 PROVE  (/\ Truthful(inHand[k])
                         /\ \A i \in 1..Len(events[k]) : Truthful(events[k][i]))'
      BY <2>1 DEF NodesSayTheTruth
    <3>1. CASE k = m
      <4>1. Truthful(inHand[k])'
        BY <3>1, <2>1, <2>3, <2>5 DEF NodesSayTheTruth, Truthful
      <4>2. ASSUME NEW i \in 1..Len(events'[k])
            PROVE  Truthful(events[k][i])'
        <5>1. i + 1 \in 1..Len(events[m]) /\ events'[k][i] = events[m][i + 1]
          BY <4>2, <3>1, <2>6
        <5>2. Truthful(events[m][i + 1])
          BY <5>1 DEF NodesSayTheTruth
        <5> QED  BY <2>1, <5>1, <5>2 DEF Truthful
      <4> QED  BY <4>1, <4>2
    <3>2. CASE k # m
      BY <3>2, <2>1, <2>5 DEF NodesSayTheTruth, Truthful
    <3> QED  BY <3>1, <3>2
  <2>8. EventsInOrder'
    <3> SUFFICES ASSUME NEW k \in Tracked
                 PROVE  (/\ member[k].term <= node[k].term
                         /\ NotBefore(member[k].term, inHand[k])
                         /\ NotAfter(node[k].term, inHand[k])
                         /\ \A i \in 1..Len(events[k]) :
                              /\ NotBefore(member[k].term, events[k][i])
                              /\ NotAfter(node[k].term, events[k][i])
                              /\ inHand[k] \notin {Nothing, MemberReady} =>
                                   NotBefore(inHand[k].term, events[k][i])
                              /\ events[k][i] \notin {Nothing, MemberReady} =>
                                   \A j \in i..Len(events[k]) :
                                     NotBefore(events[k][i].term, events[k][j]))'
      BY DEF EventsInOrder
    <3> USE DEF NotBefore, NotAfter
    <3>1. CASE k # m
      BY <3>1, <2>1, <2>5 DEF EventsInOrder
    <3>2. CASE k = m
      <4>1. (/\ member[k].term <= node[k].term
             /\ NotBefore(member[k].term, inHand[k])
             /\ NotAfter(node[k].term, inHand[k]))'
        BY <3>2, <2>1, <2>3, <2>5 DEF EventsInOrder
      <4>2. ASSUME NEW i \in 1..Len(events'[k])
            PROVE  (/\ NotBefore(member[k].term, events[k][i])
                    /\ NotAfter(node[k].term, events[k][i])
                    /\ inHand[k] \notin {Nothing, MemberReady} =>
                         NotBefore(inHand[k].term, events[k][i]))'
        <5>1. /\ 1 \in 1..Len(events[m])
              /\ i + 1 \in 1..Len(events[m])
              /\ events'[k][i] = events[m][i + 1]
          BY <4>2, <3>2, <2>3, <2>6
        <5>2. i + 1 \in 1..Len(events[m]) /\ 1 \in Nat /\ Len(events[m]) \in Nat
          BY <5>1, <2>3
        <5>3. /\ NotBefore(member[m].term, events[m][i + 1])
              /\ NotAfter(node[m].term, events[m][i + 1])
              /\ events[m][1] \notin {Nothing, MemberReady} =>
                   NotBefore(events[m][1].term, events[m][i + 1])
          BY <5>1, <5>2 DEF EventsInOrder
        <5> QED  BY <3>2, <5>1, <5>3, <2>1, <2>5
      <4>3. ASSUME NEW i \in 1..Len(events'[k]), NEW j \in i..Len(events'[k]),
                   events'[k][i] \notin {Nothing, MemberReady}
            PROVE  NotBefore(events[k][i].term, events[k][j])'
        <5>1. j \in 1..Len(events'[k]) /\ j + 1 \in i + 1..Len(events[m])
          BY <4>3, <3>2, <2>3, <2>5
        <5> QED  BY <3>2, <4>3, <5>1, <2>6 DEF EventsInOrder
      <4> QED  BY <4>1, <4>2, <4>3
    <3> QED  BY <3>1, <3>2
  <2> QED  BY <2>1, <2>4, <2>7, <2>8 DEF MemberLeaderOfTerm, LeaderRoleIsElected,
                                         FreshCopiesAgree
<1> QED  BY <1>1, <1>2, <1>3 DEF StreamStep

\* The status s is written from a copy that is fresh, or was there already: if s
\* is in order, so is everything else.
LEMMA WriteInd ==
  ASSUME LeaderInv, NEW m \in Tracked, NEW s \in Status, Write(m, s),
         UNCHANGED <<elected, node, monitor, events, podReady, cache>>,
         queued' \in [Tracked -> BOOLEAN],
         inHand' \in {inHand, [inHand EXCEPT ![m] = Nothing]},
         record' \in {record, [record EXCEPT ![m] = Nothing]},
         reconcile' \in {reconcile, [reconcile EXCEPT ![m] = Nothing]},
         inHand' = inHand \/ record'[m] = Nothing,
         s.leader # NoLeader => elected[s.term] = s.leader,
         s.role = "Leader" => s.leader = m /\ elected[s.term] = m,
         s.term <= node[m].term,
         NotBefore(s.term, inHand'[m]),
         \A i \in 1..Len(events[m]) : NotBefore(s.term, events[m][i])
  PROVE  LeaderInv'
<1> USE DEF LeaderInv
<1>1. /\ member' = [member EXCEPT ![m] = s]
      /\ \/ fresh' = [fresh EXCEPT ![m] = {}]
         \/ s = member[m] /\ fresh' = fresh
  BY DEF Write
<1>2. \A k \in Tracked :
        /\ member'[k] = IF k = m THEN s ELSE member[k]
        /\ inHand'[k] \in {inHand[k], Nothing}
        /\ record'[k] \in {record[k], Nothing}
        /\ reconcile'[k] \in {reconcile[k], Nothing}
        /\ k # m => inHand'[k] = inHand[k] /\ record'[k] = record[k]
  BY <1>1 DEF TypeOK
<1>3. TypeOK'
  <2>1. /\ member' \in [Tracked -> Status]
        /\ fresh' \in [Tracked -> SUBSET Copies]
    BY <1>1 DEF TypeOK
  <2>2. /\ inHand' \in [Tracked -> RaftEvents \cup {Nothing}]
        /\ record' \in [Tracked -> Status \cup {Nothing}]
        /\ reconcile' \in [Tracked -> [read : Status, state : States] \cup {Nothing}]
    BY DEF TypeOK
  <2>3. \A k \in Tracked : record'[k] # Nothing => inHand'[k] # Nothing
    BY <1>2 DEF TypeOK
  <2> QED  BY <2>1, <2>2, <2>3 DEF TypeOK
<1>4. MemberLeaderOfTerm' /\ LeaderRoleIsElected'
  BY <1>2 DEF MemberLeaderOfTerm, LeaderRoleIsElected
<1>5. NodesSayTheTruth'
  <2>1. \A k \in Tracked : Truthful(inHand[k])'
    BY <1>2 DEF NodesSayTheTruth, Truthful
  <2>2. \A k \in Tracked : \A i \in 1..Len(events'[k]) : Truthful(events[k][i])'
    BY DEF NodesSayTheTruth, Truthful
  <2> QED  BY <2>1, <2>2 DEF NodesSayTheTruth
<1>6. EventsInOrder'
  <2> SUFFICES ASSUME NEW k \in Tracked
               PROVE  (/\ member[k].term <= node[k].term
                       /\ NotBefore(member[k].term, inHand[k])
                       /\ NotAfter(node[k].term, inHand[k])
                       /\ \A i \in 1..Len(events[k]) :
                            /\ NotBefore(member[k].term, events[k][i])
                            /\ NotAfter(node[k].term, events[k][i])
                            /\ inHand[k] \notin {Nothing, MemberReady} =>
                                 NotBefore(inHand[k].term, events[k][i])
                            /\ events[k][i] \notin {Nothing, MemberReady} =>
                                 \A j \in i..Len(events[k]) :
                                   NotBefore(events[k][i].term, events[k][j]))'
    BY DEF EventsInOrder
  <2>1. CASE k = m
    BY <2>1, <1>2 DEF EventsInOrder, NotBefore, NotAfter
  <2>2. CASE k # m
    BY <2>2, <1>2 DEF EventsInOrder, NotBefore, NotAfter
  <2> QED  BY <2>1, <2>2
<1>7. FreshCopiesAgree'
  <2> SUFFICES ASSUME NEW k \in Tracked
               PROVE  (/\ "cache" \in fresh[k] => cache[k] = member[k]
                       /\ "record" \in fresh[k] /\ record[k] # Nothing =>
                            record[k] = member[k]
                       /\ "reconcile" \in fresh[k] /\ reconcile[k] # Nothing =>
                            reconcile[k].read = member[k])'
    BY DEF FreshCopiesAgree
  <2>1. CASE fresh'[k] = {}
    BY <2>1
  <2>2. CASE fresh'[k] = fresh[k] /\ member'[k] = member[k]
    BY <2>2, <1>2 DEF FreshCopiesAgree
  <2> QED  BY <1>1, <1>2, <2>1, <2>2 DEF TypeOK
<1> QED  BY <1>3, <1>4, <1>5, <1>6, <1>7

\* A status that an event is recorded in: the leader it shows is the one of its
\* term, since the event is true and not older than the status.
LEMMA UpdatedInOrder ==
  ASSUME LeaderInv, NEW m \in Tracked, inHand[m] # Nothing
  PROVE  LET s == Updated(m, member[m], inHand[m])
         IN  /\ s \in Status
             /\ s.leader # NoLeader => elected[s.term] = s.leader
             /\ s.role = "Leader" => s.leader = m /\ elected[s.term] = m
             /\ s.term <= node[m].term
             /\ \A i \in 1..Len(events[m]) : NotBefore(s.term, events[m][i])
             /\ \/ s.term = member[m].term /\ s.leader = member[m].leader
                \/ /\ s.term > 0 /\ s.term >= member[m].term
                   /\ s.leader \in {elected[s.term], NoLeader}
                   /\ s.leader = NoLeader => s.term > member[m].term
<1> DEFINE o == member[m]
           e == inHand[m]
           s == Updated(m, o, e)
<1> USE DEF LeaderInv
<1>1. /\ o \in Status /\ o.term \in Nat /\ node[m].term \in Nat
      /\ o.leader # NoLeader => elected[o.term] = o.leader
      /\ o.role = "Leader" => o.leader = m /\ elected[o.term] = m
      /\ o.term <= node[m].term
      /\ \A i \in 1..Len(events[m]) : NotBefore(o.term, events[m][i])
  BY DEF TypeOK, Status, Terms, MemberLeaderOfTerm, LeaderRoleIsElected, EventsInOrder
<1>2. CASE e = MemberReady
  <2>1. /\ s \in Status
        /\ s.term = o.term /\ s.leader = o.leader /\ s.role = o.role
    BY <1>1, <1>2 DEF Updated, Status, States
  <2> HIDE DEF s, o
  <2> QED  BY <1>1, <2>1 DEF s, o
<1>3. CASE e # MemberReady
  <2>1. /\ e.term \in Terms /\ e.leader \in Leaders
        /\ e.term > 0 /\ (e.leader # NoLeader => elected[e.term] = e.leader)
        /\ e.term >= o.term
        /\ e.term <= node[m].term
    BY <1>3, InHandFields DEF NodesSayTheTruth, Truthful, EventsInOrder, NotBefore, NotAfter
  <2>2. \A i \in 1..Len(events[m]) : NotBefore(e.term, events[m][i])
    BY <1>3 DEF EventsInOrder
  <2>3. s = [o EXCEPT !.term = IF e.term > @ THEN e.term ELSE @,
                      !.leader = IF e.leader # NoLeader THEN e.leader
                                 ELSE IF e.term > o.term THEN NoLeader ELSE @,
                      !.role = Role(m, o, e)]
    BY <1>3 DEF Updated
  <2>4. /\ s.term = e.term
        /\ s.leader = IF e.leader # NoLeader THEN e.leader
                      ELSE IF e.term > o.term THEN NoLeader ELSE o.leader
        /\ s.role = IF e.leader = m THEN "Leader" ELSE "Follower"
    BY <1>1, <2>1, <2>3 DEF Status, Role, Terms
  <2>5. s \in Status
    BY <1>1, <2>1, <2>3 DEF Status, Role, Roles, Terms, Leaders
  <2>6. e.term \in Nat /\ m # NoLeader
    BY <2>1 DEF Terms
  <2> HIDE DEF s, o, e
  <2>7. /\ s.leader # NoLeader => elected[s.term] = s.leader
        /\ s.role = "Leader" => s.leader = m /\ elected[s.term] = m
    BY <1>1, <2>1, <2>4, <2>6
  <2>8. \/ s.term = o.term /\ s.leader = o.leader
        \/ /\ s.term > 0 /\ s.term >= o.term
           /\ s.leader \in {elected[s.term], NoLeader}
           /\ s.leader = NoLeader => s.term > o.term
    BY <1>1, <2>1, <2>4, <2>6
  <2>9. s.term <= node[m].term /\ \A i \in 1..Len(events[m]) : NotBefore(s.term, events[m][i])
    BY <2>1, <2>2, <2>4
  <2> QED  BY <2>5, <2>7, <2>8, <2>9 DEF s, o, e
<1> QED  BY <1>2, <1>3

\* The monitor records the event in hand.
LEMMA RecordStepInd ==
  ASSUME LeaderInv, NEW m \in Tracked, RecordStep(m)
  PROVE  LeaderInv'
<1> USE DEF LeaderInv
<1>1. CASE RecordGet(m)
  <2>1. /\ UNCHANGED <<elected, node, monitor, events, podReady, member, cache,
                       inHand, queued, reconcile>>
        /\ inHand[m] # Nothing
        /\ record' = [record EXCEPT ![m] = cache[m]]
        /\ fresh' = [fresh EXCEPT ![m] = IF "cache" \in fresh[m]
                                           THEN fresh[m] \cup {"record"}
                                           ELSE fresh[m] \ {"record"}]
    BY <1>1 DEF RecordGet, ReadInto, raftVars, streamVars, reconcileVars
  <2>2. TypeOK'
    BY <2>1 DEF TypeOK, Copies
  <2>3. \A k \in Tracked :
          /\ k # m => fresh'[k] = fresh[k] /\ record'[k] = record[k]
          /\ record'[m] = cache[m]
          /\ "cache" \in fresh'[k] <=> "cache" \in fresh[k]
          /\ "reconcile" \in fresh'[k] <=> "reconcile" \in fresh[k]
          /\ "record" \in fresh'[m] <=> "cache" \in fresh[m]
    BY <2>1 DEF TypeOK
  <2>4. FreshCopiesAgree'
    BY <2>1, <2>3 DEF FreshCopiesAgree
  <2> QED  BY <2>1, <2>2, <2>4 DEF MemberLeaderOfTerm, LeaderRoleIsElected,
               NodesSayTheTruth, Truthful, EventsInOrder, NotBefore, NotAfter
<1>2. CASE RecordUpdate(m)
  <2>1. /\ UNCHANGED <<elected, node, monitor, events, podReady, cache, queued,
                       reconcile>>
        /\ record[m] # Nothing /\ "record" \in fresh[m]
        /\ Write(m, Updated(m, record[m], inHand[m]))
        /\ inHand' = [inHand EXCEPT ![m] = Nothing]
        /\ record' = [record EXCEPT ![m] = Nothing]
    BY <1>2 DEF RecordUpdate, raftVars, streamVars, reconcileVars
  <2>2. record[m] = member[m] /\ inHand[m] # Nothing
    BY <2>1 DEF FreshCopiesAgree, TypeOK
  <2>3. PICK s \in Status : s = Updated(m, member[m], inHand[m])
    BY <2>2, UpdatedInOrder
  <2>4. /\ Write(m, s)
        /\ s.leader # NoLeader => elected[s.term] = s.leader
        /\ s.role = "Leader" => s.leader = m /\ elected[s.term] = m
        /\ s.term <= node[m].term
        /\ \A i \in 1..Len(events[m]) : NotBefore(s.term, events[m][i])
    BY <2>1, <2>2, <2>3, UpdatedInOrder
  <2>5. /\ inHand'[m] = Nothing /\ record'[m] = Nothing
        /\ queued' \in [Tracked -> BOOLEAN]
    BY <2>1 DEF TypeOK
  <2>6. NotBefore(s.term, inHand'[m])
    BY <2>5 DEF NotBefore
  <2> QED  BY <2>1, <2>4, <2>5, <2>6, WriteInd
<1>3. CASE RecordConflict(m) \/ RecordGivesUp(m)
  <2>1. /\ UNCHANGED <<elected, node, monitor, events, podReady, member, cache,
                       fresh, queued, reconcile>>
        /\ \/ inHand' = inHand /\ record' = [record EXCEPT ![m] = Nothing]
           \/ /\ record' = record /\ record[m] = Nothing
              /\ inHand' = [inHand EXCEPT ![m] = Nothing]
    BY <1>3 DEF RecordConflict, RecordGivesUp, raftVars, streamVars, objectVars,
                reconcileVars
  <2>2. TypeOK'
    BY <2>1 DEF TypeOK
  <2>3. \A k \in Tracked : /\ inHand'[k] \in {inHand[k], Nothing}
                           /\ record'[k] \in {record[k], Nothing}
    BY <2>1 DEF TypeOK
  <2>4. NodesSayTheTruth'
    BY <2>1, <2>3 DEF NodesSayTheTruth, Truthful
  <2>5. EventsInOrder'
    BY <2>1, <2>3 DEF EventsInOrder, NotBefore, NotAfter
  <2>6. FreshCopiesAgree'
    BY <2>1, <2>3 DEF FreshCopiesAgree
  <2> QED  BY <2>1, <2>2, <2>4, <2>5, <2>6 DEF MemberLeaderOfTerm, LeaderRoleIsElected
<1> QED  BY <1>1, <1>2, <1>3 DEF RecordStep

\* The reconciler writes the State into a copy of the rest of the status.
LEMMA ReconcileStepInd ==
  ASSUME LeaderInv, NEW m \in Tracked, ReconcileStep(m)
  PROVE  LeaderInv'
<1> USE DEF LeaderInv
<1>1. CASE ReconcileGet(m)
  <2>1. /\ UNCHANGED <<elected, node, monitor, events, podReady, member, cache,
                       inHand, record>>
        /\ queued' = [queued EXCEPT ![m] = FALSE]
        /\ reconcile' = [reconcile EXCEPT ![m] = [read |-> cache[m], state |-> PodState(m)]]
        /\ fresh' = [fresh EXCEPT ![m] = IF "cache" \in fresh[m]
                                           THEN fresh[m] \cup {"reconcile"}
                                           ELSE fresh[m] \ {"reconcile"}]
    BY <1>1 DEF ReconcileGet, ReadInto, raftVars, streamVars, recordVars
  <2>2. TypeOK'
    <3>1. [read |-> cache[m], state |-> PodState(m)] \in [read : Status, state : States]
      BY DEF TypeOK, PodState, States
    <3> QED  BY <2>1, <3>1 DEF TypeOK, Copies
  <2>3. \A k \in Tracked :
          /\ k # m => fresh'[k] = fresh[k] /\ reconcile'[k] = reconcile[k]
          /\ reconcile'[m].read = cache[m]
          /\ "cache" \in fresh'[k] <=> "cache" \in fresh[k]
          /\ "record" \in fresh'[k] <=> "record" \in fresh[k]
          /\ "reconcile" \in fresh'[m] <=> "cache" \in fresh[m]
    BY <2>1 DEF TypeOK
  <2>4. FreshCopiesAgree'
    BY <2>1, <2>3 DEF FreshCopiesAgree
  <2> QED  BY <2>1, <2>2, <2>4 DEF MemberLeaderOfTerm, LeaderRoleIsElected,
               NodesSayTheTruth, Truthful, EventsInOrder, NotBefore, NotAfter
<1>2. CASE ReconcileStartMonitor(m)
  <2>1. /\ UNCHANGED <<elected, node, events, podReady, member, cache, fresh,
                       inHand, record, reconcile>>
        /\ queued' \in [Tracked -> BOOLEAN]
        /\ monitor' \in [Tracked -> {"off", "starting", "on"}]
    BY <1>2 DEF ReconcileStartMonitor, raftVars, objectVars, recordVars, TypeOK
  <2> QED  BY <2>1 DEF TypeOK, MemberLeaderOfTerm, LeaderRoleIsElected,
               NodesSayTheTruth, Truthful, EventsInOrder, NotBefore, NotAfter,
               FreshCopiesAgree
<1>3. CASE ReconcileUpdate(m) /\ "reconcile" \in fresh[m]
  <2>1. /\ UNCHANGED <<elected, node, monitor, events, podReady, cache, queued,
                       inHand, record>>
        /\ reconcile[m] # Nothing
        /\ Write(m, [reconcile[m].read EXCEPT !.state = reconcile[m].state])
        /\ reconcile' = [reconcile EXCEPT ![m] = Nothing]
    BY <1>3 DEF ReconcileUpdate, raftVars, streamVars, recordVars
  <2>2. /\ reconcile[m].read = member[m] /\ reconcile[m].state \in States
        /\ member[m] \in Status
    BY <1>3, <2>1 DEF FreshCopiesAgree, TypeOK
  <2>3. PICK s \in Status : s = [member[m] EXCEPT !.state = reconcile[m].state]
    BY <2>2 DEF Status
  <2>4. s.term = member[m].term /\ s.leader = member[m].leader /\ s.role = member[m].role
    BY <2>2, <2>3 DEF Status
  <2>5. /\ Write(m, s)
        /\ s.leader # NoLeader => elected[s.term] = s.leader
        /\ s.role = "Leader" => s.leader = m /\ elected[s.term] = m
        /\ s.term <= node[m].term
        /\ NotBefore(s.term, inHand[m])
        /\ \A i \in 1..Len(events[m]) : NotBefore(s.term, events[m][i])
    BY <2>1, <2>2, <2>3, <2>4 DEF MemberLeaderOfTerm, LeaderRoleIsElected, EventsInOrder
  <2>6. queued' \in [Tracked -> BOOLEAN]
    BY <2>1 DEF TypeOK
  <2> QED  BY <2>1, <2>5, <2>6, WriteInd
<1>4. CASE ReconcileUpdate(m) /\ "reconcile" \notin fresh[m]
  <2>1. /\ UNCHANGED <<elected, node, monitor, events, podReady, member, cache,
                       fresh, inHand, record>>
        /\ queued' = [queued EXCEPT ![m] = TRUE]
        /\ reconcile' = [reconcile EXCEPT ![m] = Nothing]
    BY <1>4 DEF ReconcileUpdate, raftVars, streamVars, recordVars
  <2>2. TypeOK'
    BY <2>1 DEF TypeOK
  <2>3. \A k \in Tracked : reconcile'[k] \in {reconcile[k], Nothing}
    BY <2>1 DEF TypeOK
  <2>4. FreshCopiesAgree'
    BY <2>1, <2>3 DEF FreshCopiesAgree
  <2> QED  BY <2>1, <2>2, <2>4 DEF MemberLeaderOfTerm, LeaderRoleIsElected,
               NodesSayTheTruth, Truthful, EventsInOrder, NotBefore, NotAfter
<1> QED  BY <1>1, <1>2, <1>3, <1>4 DEF ReconcileStep

\* The pod changes, or the cache catches up.
LEMMA OutsideStepInd ==
  ASSUME LeaderInv, NEW m \in Tracked, PodChanges(m) \/ SyncMember(m)
  PROVE  LeaderInv'
<1> USE DEF LeaderInv
<1>1. CASE PodChanges(m)
  <2>1. /\ UNCHANGED <<elected, node, monitor, events, member, cache, fresh,
                       inHand, record, reconcile>>
        /\ podReady' \in [Tracked -> BOOLEAN]
        /\ queued' \in [Tracked -> BOOLEAN]
    BY <1>1 DEF PodChanges, raftVars, streamVars, objectVars, recordVars, TypeOK
  <2> QED  BY <2>1 DEF TypeOK, MemberLeaderOfTerm, LeaderRoleIsElected,
               NodesSayTheTruth, Truthful, EventsInOrder, NotBefore, NotAfter,
               FreshCopiesAgree
<1>2. CASE SyncMember(m)
  <2>1. /\ UNCHANGED <<elected, node, monitor, events, podReady, member, inHand,
                       record, reconcile>>
        /\ cache' = [cache EXCEPT ![m] = member[m]]
        /\ fresh' = [fresh EXCEPT ![m] = fresh[m] \cup {"cache"}]
        /\ queued' = [queued EXCEPT ![m] = TRUE]
    BY <1>2 DEF SyncMember, raftVars, streamVars, recordVars
  <2>2. TypeOK'
    BY <2>1 DEF TypeOK, Copies
  <2>3. \A k \in Tracked :
          /\ k # m => fresh'[k] = fresh[k] /\ cache'[k] = cache[k]
          /\ cache'[m] = member[m]
          /\ "record" \in fresh'[k] <=> "record" \in fresh[k]
          /\ "reconcile" \in fresh'[k] <=> "reconcile" \in fresh[k]
    BY <2>1 DEF TypeOK
  <2>4. FreshCopiesAgree'
    BY <2>1, <2>3 DEF FreshCopiesAgree
  <2> QED  BY <2>1, <2>2, <2>4 DEF MemberLeaderOfTerm, LeaderRoleIsElected,
               NodesSayTheTruth, Truthful, EventsInOrder, NotBefore, NotAfter
<1> QED  BY <1>1, <1>2

-----------------------------------------------------------------------------
(* The State of a member.                                                  *)

\* What the State depends on, without the rest.
LEMMA StateFields ==
  ASSUME TypeOK, NEW m \in Tracked
  PROVE  /\ member[m] \in Status /\ cache[m] \in Status
         /\ PodState(m) \in States
         /\ reconcile[m] # Nothing =>
              reconcile[m].read \in Status /\ reconcile[m].state \in States
BY DEF TypeOK, PodState, States

\* A write of another status makes the cache stale, and one of the same status
\* keeps the State.
LEMMA WriteIsSeen ==
  ASSUME TypeOK, NEW m \in Tracked, NEW s \in Status, Write(m, s)
  PROVE  \A k \in Tracked : \/ "cache" \notin fresh'[k]
                            \/ /\ fresh'[k] = fresh[k] /\ member'[k] = member[k]
                               /\ k = m => s = member[m]
BY DEF Write, TypeOK

\* A step that leaves the State, the pod and the work queue of every member
\* alone.
LEMMA StateUntouched ==
  ASSUME WriteIsDue, RestShowsPod, UNCHANGED <<queued, reconcile, podReady>>,
         \A k \in Tracked : \/ "cache" \notin fresh'[k]
                            \/ /\ "cache" \in fresh[k]
                               /\ member'[k].state = member[k].state
  PROVE  WriteIsDue' /\ RestShowsPod'
BY DEF WriteIsDue, RestShowsPod, PodState

\* Every step keeps the State due: it is right, or somebody is going to look.
LEMMA StateStep ==
  ASSUME IndInv, [Next]_vars
  PROVE  WriteIsDue' /\ RestShowsPod'
<1> USE DEF IndInv
<1>0. TypeOK /\ FreshCopiesAgree
  BY DEF LeaderInv
<1>1. ASSUME NEW m \in Tracked, RaftStep(m) \/ StreamStep(m)
      PROVE  WriteIsDue' /\ RestShowsPod'
  <2>1. UNCHANGED <<queued, reconcile, podReady, fresh, member>>
    BY <1>1 DEF RaftStep, NewTerm, Elect, HearOfLeader, LoseLeader, NodeReady,
         NodeUpdated, Publish, StreamStep, Subscribe, SubscribeFails,
         StreamBreaks, Recv, objectVars, reconcileVars
  <2> QED  BY <2>1, StateUntouched
<1>2. ASSUME NEW m \in Members \ Tracked, ElectOther(m)
      PROVE  WriteIsDue' /\ RestShowsPod'
  <2>1. UNCHANGED <<queued, reconcile, podReady, fresh, member>>
    BY <1>2 DEF ElectOther, objectVars, reconcileVars
  <2> QED  BY <2>1, StateUntouched
<1>3. ASSUME NEW m \in Tracked, RecordGet(m) \/ RecordConflict(m) \/ RecordGivesUp(m)
      PROVE  WriteIsDue' /\ RestShowsPod'
  <2>1. UNCHANGED <<queued, reconcile, podReady, member>>
    BY <1>3 DEF RecordGet, RecordConflict, RecordGivesUp, objectVars, reconcileVars
  <2>2. \A k \in Tracked : "cache" \in fresh'[k] => "cache" \in fresh[k]
    <3>1. CASE RecordGet(m)
      <4>1. fresh' = [fresh EXCEPT ![m] = IF "cache" \in fresh[m]
                                            THEN fresh[m] \cup {"record"}
                                            ELSE fresh[m] \ {"record"}]
        BY <3>1 DEF RecordGet, ReadInto
      <4> QED  BY <1>0, <4>1 DEF TypeOK
    <3>2. CASE RecordConflict(m) \/ RecordGivesUp(m)
      BY <3>2 DEF RecordConflict, RecordGivesUp, objectVars
    <3> QED  BY <1>3, <3>1, <3>2
  <2> QED  BY <2>1, <2>2, StateUntouched
<1>4. ASSUME NEW m \in Tracked, RecordUpdate(m)
      PROVE  WriteIsDue' /\ RestShowsPod'
  <2>1. UNCHANGED <<queued, reconcile, podReady>>
    BY <1>4 DEF RecordUpdate, reconcileVars
  <2>2. record[m] = member[m] /\ inHand[m] # Nothing
    BY <1>0, <1>4 DEF RecordUpdate, FreshCopiesAgree, TypeOK
  <2>3. PICK s \in Status : s = Updated(m, member[m], inHand[m])
    BY <2>2, UpdatedInOrder
  <2>4. Write(m, s)
    BY <1>4, <2>2, <2>3 DEF RecordUpdate
  <2> QED  BY <1>0, <2>1, <2>4, WriteIsSeen, StateUntouched
<1>5. ASSUME NEW m \in Tracked, PodChanges(m)
      PROVE  WriteIsDue' /\ RestShowsPod'
  <2>1. /\ UNCHANGED <<member, fresh, reconcile>>
        /\ queued' = [queued EXCEPT ![m] = TRUE]
        /\ podReady' = [podReady EXCEPT ![m] = ~podReady[m]]
    BY <1>5 DEF PodChanges, objectVars
  <2>2. queued'[m] /\ \A k \in Tracked \ {m} : /\ queued'[k] = queued[k]
                                               /\ podReady'[k] = podReady[k]
    BY <1>0, <2>1 DEF TypeOK
  <2> QED  BY <2>1, <2>2 DEF WriteIsDue, RestShowsPod, PodState
<1>6. ASSUME NEW m \in Tracked, SyncMember(m)
      PROVE  WriteIsDue' /\ RestShowsPod'
  <2>1. /\ UNCHANGED <<member, podReady, reconcile>>
        /\ queued' = [queued EXCEPT ![m] = TRUE]
        /\ fresh' = [fresh EXCEPT ![m] = fresh[m] \cup {"cache"}]
    BY <1>6 DEF SyncMember
  <2>2. queued'[m] /\ \A k \in Tracked \ {m} : /\ queued'[k] = queued[k]
                                               /\ fresh'[k] = fresh[k]
    BY <1>0, <2>1 DEF TypeOK
  <2> QED  BY <2>1, <2>2 DEF WriteIsDue, RestShowsPod, PodState
<1>7. ASSUME NEW m \in Tracked, ReconcileGet(m)
      PROVE  WriteIsDue' /\ RestShowsPod'
  <2>1. /\ UNCHANGED <<member, podReady>>
        /\ cache[m].state # PodState(m)
        /\ queued' = [queued EXCEPT ![m] = FALSE]
        /\ reconcile' = [reconcile EXCEPT ![m] = [read |-> cache[m], state |-> PodState(m)]]
        /\ ReadInto("reconcile", m)
    BY <1>7 DEF ReconcileGet
  <2>2. /\ reconcile'[m] # Nothing
        /\ reconcile'[m].state = PodState(m)
        /\ reconcile'[m].state # reconcile'[m].read.state
    BY <1>0, <2>1 DEF TypeOK, Nothing
  <2>3. \A k \in Tracked \ {m} : /\ reconcile'[k] = reconcile[k]
                                 /\ queued'[k] = queued[k]
                                 /\ fresh'[k] = fresh[k]
    BY <1>0, <2>1 DEF TypeOK, ReadInto
  <2> QED  BY <2>1, <2>2, <2>3 DEF WriteIsDue, RestShowsPod, PodState
<1>8. ASSUME NEW m \in Tracked, ReconcileStartMonitor(m)
      PROVE  WriteIsDue' /\ RestShowsPod'
  <2>1. /\ UNCHANGED <<member, fresh, podReady, reconcile>>
        /\ cache[m].state = PodState(m)
        /\ reconcile[m] = Nothing
        /\ queued' = [queued EXCEPT ![m] = FALSE]
    BY <1>8 DEF ReconcileStartMonitor, objectVars
  <2>2. "cache" \in fresh[m] => member[m].state = PodState(m)
    BY <1>0, <2>1 DEF FreshCopiesAgree
  <2>3. \A k \in Tracked \ {m} : queued'[k] = queued[k]
    BY <1>0, <2>1 DEF TypeOK
  <2> QED  BY <2>1, <2>2, <2>3 DEF WriteIsDue, RestShowsPod, PodState
<1>9. ASSUME NEW m \in Tracked, ReconcileUpdate(m)
      PROVE  WriteIsDue' /\ RestShowsPod'
  <2>1. /\ UNCHANGED podReady
        /\ reconcile[m] # Nothing
        /\ reconcile' = [reconcile EXCEPT ![m] = Nothing]
    BY <1>9 DEF ReconcileUpdate
  <2>2. reconcile'[m] = Nothing /\ \A k \in Tracked \ {m} : reconcile'[k] = reconcile[k]
    BY <1>0, <2>1 DEF TypeOK
  <2>3. CASE "reconcile" \in fresh[m]
    <3>1. UNCHANGED queued
      BY <1>9, <2>3 DEF ReconcileUpdate
    <3>2. reconcile[m].read = member[m] /\ reconcile[m].state # member[m].state
      BY <1>0, <2>1, <2>3 DEF FreshCopiesAgree, WriteIsDue
    <3>3. PICK s \in Status : s = [member[m] EXCEPT !.state = reconcile[m].state]
      BY <1>0, <2>1, StateFields DEF Status
    <3>4. Write(m, s) /\ s # member[m]
      <4>1. s.state = reconcile[m].state
        BY <1>0, <3>3, StateFields DEF Status
      <4> QED  BY <1>9, <2>3, <3>2, <3>3, <4>1 DEF ReconcileUpdate
    <3>5. \A k \in Tracked : \/ "cache" \notin fresh'[k]
                             \/ k # m /\ fresh'[k] = fresh[k] /\ member'[k] = member[k]
      BY <1>0, <3>3, <3>4, WriteIsSeen
    <3> QED  BY <2>1, <2>2, <3>1, <3>5 DEF WriteIsDue, RestShowsPod, PodState
  <2>4. CASE "reconcile" \notin fresh[m]
    <3>1. queued' = [queued EXCEPT ![m] = TRUE] /\ UNCHANGED <<member, fresh>>
      BY <1>9, <2>4 DEF ReconcileUpdate
    <3>2. queued'[m] /\ \A k \in Tracked \ {m} : queued'[k] = queued[k]
      BY <1>0, <3>1 DEF TypeOK
    <3> QED  BY <2>1, <2>2, <3>1, <3>2 DEF WriteIsDue, RestShowsPod, PodState
  <2> QED  BY <2>3, <2>4
<1>10. CASE UNCHANGED vars
  BY <1>10, StateUntouched DEF vars, objectVars, reconcileVars
<1> QED  BY <1>1, <1>2, <1>3, <1>4, <1>5, <1>6, <1>7, <1>8, <1>9, <1>10
         DEF Next, RecordStep, ReconcileStep

-----------------------------------------------------------------------------
(* The invariant.                                                          *)

\* True events in order, updates of fresh copies only, and States that are
\* right or going to be looked at, at all times.
THEOREM Inductive == Spec => []IndInv
<1>1. LeaderInv /\ [Next]_vars => LeaderInv'
  <2> SUFFICES ASSUME LeaderInv, [Next]_vars
               PROVE  LeaderInv'
    OBVIOUS
  <2>1. CASE UNCHANGED vars
    BY <2>1 DEF vars, raftVars, streamVars, objectVars, recordVars,
         reconcileVars, LeaderInv, TypeOK, MemberLeaderOfTerm,
         LeaderRoleIsElected, NodesSayTheTruth, Truthful, EventsInOrder,
         NotBefore, NotAfter, FreshCopiesAgree
  <2> QED  BY <2>1, ElectOtherInd, RaftStepInd, StreamStepInd, RecordStepInd,
              ReconcileStepInd, OutsideStepInd DEF Next
<1>2. Init => WriteIsDue /\ RestShowsPod
  BY DEF Init, WriteIsDue, RestShowsPod
<1>3. IndInv /\ [Next]_vars => IndInv'
  BY <1>1, StateStep DEF IndInv
<1>4. Init => IndInv
  BY <1>2, InitInd DEF IndInv
<1> QED  BY <1>3, <1>4, PTL DEF Spec

-----------------------------------------------------------------------------
(* What follows from IndInv.                                               *)

\* The state is of the expected shape; a copy is made for an event in hand.
THEOREM TypeCorrect == Spec => []TypeOK
<1>1. IndInv => TypeOK
  BY DEF IndInv, LeaderInv
<1> QED  BY <1>1, Inductive, PTL

\* A member shows a leader beside the term it was elected in, whatever events
\* were lost.
THEOREM LeaderOfTerm == Spec => []MemberLeaderOfTerm
<1>1. IndInv => MemberLeaderOfTerm
  BY DEF IndInv, LeaderInv
<1> QED  BY <1>1, Inductive, PTL

\* A member that shows the role Leader was elected in the term it shows.
THEOREM RoleIsElected == Spec => []LeaderRoleIsElected
<1>1. IndInv => LeaderRoleIsElected
  BY DEF IndInv, LeaderInv
<1> QED  BY <1>1, Inductive, PTL

\* A member whose controller has nothing left to do shows the State of its pod.
THEOREM StateAtRest == Spec => []RestShowsPod
<1>1. IndInv => RestShowsPod
  BY DEF IndInv
<1> QED  BY <1>1, Inductive, PTL

-----------------------------------------------------------------------------
(* MemberStatus implements MemberObjects.                                  *)

\* A step that elects nobody and writes no object is a stutter.
LEMMA ShownUnchanged ==
  ASSUME UNCHANGED <<elected, member>>
  PROVE  UNCHANGED Objects!vars
BY DEF Objects!vars, shown

\* An election, whoever is elected, is one of MemberObjects.
LEMMA ElectionShown ==
  ASSUME LeaderInv,
         NEW m \in Members, NEW t \in Terms, t > 0, elected[t] = NoLeader,
         elected' = [elected EXCEPT ![t] = m], UNCHANGED member
  PROVE  Objects!Next
<1>1. UNCHANGED shown
  BY DEF shown
<1>2. Objects!Elected(t, m)
  BY <1>1 DEF Objects!Elected
<1> QED  BY <1>2 DEF Objects!Next, Objects!Members, Objects!Terms, Members, Terms

\* The write of a status that keeps term and leader is a stutter; any other is a
\* Show of that member.
LEMMA WriteShown ==
  ASSUME LeaderInv, NEW m \in Tracked, NEW s \in Status, Write(m, s),
         UNCHANGED elected,
         \/ s.term = member[m].term /\ s.leader = member[m].leader
         \/ /\ s.term > 0 /\ s.term >= member[m].term
            /\ s.leader \in {elected[s.term], NoLeader}
            /\ s.leader = NoLeader => s.term > member[m].term
  PROVE  [Objects!Next]_(Objects!vars)
<1>1. /\ m \in Members
      /\ \A k \in Tracked : member'[k] = IF k = m THEN s ELSE member[k]
  BY DEF Write, LeaderInv, TypeOK
<1>2. /\ shown[m] = [term |-> member[m].term, leader |-> member[m].leader]
      /\ shown' = [shown EXCEPT ![m] = [term |-> s.term, leader |-> s.leader]]
  BY <1>1 DEF shown
<1>3. CASE s.term = member[m].term /\ s.leader = member[m].leader
  <2>1. shown' = shown
    BY <1>1, <1>2, <1>3 DEF shown
  <2> QED  BY <2>1 DEF Objects!vars
<1>4. CASE /\ s.term > 0 /\ s.term >= member[m].term
           /\ s.leader \in {elected[s.term], NoLeader}
           /\ s.leader = NoLeader => s.term > member[m].term
  <2>1. s.term \in Terms
    BY DEF Status
  <2>2. shown[m].term = member[m].term
    BY <1>2
  <2>3. \E l \in {elected[s.term], NoLeader} :
          /\ l = NoLeader => s.term > shown[m].term
          /\ shown' = [shown EXCEPT ![m] = [term |-> s.term, leader |-> l]]
    BY <1>2, <1>4, <2>2
  <2>4. Objects!Show(m, s.term)
    BY <1>4, <2>2, <2>3 DEF Objects!Show
  <2> QED  BY <1>1, <2>1, <2>4 DEF Objects!Next, Objects!Members, Objects!Terms, Members, Terms
<1> QED  BY <1>3, <1>4

\* What the objects show at first, and every step of theirs, is as MemberObjects
\* has it.
THEOREM ImplementsObjects == Spec => ObjectsSpec
<1>1. Init => Objects!Init
  <2> SUFFICES ASSUME Init PROVE Objects!Init
    OBVIOUS
  <2>1. shown = [m \in Members |-> [term |-> 0, leader |-> NoLeader]]
    BY DEF Init, shown
  <2> QED  BY <2>1 DEF Init, Objects!Init, Objects!Terms, Objects!Members,
                       Objects!Blank, Terms, Members
<1>2. LeaderInv /\ [Next]_vars => [Objects!Next]_(Objects!vars)
  <2> SUFFICES ASSUME LeaderInv, [Next]_vars
               PROVE  [Objects!Next]_(Objects!vars)
    OBVIOUS
  <2>1. ASSUME NEW m \in Members \ Tracked, ElectOther(m)
        PROVE  Objects!Next
    <3>1. PICK t \in Terms \ {0} : elected[t] = NoLeader /\ elected' = [elected EXCEPT ![t] = m]
      BY <2>1 DEF ElectOther
    <3>2. t > 0 /\ UNCHANGED member
      BY <2>1 DEF ElectOther, objectVars, Terms
    <3> QED  BY <3>1, <3>2, ElectionShown
  <2>2. ASSUME NEW m \in Tracked, Elect(m)
        PROVE  Objects!Next
    <3>1. PICK t \in Terms : t = node[m].term
      BY DEF LeaderInv, TypeOK
    <3> QED  BY <2>2, <3>1, ElectionShown DEF Elect, NodeUpdated, Publish, objectVars
  <2>3. ASSUME NEW m \in Tracked, RecordUpdate(m)
        PROVE  [Objects!Next]_(Objects!vars)
    <3>1. record[m] = member[m] /\ inHand[m] # Nothing
      BY <2>3 DEF RecordUpdate, LeaderInv, FreshCopiesAgree, TypeOK
    <3>2. PICK s \in Status : s = Updated(m, member[m], inHand[m])
      BY <3>1, UpdatedInOrder
    <3>3. Write(m, s) /\ UNCHANGED elected
      BY <2>3, <3>1, <3>2 DEF RecordUpdate, raftVars
    <3> QED  BY <3>1, <3>2, <3>3, UpdatedInOrder, WriteShown
  <2>4. ASSUME NEW m \in Tracked, ReconcileUpdate(m)
        PROVE  [Objects!Next]_(Objects!vars)
    <3>1. CASE "reconcile" \in fresh[m]
      <4>1. /\ reconcile[m].read = member[m] /\ reconcile[m].state \in States
            /\ member[m] \in Status
        BY <2>4, <3>1 DEF ReconcileUpdate, LeaderInv, FreshCopiesAgree, TypeOK
      <4>2. PICK s \in Status : s = [member[m] EXCEPT !.state = reconcile[m].state]
        BY <4>1 DEF Status
      <4>3. s.term = member[m].term /\ s.leader = member[m].leader
        BY <4>1, <4>2 DEF Status
      <4>4. Write(m, s) /\ UNCHANGED elected
        BY <2>4, <3>1, <4>1, <4>2 DEF ReconcileUpdate, raftVars
      <4> QED  BY <4>3, <4>4, WriteShown
    <3>2. CASE "reconcile" \notin fresh[m]
      BY <2>4, <3>2, ShownUnchanged DEF ReconcileUpdate, raftVars
    <3> QED  BY <3>1, <3>2
  <2>5. ASSUME NEW m \in Tracked,
               \/ NewTerm(m) \/ HearOfLeader(m) \/ LoseLeader(m) \/ NodeReady(m)
               \/ StreamStep(m) \/ RecordGet(m) \/ RecordConflict(m)
               \/ RecordGivesUp(m) \/ ReconcileGet(m)
               \/ ReconcileStartMonitor(m) \/ PodChanges(m) \/ SyncMember(m)
        PROVE  UNCHANGED Objects!vars
    <3>1. UNCHANGED <<elected, member>>
      BY <2>5 DEF NewTerm, HearOfLeader, LoseLeader, NodeReady, NodeUpdated,
           Publish, StreamStep, Subscribe, SubscribeFails, StreamBreaks, Recv,
           RecordGet, RecordConflict, RecordGivesUp, ReconcileGet,
           ReconcileStartMonitor, PodChanges, SyncMember, raftVars, objectVars
    <3> QED  BY <3>1, ShownUnchanged
  <2>6. CASE UNCHANGED vars
    BY <2>6, ShownUnchanged DEF vars, raftVars, objectVars
  <2> QED  BY <2>1, <2>2, <2>3, <2>4, <2>5, <2>6
           DEF Next, RaftStep, RecordStep, ReconcileStep
<1>3. IndInv => LeaderInv
  BY DEF IndInv
<1> QED  BY <1>1, <1>2, <1>3, Inductive, PTL DEF Spec, ObjectsSpec, Objects!Spec
=============================================================================
