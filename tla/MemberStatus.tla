---------------------------- MODULE MemberStatus ----------------------------
(***************************************************************************)
(* How the status of the RaftMember objects follows the terms and leaders  *)
(* of one Raft group: pkg/controller/storage/v2beta2/member.go.            *)
(*                                                                         *)
(* Each member has a monitor goroutine that reads the events of its node   *)
(* from a stream and records them in the status of the RaftMember; the     *)
(* member reconciler writes the same object when the pod's readiness       *)
(* changes.  Both read the object from a cache that lags behind and write  *)
(* it with an update that is refused if the object has changed since.      *)
(*                                                                         *)
(* Raft, the API server, its cache and the gRPC streams are external.  Of  *)
(* the fourteen kinds of events the two that write the modelled part of    *)
(* the status are here: LeaderUpdated and MemberReady.                     *)
(* A copy of an object is fresh while it has the object's resource version;*)
(* the API server accepts an update of a fresh copy only.                  *)
(***************************************************************************)
EXTENDS Naturals, Sequences

CONSTANTS NumMembers,   \* members of the group, all of them voting
          NoLeader,     \* a nil Leader; the leader "" of an event
          Tracked,      \* the members whose objects the model follows; the
                        \* others are only there to be elected
          MaxTerm,      \* bound on the terms
          MaxQueue      \* bound on the events of a node that are under way

Members == 0..NumMembers - 1

ASSUME MemberAssumption == /\ NumMembers \in Nat \ {0}
                           /\ Tracked \subseteq Members
                           /\ MaxTerm \in Nat
                           /\ MaxQueue \in Nat
                           /\ NoLeader \notin Members

Terms   == 0..MaxTerm           \* 0: a nil Term
Leaders == Members \cup {NoLeader}

VARIABLES
  elected,     \* elected[t]: the leader Raft elected in term t
  node,        \* node[m]: the [term, leader] m's Raft node knows
  monitor,     \* monitor[m]: the monitor of m is off, starting or on
  events,      \* events[m]: the events under way to it
  podReady,    \* podReady[m]: m's pod is not shown as unready
  member,      \* member[m]: the status of the RaftMember
  cache,       \* cache[m]: what the controller reads of it
  fresh,       \* fresh[m]: the copies of it with the current version
  queued,      \* queued[m]: the RaftMember is in the work queue
  inHand,      \* inHand[m]: the event the monitor is recording, or Nothing
  record,      \* record[m]: the copy it is about to write, or Nothing
  reconcile    \* reconcile[m]: what the member reconciler has read and is
               \* about to write, or Nothing

raftVars      == <<elected, node>>
streamVars    == <<monitor, events>>
recordVars    == <<inHand, record>>
reconcileVars == <<queued, reconcile>>
objectVars    == <<member, cache, fresh>>
vars == <<raftVars, streamVars, podReady, objectVars, recordVars, reconcileVars>>

Roles  == {"none", "Leader", "Follower"}
States == {"none", "Ready", "NotReady"}
Status == [term : Terms, leader : Leaders, role : Roles, state : States]

LeaderUpdated(t, l) == [type |-> "LeaderUpdated", term |-> t, leader |-> l]
MemberReady         == [type |-> "MemberReady"]
RaftEvents == {LeaderUpdated(t, l) : t \in Terms, l \in Leaders}
                \cup {MemberReady}

Copies  == {"cache", "record", "reconcile"}
Nothing == <<>>

Init ==
  /\ elected = [t \in Terms |-> NoLeader]
  /\ node = [m \in Tracked |-> [term |-> 0, leader |-> NoLeader]]
  /\ monitor = [m \in Tracked |-> "off"]
  /\ events = [m \in Tracked |-> <<>>]
  /\ podReady = [m \in Tracked |-> FALSE]
  /\ member = [m \in Tracked |-> [term |-> 0, leader |-> NoLeader,
                                  role |-> "none", state |-> "none"]]
  /\ cache = member
  /\ fresh = [m \in Tracked |-> {"cache"}]
  /\ queued = [m \in Tracked |-> TRUE]
  /\ inHand = [m \in Tracked |-> Nothing]
  /\ record = [m \in Tracked |-> Nothing]
  /\ reconcile = [m \in Tracked |-> Nothing]

-----------------------------------------------------------------------------
(* The API server and the cache of the client (external).                  *)

\* The status s is written, and no copy is fresh any more, unless s is what
\* was there (a time stamp, which has seconds, may make it another one).
Write(m, s) ==
  /\ member' = [member EXCEPT ![m] = s]
  /\ \/ fresh' = [fresh EXCEPT ![m] = {}]
     \/ s = member[m] /\ UNCHANGED fresh

\* The object is read from the cache into a copy.
ReadInto(copy, m) ==
  fresh' = [fresh EXCEPT ![m] = IF "cache" \in @ THEN @ \cup {copy}
                                                  ELSE @ \ {copy}]

\* The cache catches up at some time, and the watch of the members puts the
\* member into the work queue.
SyncMember(m) ==
  /\ "cache" \notin fresh[m]
  /\ cache' = [cache EXCEPT ![m] = member[m]]
  /\ fresh' = [fresh EXCEPT ![m] = @ \cup {"cache"}]
  /\ queued' = [queued EXCEPT ![m] = TRUE]
  /\ UNCHANGED <<raftVars, streamVars, podReady, member, recordVars, reconcile>>

-----------------------------------------------------------------------------
(* Raft (external).  A node calls LeaderUpdated when its term or its       *)
(* leader changes and NodeReady when it has started; the event reaches the *)
(* monitor if it is subscribed, and is lost if it is not: Subscribe sends  *)
(* no event from before the call.                                          *)

Publish(m, e) ==
  /\ monitor[m] = "on" => Len(events[m]) < MaxQueue
  /\ events' = IF monitor[m] = "on" THEN [events EXCEPT ![m] = Append(@, e)]
                                    ELSE events
  /\ UNCHANGED <<monitor, podReady, objectVars, recordVars, reconcileVars>>

NodeUpdated(m, t, l) ==
  /\ node' = [node EXCEPT ![m] = [term |-> t, leader |-> l]]
  /\ Publish(m, LeaderUpdated(t, l))

\* A new term begins on m, without a leader as yet.
NewTerm(m) ==
  /\ \E t \in Terms : t > node[m].term /\ NodeUpdated(m, t, NoLeader)
  /\ UNCHANGED elected

\* m is elected in its term.
Elect(m) ==
  LET t == node[m].term IN
  /\ t > 0
  /\ elected[t] = NoLeader
  /\ elected' = [elected EXCEPT ![t] = m]
  /\ NodeUpdated(m, t, m)

\* A member whose object is not followed is elected.
ElectOther(m) ==
  /\ \E t \in Terms \ {0} : /\ elected[t] = NoLeader
                            /\ elected' = [elected EXCEPT ![t] = m]
  /\ UNCHANGED <<node, streamVars, podReady, objectVars, recordVars,
                 reconcileVars>>

\* m hears of the leader of its term, or of a later one.
HearOfLeader(m) ==
  /\ \E t \in Terms : /\ t >= node[m].term
                      /\ elected[t] # NoLeader
                      /\ node[m] # [term |-> t, leader |-> elected[t]]
                      /\ NodeUpdated(m, t, elected[t])
  /\ UNCHANGED elected

\* m has no leader any more in its term: CheckQuorum makes it step down, or
\* its node restarts.
LoseLeader(m) ==
  /\ node[m].leader # NoLeader
  /\ NodeUpdated(m, node[m].term, NoLeader)
  /\ UNCHANGED elected

NodeReady(m) == Publish(m, MemberReady) /\ UNCHANGED raftVars

-----------------------------------------------------------------------------
(* The monitor of a member, startMonitoringPod: it receives an event,      *)
(* records it, and only then receives the next one.                        *)

\* The stream is opened.  A monitor that starts again first ends the event it
\* has in hand.
Subscribe(m) ==
  /\ monitor[m] = "starting"
  /\ inHand[m] = Nothing
  /\ monitor' = [monitor EXCEPT ![m] = "on"]
  /\ UNCHANGED <<raftVars, events, podReady, objectVars, recordVars,
                 reconcileVars>>

\* The pod is not found, or it cannot be dialled: the monitor gives up, until
\* the reconciler starts it again.
SubscribeFails(m) ==
  /\ monitor[m] = "starting"
  /\ inHand[m] = Nothing
  /\ monitor' = [monitor EXCEPT ![m] = "off"]
  /\ UNCHANGED <<raftVars, events, podReady, objectVars, recordVars,
                 reconcileVars>>

\* The stream breaks (external): what is under way in it is lost, the event in
\* hand is still recorded, and the monitor starts itself again.
StreamBreaks(m) ==
  /\ monitor[m] = "on"
  /\ monitor' = [monitor EXCEPT ![m] = "starting"]
  /\ events' = [events EXCEPT ![m] = <<>>]
  /\ UNCHANGED <<raftVars, podReady, objectVars, recordVars, reconcileVars>>

Recv(m) ==
  /\ events[m] # <<>>
  /\ inHand[m] = Nothing
  /\ inHand' = [inHand EXCEPT ![m] = Head(events[m])]
  /\ events' = [events EXCEPT ![m] = Tail(@)]
  /\ UNCHANGED <<raftVars, monitor, podReady, objectVars, record,
                 reconcileVars>>

\* recordLeaderUpdated, recordPartitionReady: each round of backoff.Retry gets
\* the member.
RecordGet(m) ==
  /\ inHand[m] # Nothing
  /\ record[m] = Nothing
  /\ record' = [record EXCEPT ![m] = cache[m]]
  /\ ReadInto("record", m)
  /\ UNCHANGED <<raftVars, streamVars, podReady, member, cache, inHand,
                 reconcileVars>>

\* Mutant: an event without a leader leaves the role as it is.
RoleKept(m, s, e) == IF e.leader = m THEN "Leader"
                     ELSE IF e.leader = NoLeader THEN s.role
                     ELSE "Follower"

\* The member leads if the event names its pod.
Role(m, s, e) == IF e.leader = m THEN "Leader" ELSE "Follower"

\* Mutant: a newer term does not clear the leader.
UpdatedKeepLeader(m, s, e) ==
  IF e = MemberReady THEN [s EXCEPT !.state = "Ready"]
  ELSE [s EXCEPT !.term = IF e.term > @ THEN e.term ELSE @,
                 !.leader = IF e.leader # NoLeader THEN e.leader ELSE @,
                 !.role = Role(m, s, e)]

\* updateMemberStatus: the term only grows, and a newer one clears the leader;
\* a leader, if the event has one, and the role are taken as they come.
Updated(m, s, e) ==
  IF e = MemberReady THEN [s EXCEPT !.state = "Ready"]
  ELSE [s EXCEPT !.term = IF e.term > @ THEN e.term ELSE @,
                 !.leader = IF e.leader # NoLeader THEN e.leader
                            ELSE IF e.term > s.term THEN NoLeader ELSE @,
                 !.role = Role(m, s, e)]

\* The update goes through, and the event is done with.
RecordUpdate(m) ==
  /\ record[m] # Nothing
  /\ "record" \in fresh[m]
  /\ Write(m, Updated(m, record[m], inHand[m]))
  /\ inHand' = [inHand EXCEPT ![m] = Nothing]
  /\ record' = [record EXCEPT ![m] = Nothing]
  /\ UNCHANGED <<raftVars, streamVars, podReady, cache, reconcileVars>>

\* The update is refused: the next round gets the member again.
RecordConflict(m) ==
  /\ record[m] # Nothing
  /\ "record" \notin fresh[m]
  /\ record' = [record EXCEPT ![m] = Nothing]
  /\ UNCHANGED <<raftVars, streamVars, podReady, objectVars, inHand,
                 reconcileVars>>

\* Mutant: the backoff ends a round that is half done.
RecordGivesUpHalfway(m) ==
  /\ inHand[m] # Nothing
  /\ inHand' = [inHand EXCEPT ![m] = Nothing]
  /\ UNCHANGED <<raftVars, streamVars, podReady, objectVars, record,
                 reconcileVars>>

\* The rounds have taken longer than the backoff allows: the event is lost.
RecordGivesUp(m) ==
  /\ inHand[m] # Nothing
  /\ record[m] = Nothing
  /\ inHand' = [inHand EXCEPT ![m] = Nothing]
  /\ UNCHANGED <<raftVars, streamVars, podReady, objectVars, record,
                 reconcileVars>>

-----------------------------------------------------------------------------
(* RaftMemberReconciler                                                    *)

PodState(m) == IF podReady[m] THEN "Ready" ELSE "NotReady"

\* Mutant: the pods are not watched.
PodChangesUnwatched(m) ==
  /\ podReady' = [podReady EXCEPT ![m] = ~@]
  /\ UNCHANGED <<raftVars, streamVars, objectVars, recordVars, reconcileVars>>

\* The Ready condition of the pod changes (external); mapPodMember puts the
\* member into the work queue.
PodChanges(m) ==
  /\ podReady' = [podReady EXCEPT ![m] = ~@]
  /\ queued' = [queued EXCEPT ![m] = TRUE]
  /\ UNCHANGED <<raftVars, streamVars, objectVars, recordVars, reconcile>>

\* reconcileStatus gets the member and its pod, and goes on to write the
\* member if the state is another one.
ReconcileGet(m) ==
  /\ queued[m]
  /\ reconcile[m] = Nothing
  /\ cache[m].state # PodState(m)
  /\ queued' = [queued EXCEPT ![m] = FALSE]
  /\ reconcile' = [reconcile EXCEPT ![m] =
                     [read |-> cache[m], state |-> PodState(m)]]
  /\ ReadInto("reconcile", m)
  /\ UNCHANGED <<raftVars, streamVars, podReady, member, cache, recordVars>>

\* If it is not, it starts the monitor, unless there is one.
ReconcileStartMonitor(m) ==
  /\ queued[m]
  /\ reconcile[m] = Nothing
  /\ cache[m].state = PodState(m)
  /\ queued' = [queued EXCEPT ![m] = FALSE]
  /\ monitor' = [monitor EXCEPT ![m] = IF @ = "off" THEN "starting" ELSE @]
  /\ UNCHANGED <<raftVars, events, podReady, objectVars, recordVars, reconcile>>

\* Mutant: the whole status is written back although the object has changed.
ReconcileOverwrites(m) ==
  /\ reconcile[m] # Nothing
  /\ Write(m, [reconcile[m].read EXCEPT !.state = reconcile[m].state])
  /\ reconcile' = [reconcile EXCEPT ![m] = Nothing]
  /\ UNCHANGED <<raftVars, streamVars, podReady, cache, recordVars, queued>>

\* The update; if it is refused, the request goes back into the work queue.
ReconcileUpdate(m) ==
  /\ reconcile[m] # Nothing
  /\ IF "reconcile" \in fresh[m]
       THEN /\ Write(m, [reconcile[m].read EXCEPT !.state = reconcile[m].state])
            /\ UNCHANGED queued
       ELSE /\ queued' = [queued EXCEPT ![m] = TRUE]
            /\ UNCHANGED <<member, fresh>>
  /\ reconcile' = [reconcile EXCEPT ![m] = Nothing]
  /\ UNCHANGED <<raftVars, streamVars, podReady, cache, recordVars>>

-----------------------------------------------------------------------------

RaftStep(m)   == \/ NewTerm(m) \/ Elect(m) \/ HearOfLeader(m) \/ LoseLeader(m)
                 \/ NodeReady(m)
StreamStep(m) == \/ Subscribe(m) \/ SubscribeFails(m) \/ StreamBreaks(m)
                 \/ Recv(m)
RecordStep(m) == \/ RecordGet(m) \/ RecordUpdate(m)
                 \/ RecordConflict(m) \/ RecordGivesUp(m)
ReconcileStep(m) == \/ ReconcileGet(m) \/ ReconcileStartMonitor(m)
                    \/ ReconcileUpdate(m)

Next == \/ \E m \in Members \ Tracked : ElectOther(m)
        \/ \E m \in Tracked : \/ RaftStep(m)
                              \/ StreamStep(m)
                              \/ RecordStep(m)
                              \/ PodChanges(m)
                              \/ ReconcileStep(m)
                              \/ SyncMember(m)

Spec == Init /\ [][Next]_vars

\* The cache catches up and the controller works; nothing is assumed of Raft,
\* the pods and the streams.
Fairness == \A m \in Tracked : /\ WF_vars(SyncMember(m))
                               /\ WF_vars(ReconcileStep(m))
                               /\ WF_vars(RecordStep(m))

FairSpec == Spec /\ Fairness

-----------------------------------------------------------------------------
(* Properties                                                              *)

\* The state is of the expected shape; a copy is made for an event in hand.
TypeOK ==
  /\ elected \in [Terms -> Leaders]
  /\ node \in [Tracked -> [term : Terms, leader : Leaders]]
  /\ monitor \in [Tracked -> {"off", "starting", "on"}]
  /\ events \in [Tracked -> Seq(RaftEvents)]
  /\ podReady \in [Tracked -> BOOLEAN]
  /\ member \in [Tracked -> Status]
  /\ cache \in [Tracked -> Status]
  /\ fresh \in [Tracked -> SUBSET Copies]
  /\ queued \in [Tracked -> BOOLEAN]
  /\ inHand \in [Tracked -> RaftEvents \cup {Nothing}]
  /\ record \in [Tracked -> Status \cup {Nothing}]
  /\ reconcile \in [Tracked -> [read : Status, state : States] \cup {Nothing}]
  /\ \A m \in Tracked : record[m] # Nothing => inHand[m] # Nothing

\* "The current leader on the member" is the leader of "the current term on
\* the member", whatever events were lost.
MemberLeaderOfTerm ==
  \A m \in Tracked : member[m].leader # NoLeader =>
    elected[member[m].term] = member[m].leader

\* A member that shows the role Leader shows a term in which it was elected,
\* so that at most one does in a term.
LeaderRoleIsElected ==
  \A m \in Tracked : member[m].role = "Leader" =>
    /\ member[m].leader = m
    /\ elected[member[m].term] = m

\* What an event says is true: its leader is the one of its term.
Truthful(e) ==
  e \notin {Nothing, MemberReady} =>
    e.term > 0 /\ (e.leader # NoLeader => elected[e.term] = e.leader)

\* Term 0 has no leader, and what the nodes know and say is true.
NodesSayTheTruth ==
  /\ elected[0] = NoLeader
  /\ \A m \in Tracked :
       /\ node[m].leader # NoLeader => elected[node[m].term] = node[m].leader
       /\ Truthful(inHand[m])
       /\ \A i \in 1..Len(events[m]) : Truthful(events[m][i])

NotBefore(t, e) == e \notin {Nothing, MemberReady} => e.term >= t
NotAfter(t, e)  == e \notin {Nothing, MemberReady} => e.term <= t

\* Events are lost, but never overtake each other: the term of the object, of
\* the event in hand, of those under way and of the node are in this order.
EventsInOrder ==
  \A m \in Tracked :
    /\ member[m].term <= node[m].term
    /\ NotBefore(member[m].term, inHand[m])
    /\ NotAfter(node[m].term, inHand[m])
    /\ \A i \in 1..Len(events[m]) :
         /\ NotBefore(member[m].term, events[m][i])
         /\ NotAfter(node[m].term, events[m][i])
         /\ inHand[m] \notin {Nothing, MemberReady} =>
              NotBefore(inHand[m].term, events[m][i])
         /\ events[m][i] \notin {Nothing, MemberReady} =>
              \A j \in i..Len(events[m]) : NotBefore(events[m][i].term, events[m][j])

\* A fresh copy is what the object is.
FreshCopiesAgree ==
  \A m \in Tracked :
    /\ "cache" \in fresh[m] => cache[m] = member[m]
    /\ "record" \in fresh[m] /\ record[m] # Nothing => record[m] = member[m]
    /\ "reconcile" \in fresh[m] /\ reconcile[m] # Nothing =>
         reconcile[m].read = member[m]

\* Everything that keeps a leader beside its own term, in one invariant: true
\* events that stay in order, and updates of fresh copies only.
LeaderInv == /\ TypeOK
             /\ MemberLeaderOfTerm
             /\ LeaderRoleIsElected
             /\ NodesSayTheTruth
             /\ EventsInOrder
             /\ FreshCopiesAgree

\* A reconciler that goes on to write the State writes another one than it has
\* read, and the right one unless the member is in the work queue again.
WriteIsDue ==
  \A m \in Tracked : reconcile[m] # Nothing =>
    /\ reconcile[m].state # reconcile[m].read.state
    /\ queued[m] \/ reconcile[m].state = PodState(m)

\* Whenever the controller has nothing left to do with a member, its State is
\* that of its pod: the member is not queued, the cache has it as it is, and
\* the reconciler is not about to write it.
RestShowsPod ==
  \A m \in Tracked :
    ~queued[m] /\ "cache" \in fresh[m] /\ reconcile[m] = Nothing
      => member[m].state = PodState(m)

IndInv == LeaderInv /\ WriteIsDue /\ RestShowsPod

\* The objects keep what MemberObjects promises to their readers: with two
\* writers per object, stale caches and streams that break, no term goes back
\* and no leader appears beside another's term.
shown == [m \in Members |-> IF m \in Tracked
            THEN [term |-> member[m].term, leader |-> member[m].leader]
            ELSE [term |-> 0, leader |-> NoLeader]]

Objects == INSTANCE MemberObjects

ObjectsSpec == Objects!Spec

\* When the pod and the events have come to rest the State of the member is
\* that of its pod, although MemberReady events set it without a look at the
\* pod and the two writers refuse each other's updates.
StateFollowsPod ==
  \A m \in Tracked, ready \in BOOLEAN :
    <>[](podReady[m] = ready /\ inHand[m] = Nothing)
      => <>[](member[m].state = IF ready THEN "Ready" ELSE "NotReady")
=============================================================================
