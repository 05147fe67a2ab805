---------------------------- MODULE Controllers ----------------------------
(***************************************************************************)
(* How the four controllers of pkg/controller/storage/v2beta2 turn one     *)
(* MultiRaftProtocol into a running cluster, and report whether it is      *)
(* ready: protocol.go, cluster.go, group.go and member.go.                 *)
(*                                                                         *)
(* protocol -> cluster -> groups -> members: the controller of an object   *)
(* creates what the object owns, one object in a pass, and computes its    *)
(* State.  A pass is run for an object that is in the work queue, and what *)
(* puts it there is a change of the object itself or of an object it owns; *)
(* the pods put the members there that live on them, and nothing else.     *)
(* Every ten hours, however, the informers resync: all objects count as    *)
(* changed.                                                                *)
(*                                                                         *)
(* A pass is one step: it reads objects and pods from a cache that lags    *)
(* behind, and ends with at most one write to the object it is for, which  *)
(* is refused if the cached copy of it is not fresh.  A pass that ends in  *)
(* an error changes nothing and is run again.  Terms, leaders, Replicas    *)
(* and Partitions in the status are left out, and so are read replicas     *)
(* (readReplicas is 0); MemberStatus and GroupStatus have the terms and    *)
(* leaders, with the steps inside their passes.                            *)
(***************************************************************************)
EXTENDS Naturals

CONSTANTS NumGroups,    \* spec.groups
          NumMembers,   \* spec.raft.quorumSize
          NumReplicas,  \* spec.replicas
          MaxPodChanges \* bound on the changes of pods

ASSUME SpecAssumption == /\ NumGroups \in Nat \ {0}
                         /\ NumMembers \in Nat \ {0}
                         /\ NumReplicas \in Nat \ {0}
                         /\ MaxPodChanges \in Nat

Protocol     == <<"protocol">>
Cluster      == <<"cluster">>
Group(g)     == <<"group", g>>
Member(g, j) == <<"member", g, j>>

GroupIDs  == 1..NumGroups
MemberIDs == 0..NumMembers - 1
Pods      == 0..NumReplicas - 1
Groups    == {Group(g) : g \in GroupIDs}
Members   == {Member(g, j) : g \in GroupIDs, j \in MemberIDs}
Objects   == {Protocol, Cluster} \cup Groups \cup Members

Owner(o) == CASE o = Cluster     -> Protocol
              [] o \in Groups    -> Cluster
              [] o \in Members   -> Group(o[2])

\* The pod that runs member j of group g, and those that run group g.
PodOf(g, j)  == (NumMembers * g + j) % NumReplicas
PodsOf(g)    == {PodOf(g, j) : j \in MemberIDs}

\* The ConfigMap, the StatefulSet and the two Services, in this order.
Deployed    == 4
StatefulSet == 2

VARIABLES
  obj,       \* obj[o]: the State of o in the API server, if o exists
  cache,     \* cache[o]: what the controllers read of it
  fresh,     \* fresh[o]: the cached copy is of the current version
  queued,    \* queued[o]: o is in the work queue of its controller
  deployed,  \* how many of the cluster's four other objects exist
  pod,       \* pod[p]: the Ready condition of the pod, as in the cache
  podChanges \* how many changes of pods there have been, for the bound

pods == <<pod, podChanges>>
vars == <<obj, cache, fresh, queued, deployed, pods>>

Absent == "absent"
States == {"none", "Ready", "NotReady"}     \* "none": as it was created
Exists(c, S) == \A o \in S : c[o] # Absent

Init ==
  /\ obj = [o \in Objects |-> IF o = Protocol THEN "none" ELSE Absent]
  /\ cache = [o \in Objects |-> Absent]
  /\ fresh = [o \in Objects |-> o # Protocol]
  /\ queued = [o \in Objects |-> FALSE]
  /\ deployed = 0
  /\ pod = [p \in Pods |-> Absent]
  /\ podChanges = 0

-----------------------------------------------------------------------------
(* The watches.                                                            *)

\* Mutant: an object that changes wakes its own controller only.
WokenSelf(o) == {o}

\* Every controller watches its own objects and those they own.
Woken(o) == {o} \cup (IF o = Protocol THEN {} ELSE {Owner(o)})

\* The change of an object arrives.
Sync(o) ==
  /\ ~fresh[o]
  /\ cache' = [cache EXCEPT ![o] = obj[o]]
  /\ fresh' = [fresh EXCEPT ![o] = TRUE]
  /\ queued' = [x \in Objects |-> queued[x] \/ x \in Woken(o)]
  /\ UNCHANGED <<obj, deployed, pods>>

\* mapPodMember: the members that live on a pod.
MembersOn(p) == {o \in Members : PodOf(o[2], o[3]) = p /\ cache[o] # Absent}

\* The informers hand over what they have in their caches once more.  Nobody
\* knows when (external: controller-runtime's SyncPeriod, which main.go:68
\* leaves at ten hours).
Resync ==
  /\ \E S \in {Woken(o) : o \in {x \in Objects : cache[x] # Absent}}
             \cup {MembersOn(p) : p \in {q \in Pods : pod[q] # Absent}} :
       queued' = [x \in Objects |-> queued[x] \/ x \in S]
  /\ UNCHANGED <<obj, cache, fresh, deployed, pods>>

\* A pod is created, its Ready condition appears and changes, it is deleted
\* and created again (external).
PodChanges(p) ==
  /\ deployed >= StatefulSet
  /\ podChanges < MaxPodChanges
  /\ podChanges' = podChanges + 1
  /\ \E s \in {Absent, "unknown", "NotReady", "Ready"} \ {pod[p]} :
       /\ s = "unknown" => pod[p] = Absent
       /\ pod' = [pod EXCEPT ![p] = s]
  /\ queued' = [x \in Objects |-> queued[x] \/ x \in MembersOn(p)]
  /\ UNCHANGED <<obj, cache, fresh, deployed>>

\* The controllers are restarted: all objects are listed and put into the work
\* queues anew.
Restart ==
  /\ cache' = obj
  /\ fresh' = [o \in Objects |-> TRUE]
  /\ queued' = [o \in Objects |-> obj[o] # Absent]
  /\ UNCHANGED <<obj, deployed, pods>>

\* The monitor of a member writes its status: another part of it, or that the
\* node of the member is ready.
MemberWritten(o) ==
  /\ obj[o] \in {"Ready", "NotReady"}
  /\ obj' \in {obj, [obj EXCEPT ![o] = "Ready"]}
  /\ fresh' = [fresh EXCEPT ![o] = FALSE]
  /\ UNCHANGED <<cache, queued, deployed, pods>>

-----------------------------------------------------------------------------
(* Parts of a pass for o.                                                  *)

Running(o) == queued[o] /\ cache[o] # Absent

\* The object is created.  If the answer is lost the pass is run again.
Create(o, new) ==
  /\ cache[new] = Absent
  /\ obj[new] = Absent
  /\ obj' = [obj EXCEPT ![new] = "none"]
  /\ fresh' = [fresh EXCEPT ![new] = FALSE]
  /\ queued' \in {queued, [queued EXCEPT ![o] = FALSE]}
  /\ UNCHANGED <<cache, pods>>

\* Nothing is to be written.
Done(o) ==
  /\ queued' = [queued EXCEPT ![o] = FALSE]
  /\ UNCHANGED <<obj, cache, fresh, pods>>

\* The status is written; a refused update changes nothing.
Update(o, state) ==
  /\ fresh[o]
  /\ obj' = [obj EXCEPT ![o] = state]
  /\ fresh' = [fresh EXCEPT ![o] = FALSE]
  /\ queued' = [queued EXCEPT ![o] = FALSE]
  /\ UNCHANGED <<cache, pods>>

AllReady(S) == IF \A p \in S : pod[p] = "Ready" THEN "Ready" ELSE "NotReady"

-----------------------------------------------------------------------------
(* MultiRaftProtocolReconciler                                             *)

ReconcileCluster ==
  /\ Running(Protocol)
  /\ Create(Protocol, Cluster)
  /\ UNCHANGED deployed

\* The schema of the CRD has no State of a protocol
\* (deploy/atomix-raft-storage.yaml:100-152), so the API server drops the one
\* that is written: a protocol has no status or a "blank" one, with Replicas
\* and Partitions only.  As soon as the cluster has a State the protocol's is
\* always another one and every pass writes; if the Replicas and Partitions
\* are what they were that changes nothing, but is refused like any update of
\* a stale copy.
ProtocolStatus ==
  /\ Running(Protocol)
  /\ cache[Cluster] # Absent
  /\ \/ Update(Protocol, "blank")
     \/ /\ cache[Protocol] = "blank"
        /\ cache[Cluster] # "none" => fresh[Protocol]
        /\ Done(Protocol)
  /\ UNCHANGED deployed

-----------------------------------------------------------------------------
(* MultiRaftClusterReconciler                                              *)

\* reconcileGroups: the first group that is missing.
ReconcileGroup(g) ==
  /\ Running(Cluster)
  /\ \A i \in 1..g - 1 : cache[Group(i)] # Absent
  /\ Create(Cluster, Group(g))
  /\ UNCHANGED deployed

\* The pass creates what is missing of the four objects, one after the other,
\* and goes on to the status if it gets to the end.
Deploy ==
  /\ Running(Cluster)
  /\ Exists(cache, Groups)
  /\ \E k \in deployed + 1..Deployed : deployed' = k
  /\ UNCHANGED <<obj, cache, fresh, queued, pods>>

\* getProtocolReplicas, getProtocolPartitions: the pods of the partitions are
\* among the replicas.
ClusterState == AllReady(Pods)

ClusterStatus ==
  /\ Running(Cluster)
  /\ Exists(cache, Groups)
  /\ deployed = Deployed
  /\ \/ cache[Cluster] = ClusterState /\ Done(Cluster)
     \/ cache[Cluster] # ClusterState /\ Update(Cluster, ClusterState)
  /\ UNCHANGED deployed

-----------------------------------------------------------------------------
(* RaftGroupReconciler                                                     *)

\* reconcileMembers: the first member that is missing.
ReconcileMember(g, j) ==
  /\ Running(Group(g))
  /\ cache[Cluster] # Absent
  /\ \A i \in 0..j - 1 : cache[Member(g, i)] # Absent
  /\ Create(Group(g), Member(g, j))
  /\ UNCHANGED deployed

\* Mutant: the state is that of the members and not of their pods.
GroupStateOfMembers(g) ==
  IF \A j \in MemberIDs : cache[Member(g, j)] = "Ready" THEN "Ready" ELSE "NotReady"

\* getReplicas
GroupState(g) == AllReady(PodsOf(g))

\* An update without another State is one of the term or the leader.
GroupStatus(g) ==
  /\ Running(Group(g))
  /\ cache[Cluster] # Absent
  /\ \A j \in MemberIDs : cache[Member(g, j)] # Absent
  /\ \/ cache[Group(g)] = GroupState(g) /\ Done(Group(g))
     \/ Update(Group(g), GroupState(g))
  /\ UNCHANGED deployed

-----------------------------------------------------------------------------
(* RaftMemberReconciler                                                    *)

\* A pod that has no Ready condition yet counts as ready.
MemberState(p) == IF pod[p] = "NotReady" THEN "NotReady" ELSE "Ready"

\* (Without a pod the pass ends in an error; if the State is right it starts
\* the monitor.)
MemberStatus(g, j) ==
  LET state == MemberState(PodOf(g, j)) IN
  /\ Running(Member(g, j))
  /\ pod[PodOf(g, j)] # Absent
  /\ \/ cache[Member(g, j)] = state /\ Done(Member(g, j))
     \/ cache[Member(g, j)] # state /\ Update(Member(g, j), state)
  /\ UNCHANGED deployed

-----------------------------------------------------------------------------

ProtocolPass == ReconcileCluster \/ ProtocolStatus
ClusterPass  == (\E g \in GroupIDs : ReconcileGroup(g)) \/ Deploy \/ ClusterStatus
GroupPass(g) == (\E j \in MemberIDs : ReconcileMember(g, j)) \/ GroupStatus(g)

Next == \/ \E o \in Objects : Sync(o)
        \/ Resync
        \/ \E p \in Pods : PodChanges(p)
        \/ Restart
        \/ \E o \in Members : MemberWritten(o)
        \/ ProtocolPass
        \/ ClusterPass
        \/ \E g \in GroupIDs : GroupPass(g)
        \/ \E g \in GroupIDs, j \in MemberIDs : MemberStatus(g, j)

Spec == Init /\ [][Next]_vars

\* Changes arrive and the controllers work through their queues; nothing is
\* assumed of the pods, the events of Raft, resyncs and restarts.
Fairness ==
  /\ \A o \in Objects : WF_vars(Sync(o))
  /\ WF_vars(ProtocolPass)
  /\ WF_vars(ClusterPass)
  /\ \A g \in GroupIDs : WF_vars(GroupPass(g))
  /\ \A g \in GroupIDs, j \in MemberIDs : WF_vars(MemberStatus(g, j))

FairSpec == Spec /\ Fairness

-----------------------------------------------------------------------------
(* Properties                                                              *)

\* The state is of the expected shape; what exists is owned by what exists,
\* the controllers know nothing that does not exist, and a copy that counts
\* as fresh is.
TypeOK ==
  /\ obj \in [Objects -> States \cup {"blank", Absent}]
  /\ cache \in [Objects -> States \cup {"blank", Absent}]
  /\ fresh \in [Objects -> BOOLEAN]
  /\ queued \in [Objects -> BOOLEAN]
  /\ deployed \in 0..Deployed
  /\ pod \in [Pods -> {Absent, "unknown", "NotReady", "Ready"}]
  /\ podChanges \in 0..MaxPodChanges
  /\ \A o \in Objects : /\ obj[o] = Absent => cache[o] = Absent
                        /\ o # Protocol /\ obj[o] # Absent => obj[Owner(o)] # Absent
                        /\ fresh[o] => cache[o] = obj[o]

\* Groups and members come one after the other, the other objects after all
\* groups, and pods after the StatefulSet.
CreatedInOrder ==
  /\ \A g \in GroupIDs : obj[Group(g)] # Absent =>
       \A i \in 1..g - 1 : obj[Group(i)] # Absent
  /\ \A g \in GroupIDs, j \in MemberIDs : obj[Member(g, j)] # Absent =>
       \A i \in 0..j - 1 : obj[Member(g, i)] # Absent
  /\ deployed > 0 => Exists(obj, Groups)
  /\ \A p \in Pods : pod[p] # Absent => deployed >= StatefulSet

\* Nothing that is still to be created is forgotten: the controller that
\* creates it is to run, or the change that wakes it is on its way.
NoneForgotten ==
  /\ obj[Protocol] # Absent
  /\ obj[Cluster] = Absent => queued[Protocol] \/ ~fresh[Protocol]
  /\ obj[Cluster] # Absent /\ ~(Exists(obj, Groups) /\ deployed = Deployed) =>
       queued[Cluster] \/ ~fresh[Cluster] \/ \E g \in GroupIDs : ~fresh[Group(g)]
  /\ \A g \in GroupIDs :
       obj[Group(g)] # Absent /\ (\E j \in MemberIDs : obj[Member(g, j)] = Absent) =>
         \/ queued[Group(g)] \/ ~fresh[Group(g)]
         \/ \E j \in MemberIDs : ~fresh[Member(g, j)]

\* A protocol whose cluster is there gets a status, or its controller will
\* see that it has none; the State in it is never stored.
StatusNotForgotten ==
  /\ obj[Protocol] \in {"none", "blank"}
  /\ obj[Protocol] = "none" /\ obj[Cluster] # Absent =>
       queued[Protocol] \/ ~fresh[Protocol] \/ ~fresh[Cluster]

\* The inductive invariant.
IndInv == TypeOK /\ CreatedInOrder /\ NoneForgotten /\ StatusNotForgotten

\* When no change is on its way and all work queues are empty, everything has
\* been created, and the protocol has its status.
AtRest == \A o \in Objects : fresh[o] /\ ~queued[o]

Complete == /\ Exists(obj, Objects)
            /\ deployed = Deployed
            /\ obj[Protocol] = "blank"

RestIsComplete == AtRest => Complete

\* Everything is created in the end and the protocol has its status, and so it
\* stays, although a pass creates one object and counts on the watch of what it
\* has created to be run again.  No resync is needed for it.
Provisioned == <>[]Complete

\* Once the pods are at rest a group comes to show whether its pods are ready
\* if its controller is run again and again, and the cluster whether all are
\* ready if its controller is, whatever was read from stale copies before.
StatesRefreshed ==
  \A s \in {"Ready", "NotReady"} :
    /\ \A g \in GroupIDs :
         <>[](AllReady(PodsOf(g)) = s) /\ []<>queued[Group(g)] => <>[](obj[Group(g)] = s)
    /\ <>[](AllReady(Pods) = s) /\ []<>queued[Cluster] => <>[](obj[Cluster] = s)

\* The watch of the groups in cluster.go is there, so its comment, to "watch
\* for changes to secondary resource StatefulSet", and NotReady means that a
\* cluster is "not yet ready": when the controllers have nothing left to do, a
\* cluster whose pods are all ready should say so.  This does NOT hold: no
\* watch wakes the controller of the cluster when a pod becomes ready, and the
\* cluster shows NotReady until the next resync or another change of a group.
ReadyIsReported == AtRest /\ AllReady(Pods) = "Ready" => obj[Cluster] = "Ready"
=============================================================================
