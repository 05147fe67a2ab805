----------------------------- MODULE Deployment -----------------------------
(***************************************************************************)
(* From the spec of a MultiRaftCluster to the nodes that run it: who runs  *)
(* which group, and with what configuration.                               *)
(*                                                                         *)
(* The place of a member is computed four times: for the file that the     *)
(* nodes read (newNodeConfigString), for the RaftMember object, for the    *)
(* State of the group and for the status of the protocol.  The Raft        *)
(* configuration is written by encoding/json and read by jsonpb.           *)
(*                                                                         *)
(* Pod i of the cluster is represented by i, and an optional value by a    *)
(* set with at most one member.                                            *)
(***************************************************************************)
EXTENDS Naturals, FiniteSets, Functions

CONSTANTS NoPod,      \* the empty name
          Clusters    \* specs of clusters

(* A spec has the fields replicas, groups, quorum and readReplicas,        *)
(* heartbeat and election (microseconds), threshold and retain.            *)

ASSUME ClustersAssumption ==
  /\ NoPod \notin Nat
  /\ \A c \in Clusters :
       /\ c.replicas \in Nat /\ c.groups \in Nat
       /\ \A option \in {c.quorum, c.readReplicas, c.heartbeat, c.election,
                         c.threshold, c.retain} :
            option = {} \/ \E x \in option : x \in Nat /\ option = {x}

-----------------------------------------------------------------------------
(* The spec and its defaults.                                              *)

Or(option, default) == IF option = {} THEN default ELSE CHOOSE x \in option : TRUE

NumReplicas(c)   == IF c.replicas = 0 THEN 1 ELSE c.replicas
NumPartitions(c) == IF c.groups = 0 THEN 1 ELSE c.groups
NumMembers(c)    == Or(c.quorum, NumReplicas(c))
NumROMembers(c)  == Or(c.readReplicas, 0)

-----------------------------------------------------------------------------
(* Where the members are.                                                  *)

\* Mutant: every group starts at the same pod.
RingFromFirst(c, g, j) == j % NumReplicas(c)

\* The j-th replica of group g, counted from 0 and around the pods.
Ring(c, g, j) == ((NumMembers(c) + NumROMembers(c)) * g + j) % NumReplicas(c)

\* Mutant: partitions are numbered from 0.
PartitionConfig0(c, g) ==
  [replicas |-> [j \in 1..NumMembers(c) |->
                   IF j <= NumROMembers(c)
                     THEN Ring(c, g - 1, NumMembers(c) + j - 1)
                     ELSE Ring(c, g - 1, j - 1)],
   readReplicas |-> [j \in 1..NumROMembers(c) |-> NoPod]]

\* The entry of group g in the file of the nodes.  The read-only members are
\* written over the first members, and their own list keeps empty names.
PartitionConfig(c, g) ==
  [replicas |-> [j \in 1..NumMembers(c) |->
                   IF j <= NumROMembers(c)
                     THEN Ring(c, g, NumMembers(c) + j - 1)
                     ELSE Ring(c, g, j - 1)],
   readReplicas |-> [j \in 1..NumROMembers(c) |-> NoPod]]

\* newNodeConfigString, which panics when there are more read-only members
\* than members.
NodeConfig(c) == IF NumROMembers(c) > NumMembers(c) THEN {}
                 ELSE {[g \in 1..NumPartitions(c) |-> PartitionConfig(c, g)]}

\* The Spec.PodName of member m of group g.
PodName(c, g, m) == (NumMembers(c) * g + m) % NumReplicas(c)

\* Mutant: counted from 1.
GroupReplicasFrom1(c, g) ==
  [i \in 1..NumMembers(c) + NumROMembers(c) |-> Ring(c, g, i)]

\* getReplicas: the pods that the State of group g is computed from.
GroupReplicas(c, g) ==
  [i \in 1..NumMembers(c) + NumROMembers(c) |-> Ring(c, g, i - 1)]

\* getProtocolPartitions: what clients are told of group g.
PartitionStatus(c, g) ==
  [replicas |-> [j \in 1..NumMembers(c) |-> Ring(c, g, j - 1)],
   readReplicas |-> [j \in 1..NumROMembers(c) |->
                       Ring(c, g, NumMembers(c) + j - 1)]]

-----------------------------------------------------------------------------
(* What a node makes of the file: Protocol.Start.                          *)

\* How pod i serves a partition of the file: IsObserver and IsWitness.
Mode(partition, i) ==
  CASE i \in Range(partition.readReplicas) -> "observer"
    [] i \in Range(partition.replicas) \ Range(partition.readReplicas) -> "member"
    [] OTHER -> "witness"

\* Mutant: isMember is not reset, a member of one group is one of all that
\* follow.
ModesKept(nodes, i) ==
  [g \in DOMAIN nodes |->
     IF \E h \in 1..g : Mode(nodes[h], i) = "member" THEN "member"
     ELSE Mode(nodes[g], i)]

Modes(nodes, i) == [g \in DOMAIN nodes |-> Mode(nodes[g], i)]

-----------------------------------------------------------------------------
(* The Raft configuration.                                                 *)

\* Mutant: a threshold of zero is taken for one that is not there.
ProtocolFileNonzero(c) ==
  [heartbeat |-> c.heartbeat, election |-> c.election,
   threshold |-> IF Or(c.threshold, 0) = 0 THEN 10000 ELSE Or(c.threshold, 0),
   retain |-> Or(c.retain, 1000)]

\* newProtocolConfigString
ProtocolFile(c) ==
  [heartbeat |-> c.heartbeat, election |-> c.election,
   threshold |-> Or(c.threshold, 10000), retain |-> Or(c.retain, 1000)]

\* parseRaftConfig.  encoding/json writes a duration as a number and jsonpb
\* (external) wants a string: it gives up at the first one, which it leaves
\* at zero, and with it the fields that follow; the error is only printed.
RaftConfig(file) ==
  LET gaveUp == [heartbeat |-> {}, election |-> {}, threshold |-> 0, retain |-> 0]
  IN CASE file.heartbeat # {} -> [gaveUp EXCEPT !.heartbeat = {0}]
       [] file.heartbeat = {} /\ file.election # {} ->
            [gaveUp EXCEPT !.election = {0}]
       [] OTHER -> file

\* The settings Start hands to dragonboat; none where it divides by zero.
RTT(r) == IF r.heartbeat = {} THEN 250 ELSE Or(r.heartbeat, 0) \div 1000
ElectionRTT(r) == CASE r.election = {} -> {10}
                    [] r.election # {} /\ RTT(r) = 0 -> {}
                    [] OTHER -> {(Or(r.election, 0) \div 1000) \div RTT(r)}

HeartbeatRTT == 1

\* Whether dragonboat (external) takes the settings for a group: it wants a
\* tick, an election timeout of more than two heartbeats, and a witness that
\* takes no snapshots.
Accepted(r, mode) ==
  /\ RTT(r) > 0
  /\ \E e \in ElectionRTT(r) : e > 2 * HeartbeatRTT
  /\ mode = "witness" => r.threshold = 0

\* Start gives up at the first group that is refused, and the node ends.
Starts(node) == \A g \in DOMAIN node.modes : Accepted(node.raft, node.modes[g])

-----------------------------------------------------------------------------
(* A cluster is applied and started.                                       *)

VARIABLES
  cluster,    \* the spec, once it is applied
  config,     \* the ConfigMap, once it is there
  running     \* running[i]: what pod i has read, if it was started; whether it
              \* goes on from there is Starts(running[i])

deployVars == <<cluster, config, running>>

DeployInit ==
  /\ cluster = {}
  /\ config = {}
  /\ running = <<>>

Apply ==
  /\ cluster = {}
  /\ \E c \in Clusters : cluster' = {c}
  /\ UNCHANGED <<config, running>>

\* addConfigMap
AddConfigMap ==
  /\ config = {}
  /\ \E c \in cluster : config' = {[nodes |-> n, raft |-> ProtocolFile(c)]
                                   : n \in NodeConfig(c)}
  /\ config' # {}
  /\ UNCHANGED <<cluster, running>>

\* A pod of the StatefulSet reads the files and sets out to start its groups.
StartPod ==
  \E c \in cluster, f \in config : \E i \in 0..NumReplicas(c) - 1 :
    /\ i \notin DOMAIN running
    /\ running' = [k \in DOMAIN running \cup {i} |->
                     IF k = i THEN [modes |-> Modes(f.nodes, i),
                                    raft |-> RaftConfig(f.raft)]
                     ELSE running[k]]
    /\ UNCHANGED <<cluster, config>>

DeployNext == Apply \/ AddConfigMap \/ StartPod

DeploySpec == DeployInit /\ [][DeployNext]_deployVars

-----------------------------------------------------------------------------
(* Properties                                                              *)

\* The ConfigMap holds what the spec says, and every pod runs by it: what the
\* properties below follow from, for whatever pods have been started.
NodesRunTheSpec ==
  /\ cluster \subseteq Clusters
  /\ \A c, d \in cluster : c = d
  /\ \A f \in config : \E c \in cluster :
       /\ NumROMembers(c) <= NumMembers(c)
       /\ f = [nodes |-> [g \in 1..NumPartitions(c) |-> PartitionConfig(c, g)],
               raft  |-> ProtocolFile(c)]
  /\ \A i \in DOMAIN running : \E c \in cluster :
       /\ i \in 0..NumReplicas(c) - 1
       /\ running[i] = [modes |-> [g \in 1..NumPartitions(c) |->
                                    Mode(PartitionConfig(c, g), i)],
                        raft  |-> RaftConfig(ProtocolFile(c))]

WithoutReadReplicas(c) == NumROMembers(c) = 0
WithoutDurations(c)    == c.heartbeat = {} /\ c.election = {}

\* The pod that a RaftMember names, and watches for events of its group, is to
\* run that group as a member.  With read replicas it need not be.
MembersRunTheirGroup ==
  \A c \in cluster : WithoutReadReplicas(c) =>
    \A g \in 1..NumPartitions(c), m \in 0..NumMembers(c) - 1 :
      PodName(c, g, m) \in DOMAIN running =>
        running[PodName(c, g, m)].modes[g] = "member"

\* The pods that clients are sent to for a group, and those whose readiness
\* makes the State of the group, are the ones that are to run it.
StatusNamesTheMembers ==
  \A c \in cluster : WithoutReadReplicas(c) =>
    \A i \in DOMAIN running, g \in 1..NumPartitions(c) :
      /\ running[i].modes[g] = "member"
           <=> \E j \in 1..NumMembers(c) : PartitionStatus(c, g).replicas[j] = i
      /\ running[i].modes[g] = "member"
           <=> \E j \in DOMAIN GroupReplicas(c, g) : GroupReplicas(c, g)[j] = i

\* The groups are spread: all pods are members of as many groups as another
\* one, or one more or less, and the members of a group are on different pods
\* when there are enough of them.
GroupsAreSpread ==
  \A c \in cluster, f \in config : WithoutReadReplicas(c) =>
    LET slots == (1..NumPartitions(c)) \X (1..NumMembers(c))
        load(i) == Cardinality({s \in slots : f.nodes[s[1]].replicas[s[2]] = i})
    IN /\ \A i, k \in 0..NumReplicas(c) - 1 : load(i) <= load(k) + 1
       /\ NumMembers(c) <= NumReplicas(c) =>
            \A g \in 1..NumPartitions(c), j, k \in 1..NumMembers(c) :
              f.nodes[g].replicas[j] = f.nodes[g].replicas[k] => j = k

\* A node has the configuration of the spec, or its defaults.  With durations
\* in the spec it has not.
ConfigArrives ==
  \A c \in cluster : WithoutDurations(c) =>
    \A i \in DOMAIN running :
      running[i].raft = [heartbeat |-> {}, election |-> {},
                         threshold |-> IF c.threshold = {} THEN 10000
                                       ELSE CHOOSE x \in c.threshold : TRUE,
                         retain |-> IF c.retain = {} THEN 1000
                                    ELSE CHOOSE x \in c.retain : TRUE]

\* Which pods dragonboat lets run: none if the spec has a duration, and
\* otherwise all if the quorum takes in all pods, or no snapshots are taken.
\* If it does not, the pods that are members of every group start and no other
\* one does, as it would be a witness that takes snapshots.
PodsThatStart ==
  \A c \in cluster : WithoutReadReplicas(c) =>
    \A i \in DOMAIN running :
      Starts(running[i]) <=>
        /\ WithoutDurations(c)
        /\ \/ NumMembers(c) >= NumReplicas(c)
           \/ c.threshold = {0}
           \/ \A g \in 1..NumPartitions(c) :
                \E m \in 0..NumMembers(c) - 1 : PodName(c, g, m) = i
=============================================================================
