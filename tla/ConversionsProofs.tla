-------------------------- MODULE ConversionsProofs -------------------------
(***************************************************************************)
(* Proofs about Deployment, for clusters of all sizes: the pods that run a *)
(* group are the ones that the objects name for it, the groups are spread, *)
(* the nodes read the Raft configuration of the spec, and which of them    *)
(* start with it.  And about Varints, for numbers and lengths of all       *)
(* sizes: what is written has the size that was computed for it and is     *)
(* found again where it is.                                                *)
(***************************************************************************)
EXTENDS Deployment, Varints, Integers, FiniteSetTheorems, SequenceTheorems,
        WellFoundedInduction, TLAPS

-----------------------------------------------------------------------------
(* The spec.                                                               *)

\* An option that is there is the number in it.
LEMMA OrOfOption ==
  ASSUME NEW option, NEW default,
         option = {} \/ \E x \in option : x \in Nat /\ option = {x}
  PROVE  /\ option = {} => Or(option, default) = default
         /\ option # {} => Or(option, default) \in Nat /\ Or(option, default) \in option
  BY DEF Or

\* The sizes of a cluster are numbers, and it has a pod and a group.
LEMMA Sizes ==
  ASSUME NEW c \in Clusters
  PROVE  /\ NumReplicas(c) \in Nat /\ NumReplicas(c) > 0
         /\ NumPartitions(c) \in Nat /\ NumPartitions(c) > 0
         /\ NumMembers(c) \in Nat /\ NumROMembers(c) \in Nat
<1>1. NumReplicas(c) \in Nat /\ NumReplicas(c) > 0
  BY ClustersAssumption DEF NumReplicas
<1>2. NumPartitions(c) \in Nat /\ NumPartitions(c) > 0
  BY ClustersAssumption DEF NumPartitions
<1>3. NumMembers(c) \in Nat
  BY <1>1, ClustersAssumption, OrOfOption DEF NumMembers
<1>4. NumROMembers(c) \in Nat
  BY ClustersAssumption, OrOfOption DEF NumROMembers
<1> QED  BY <1>1, <1>2, <1>3, <1>4

-----------------------------------------------------------------------------
(* Division.                                                               *)

\* What is left is less than the divisor.
LEMMA Remainder ==
  ASSUME NEW n \in Nat, NEW r \in Nat, r > 0
  PROVE  /\ n % r \in Nat /\ n % r < r /\ n \div r \in Nat
         /\ n = r * (n \div r) + (n % r)
  OBVIOUS

\* There is only one way to divide.
LEMMA DivisionIsUnique ==
  ASSUME NEW r \in Nat, r > 0, NEW a \in Int, NEW b \in Int,
         NEW x \in 0..r - 1, NEW y \in 0..r - 1, r * a + x = r * b + y
  PROVE  a = b /\ x = y
<1>1. CASE a > b
  <2>1. PICK e \in Nat : a = b + 1 + e
    <3>1. a - b - 1 \in Nat /\ a = b + 1 + (a - b - 1)
      BY <1>1
    <3> QED  BY <3>1
  <2>2. r * a = r * b + r + r * e
    BY <2>1
  <2>3. r * e \in Nat /\ r * b \in Int
    OBVIOUS
  <2> QED  BY <2>2, <2>3
<1>2. CASE b > a
  <2>1. PICK e \in Nat : b = a + 1 + e
    <3>1. b - a - 1 \in Nat /\ b = a + 1 + (b - a - 1)
      BY <1>2
    <3> QED  BY <3>1
  <2>2. r * b = r * a + r + r * e
    BY <2>1
  <2>3. r * e \in Nat /\ r * a \in Int
    OBVIOUS
  <2> QED  BY <2>2, <2>3
<1>3. CASE a = b
  <2>1. r * a \in Int
    OBVIOUS
  <2> QED  BY <1>3, <2>1
<1> QED  BY <1>1, <1>2, <1>3

-----------------------------------------------------------------------------
(* Where the members are.                                                  *)

\* The pod of the member that has n others before it.
Place(c, n) == n % NumReplicas(c)

\* Without read replicas all four computations come to the same pods.
LEMMA PlacesAgree ==
  ASSUME NEW c \in Clusters, WithoutReadReplicas(c), NEW g \in Nat
  PROVE  LET P == [j \in 1..NumMembers(c) |-> Place(c, NumMembers(c) * g + (j - 1))]
         IN /\ PartitionConfig(c, g) = [replicas |-> P, readReplicas |-> [j \in {} |-> NoPod]]
            /\ PartitionStatus(c, g).replicas = P
            /\ GroupReplicas(c, g) = P
            /\ \A m \in 0..NumMembers(c) - 1 : m + 1 \in 1..NumMembers(c)
                                               /\ PodName(c, g, m) = P[m + 1]
<1> DEFINE M == NumMembers(c)
           P == [j \in 1..M |-> Place(c, M * g + (j - 1))]
<1>1. M \in Nat /\ NumROMembers(c) = 0 /\ M + 0 = M
  BY Sizes DEF WithoutReadReplicas
<1>2. \A j \in 1..M : Ring(c, g, j - 1) = Place(c, M * g + (j - 1))
  BY <1>1 DEF Ring, Place
<1>3. 1..0 = {}
  OBVIOUS
<1> HIDE DEF M
<1>4. [j \in 1..M |-> IF j <= 0 THEN Ring(c, g, M + j - 1) ELSE Ring(c, g, j - 1)] = P
  BY <1>1, <1>2
<1>5. [j \in 1..M |-> Ring(c, g, j - 1)] = P
  BY <1>2
<1>6. PartitionConfig(c, g) = [replicas |-> P, readReplicas |-> [j \in {} |-> NoPod]]
  <2>1. PartitionConfig(c, g) =
          [replicas |-> [j \in 1..M |-> IF j <= 0 THEN Ring(c, g, M + j - 1)
                                        ELSE Ring(c, g, j - 1)],
           readReplicas |-> [j \in 1..0 |-> NoPod]]
    BY <1>1 DEF PartitionConfig, M
  <2> QED  BY <1>3, <1>4, <2>1
<1>7. PartitionStatus(c, g).replicas = P
  BY <1>5 DEF PartitionStatus, M
<1>8. GroupReplicas(c, g) = P
  <2>1. GroupReplicas(c, g) = [j \in 1..M |-> Ring(c, g, j - 1)]
    BY <1>1 DEF GroupReplicas, M
  <2> QED  BY <1>5, <2>1
<1>9. \A m \in 0..M - 1 : m + 1 \in 1..M /\ PodName(c, g, m) = P[m + 1]
  <2> SUFFICES ASSUME NEW m \in 0..M - 1
               PROVE  m + 1 \in 1..M /\ PodName(c, g, m) = P[m + 1]
    OBVIOUS
  <2>1. m + 1 \in 1..M /\ (m + 1) - 1 = m
    BY <1>1
  <2>2. PodName(c, g, m) = Place(c, M * g + m)
    BY DEF PodName, Place, M
  <2> QED  BY <2>1, <2>2
<1> QED  BY <1>6, <1>7, <1>8, <1>9 DEF M

\* A pod serves a group as a member if it is one of its replicas; then it is
\* no observer, as the group has none.
LEMMA ModeOfMember ==
  ASSUME NEW c \in Clusters, WithoutReadReplicas(c), NEW g \in Nat, NEW i
  PROVE  /\ Mode(PartitionConfig(c, g), i) = "member" <=>
              \E j \in 1..NumMembers(c) : Place(c, NumMembers(c) * g + (j - 1)) = i
         /\ Mode(PartitionConfig(c, g), i) \in {"member", "witness"}
<1> DEFINE P == [j \in 1..NumMembers(c) |-> Place(c, NumMembers(c) * g + (j - 1))]
           partition == [replicas |-> P, readReplicas |-> [j \in {} |-> NoPod]]
<1>1. PartitionConfig(c, g) = partition
  BY PlacesAgree
<1>2. Range(partition.readReplicas) = {}
  BY DEF Range
<1>3. i \in Range(partition.replicas) <=>
        \E j \in 1..NumMembers(c) : Place(c, NumMembers(c) * g + (j - 1)) = i
  BY DEF Range
<1> HIDE DEF partition
<1>4. CASE i \in Range(partition.replicas)
  <2>1. Mode(partition, i) = "member"
    BY <1>2, <1>4 DEF Mode
  <2> QED  BY <1>1, <1>3, <1>4, <2>1
<1>5. CASE i \notin Range(partition.replicas)
  <2>1. Mode(partition, i) = "witness"
    BY <1>2, <1>5 DEF Mode
  <2> QED  BY <1>1, <1>3, <1>5, <2>1
<1> QED  BY <1>4, <1>5

-----------------------------------------------------------------------------
(* What the pods run.                                                      *)

\* A step makes the ConfigMap of the spec, or starts a pod from it.
THEOREM Inductive == DeploySpec => []NodesRunTheSpec
<1>1. DeployInit => NodesRunTheSpec
  BY DEF DeployInit, NodesRunTheSpec
<1>2. NodesRunTheSpec /\ [DeployNext]_deployVars => NodesRunTheSpec'
  <2> SUFFICES ASSUME NodesRunTheSpec, [DeployNext]_deployVars
               PROVE  NodesRunTheSpec'
    OBVIOUS
  <2>1. CASE Apply
    <3>1. PICK c \in Clusters : cluster' = {c}
      BY <2>1 DEF Apply
    <3>2. cluster = {} /\ config' = config /\ running' = running
      BY <2>1 DEF Apply
    <3>3. config = {} /\ DOMAIN running = {}
      BY <3>2 DEF NodesRunTheSpec
    <3> QED  BY <3>1, <3>2, <3>3 DEF NodesRunTheSpec
  <2>2. CASE AddConfigMap
    <3>1. cluster' = cluster /\ running' = running
      BY <2>2 DEF AddConfigMap
    <3>2. PICK c \in cluster : config' = {[nodes |-> n, raft |-> ProtocolFile(c)]
                                          : n \in NodeConfig(c)}
      BY <2>2 DEF AddConfigMap
    <3>3. c \in Clusters
      BY DEF NodesRunTheSpec
    <3>4. \A n \in NodeConfig(c) : /\ ~(NumROMembers(c) > NumMembers(c))
                                   /\ n = [g \in 1..NumPartitions(c) |-> PartitionConfig(c, g)]
      BY DEF NodeConfig
    <3>5. NumROMembers(c) > NumMembers(c) \/ NumROMembers(c) <= NumMembers(c)
      BY <3>3, Sizes
    <3>6. \A f \in config' :
            /\ NumROMembers(c) <= NumMembers(c)
            /\ f = [nodes |-> [g \in 1..NumPartitions(c) |-> PartitionConfig(c, g)],
                    raft  |-> ProtocolFile(c)]
      BY <3>2, <3>4, <3>5
    <3> QED  BY <3>1, <3>6 DEF NodesRunTheSpec
  <2>3. CASE StartPod
    <3>1. cluster' = cluster /\ config' = config
      BY <2>3 DEF StartPod
    <3>2. PICK c \in cluster, f \in config : \E i \in 0..NumReplicas(c) - 1 :
            running' = [k \in DOMAIN running \cup {i} |->
                         IF k = i THEN [modes |-> Modes(f.nodes, i),
                                        raft |-> RaftConfig(f.raft)]
                         ELSE running[k]]
      BY <2>3 DEF StartPod
    <3>3. PICK i \in 0..NumReplicas(c) - 1 :
            running' = [k \in DOMAIN running \cup {i} |->
                         IF k = i THEN [modes |-> Modes(f.nodes, i),
                                        raft |-> RaftConfig(f.raft)]
                         ELSE running[k]]
      BY <3>2
    <3>4. f = [nodes |-> [g \in 1..NumPartitions(c) |-> PartitionConfig(c, g)],
               raft  |-> ProtocolFile(c)]
      BY DEF NodesRunTheSpec
    <3>5. Modes(f.nodes, i) =
            [g \in 1..NumPartitions(c) |-> Mode(PartitionConfig(c, g), i)]
      BY <3>4 DEF Modes
    <3>6. f.raft = ProtocolFile(c)
      BY <3>4
    <3>7. running'[i] = [modes |-> [g \in 1..NumPartitions(c) |->
                                      Mode(PartitionConfig(c, g), i)],
                         raft |-> RaftConfig(ProtocolFile(c))]
      BY <3>3, <3>5, <3>6
    <3>8. \A k \in DOMAIN running' : k # i => k \in DOMAIN running /\ running'[k] = running[k]
      BY <3>3
    <3>9. \A k \in DOMAIN running : \E d \in cluster :
            /\ k \in 0..NumReplicas(d) - 1
            /\ running[k] = [modes |-> [g \in 1..NumPartitions(d) |->
                                          Mode(PartitionConfig(d, g), k)],
                             raft |-> RaftConfig(ProtocolFile(d))]
      BY DEF NodesRunTheSpec
    <3>10. \A k \in DOMAIN running' : \E d \in cluster :
            /\ k \in 0..NumReplicas(d) - 1
            /\ running'[k] = [modes |-> [g \in 1..NumPartitions(d) |->
                                           Mode(PartitionConfig(d, g), k)],
                              raft |-> RaftConfig(ProtocolFile(d))]
      <4> SUFFICES ASSUME NEW k \in DOMAIN running'
                   PROVE  \E d \in cluster :
                     /\ k \in 0..NumReplicas(d) - 1
                     /\ running'[k] = [modes |-> [g \in 1..NumPartitions(d) |->
                                                    Mode(PartitionConfig(d, g), k)],
                                       raft |-> RaftConfig(ProtocolFile(d))]
        OBVIOUS
      <4>1. CASE k = i
        BY <3>7, <4>1
      <4>2. CASE k # i
        BY <3>8, <3>9, <4>2
      <4> QED  BY <4>1, <4>2
    <3> QED  BY <3>1, <3>10 DEF NodesRunTheSpec
  <2>4. CASE UNCHANGED deployVars
    BY <2>4 DEF NodesRunTheSpec, deployVars
  <2> QED  BY <2>1, <2>2, <2>3, <2>4 DEF DeployNext
<1> QED  BY <1>1, <1>2, PTL DEF DeploySpec

\* What pod i runs, of the cluster c that is applied.
LEMMA PodRuns ==
  ASSUME NodesRunTheSpec, NEW c \in cluster, NEW i \in DOMAIN running
  PROVE  /\ c \in Clusters
         /\ running[i].raft = RaftConfig(ProtocolFile(c))
         /\ i \in 0..NumReplicas(c) - 1
         /\ DOMAIN running[i].modes = 1..NumPartitions(c)
         /\ \A g \in 1..NumPartitions(c) :
              running[i].modes[g] = Mode(PartitionConfig(c, g), i)
<1>1. PICK d \in cluster :
        /\ i \in 0..NumReplicas(d) - 1
        /\ running[i] = [modes |-> [g \in 1..NumPartitions(d) |->
                                      Mode(PartitionConfig(d, g), i)],
                         raft |-> RaftConfig(ProtocolFile(d))]
  BY DEF NodesRunTheSpec
<1>2. d = c /\ c \in Clusters
  BY DEF NodesRunTheSpec
<1> QED  BY <1>1, <1>2

\* The pod that a RaftMember names runs the group as a member.
THEOREM NamedPodsAreMembers == DeploySpec => []MembersRunTheirGroup
<1>1. NodesRunTheSpec => MembersRunTheirGroup
  <2> SUFFICES ASSUME NodesRunTheSpec, NEW c \in cluster, WithoutReadReplicas(c),
                      NEW g \in 1..NumPartitions(c), NEW m \in 0..NumMembers(c) - 1,
                      PodName(c, g, m) \in DOMAIN running
               PROVE  running[PodName(c, g, m)].modes[g] = "member"
    BY DEF MembersRunTheirGroup
  <2>1. c \in Clusters /\ g \in Nat
    BY Sizes DEF NodesRunTheSpec
  <2>2. m + 1 \in 1..NumMembers(c)
        /\ PodName(c, g, m) = Place(c, NumMembers(c) * g + ((m + 1) - 1))
    BY <2>1, PlacesAgree
  <2>3. Mode(PartitionConfig(c, g), PodName(c, g, m)) = "member"
    BY <2>1, <2>2, ModeOfMember
  <2> QED  BY <2>3, PodRuns
<1> QED  BY <1>1, Inductive, PTL

\* What clients and the State of the group go by are the pods that run it.
THEOREM StatusIsRight == DeploySpec => []StatusNamesTheMembers
<1>1. NodesRunTheSpec => StatusNamesTheMembers
  <2> SUFFICES ASSUME NodesRunTheSpec, NEW c \in cluster, WithoutReadReplicas(c),
                      NEW i \in DOMAIN running, NEW g \in 1..NumPartitions(c)
               PROVE  /\ running[i].modes[g] = "member" <=>
                           \E j \in 1..NumMembers(c) : PartitionStatus(c, g).replicas[j] = i
                      /\ running[i].modes[g] = "member" <=>
                           \E j \in DOMAIN GroupReplicas(c, g) : GroupReplicas(c, g)[j] = i
    BY DEF StatusNamesTheMembers
  <2>1. c \in Clusters /\ g \in Nat
    BY Sizes DEF NodesRunTheSpec
  <2>2. running[i].modes[g] = "member" <=>
          \E j \in 1..NumMembers(c) : Place(c, NumMembers(c) * g + (j - 1)) = i
    BY <2>1, PodRuns, ModeOfMember
  <2> DEFINE P == [j \in 1..NumMembers(c) |-> Place(c, NumMembers(c) * g + (j - 1))]
  <2>3. PartitionStatus(c, g).replicas = P /\ GroupReplicas(c, g) = P
    BY <2>1, PlacesAgree
  <2>4. \A j \in 1..NumMembers(c) : P[j] = Place(c, NumMembers(c) * g + (j - 1))
    OBVIOUS
  <2>5. DOMAIN P = 1..NumMembers(c)
    OBVIOUS
  <2> HIDE DEF P
  <2> QED  BY <2>2, <2>3, <2>4, <2>5
<1> QED  BY <1>1, Inductive, PTL

-----------------------------------------------------------------------------
(* The Raft configuration.                                                 *)

\* Without durations the file is read as it was written, the timeouts are the
\* defaults of Start, and only a witness may be refused.
LEMMA ReadAsWritten ==
  ASSUME NEW c \in Clusters, WithoutDurations(c), NEW mode
  PROVE  /\ RaftConfig(ProtocolFile(c)) = ProtocolFile(c)
         /\ Accepted(ProtocolFile(c), mode) <=> (mode = "witness" => c.threshold = {0})
<1> DEFINE file == ProtocolFile(c)
<1>1. file.heartbeat = {} /\ file.election = {} /\ file.threshold = Or(c.threshold, 10000)
  BY DEF ProtocolFile, WithoutDurations
<1> HIDE DEF file
<1>2. RaftConfig(file) = file
  BY <1>1 DEF RaftConfig
<1>3. RTT(file) = 250 /\ ElectionRTT(file) = {10}
  BY <1>1 DEF RTT, ElectionRTT
<1>4. file.threshold = 0 <=> c.threshold = {0}
  <2>1. c.threshold = {} \/ \E x \in c.threshold : x \in Nat /\ c.threshold = {x}
    BY ClustersAssumption
  <2>2. CASE c.threshold = {}
    BY <1>1, <2>2, OrOfOption
  <2>3. CASE c.threshold # {}
    <3>1. PICK x \in Nat : c.threshold = {x}
      BY <2>1, <2>3
    <3>2. Or(c.threshold, 10000) = x
      BY <2>1, <2>3, <3>1, OrOfOption
    <3> QED  BY <1>1, <3>1, <3>2
  <2> QED  BY <2>2, <2>3
<1>5. Accepted(file, mode) <=> (mode = "witness" => c.threshold = {0})
  BY <1>3, <1>4 DEF Accepted, HeartbeatRTT
<1> QED  BY <1>2, <1>5 DEF file

\* With a duration the file is not read to its end: the first duration is 0,
\* and dragonboat does not take what comes of it.
LEMMA ReadInPart ==
  ASSUME NEW c \in Clusters, ~WithoutDurations(c), NEW mode
  PROVE  ~Accepted(RaftConfig(ProtocolFile(c)), mode)
<1> DEFINE file == ProtocolFile(c)
           r    == RaftConfig(file)
           gaveUp == [heartbeat |-> {}, election |-> {}, threshold |-> 0, retain |-> 0]
<1>1. file.heartbeat = c.heartbeat /\ file.election = c.election
  BY DEF ProtocolFile
<1> HIDE DEF file
<1>2. CASE c.heartbeat # {}
  <2>1. r = [gaveUp EXCEPT !.heartbeat = {0}]
    BY <1>1, <1>2 DEF RaftConfig
  <2>2. r.heartbeat = {0}
    BY <2>1
  <2>3. RTT(r) = 0
    <3>1. RTT(r) = Or({0}, 0) \div 1000
      BY <2>2 DEF RTT
    <3>2. Or({0}, 0) = 0
      BY OrOfOption
    <3> QED  BY <3>1, <3>2
  <2> QED  BY <2>3 DEF Accepted, file
<1>3. CASE c.heartbeat = {} /\ c.election # {}
  <2>1. r = [gaveUp EXCEPT !.election = {0}]
    BY <1>1, <1>3 DEF RaftConfig
  <2>2. r.heartbeat = {} /\ r.election = {0}
    BY <2>1
  <2>3. RTT(r) = 250
    BY <2>2 DEF RTT
  <2>4. ElectionRTT(r) = {0}
    <3>1. Or({0}, 0) = 0
      BY OrOfOption
    <3>2. (0 \div 1000) \div 250 = 0
      OBVIOUS
    <3> QED  BY <2>2, <2>3, <3>1, <3>2 DEF ElectionRTT
  <2> QED  BY <2>4 DEF Accepted, HeartbeatRTT, file
<1> QED  BY <1>2, <1>3 DEF WithoutDurations

\* The nodes of a spec without durations read its thresholds, or the defaults.
THEOREM ConfigIsRead == DeploySpec => []ConfigArrives
<1>1. NodesRunTheSpec => ConfigArrives
  <2> SUFFICES ASSUME NodesRunTheSpec, NEW c \in cluster, WithoutDurations(c),
                      NEW i \in DOMAIN running
               PROVE  running[i].raft =
                        [heartbeat |-> {}, election |-> {},
                         threshold |-> IF c.threshold = {} THEN 10000
                                       ELSE CHOOSE x \in c.threshold : TRUE,
                         retain |-> IF c.retain = {} THEN 1000
                                    ELSE CHOOSE x \in c.retain : TRUE]
    BY DEF ConfigArrives
  <2>1. running[i].raft = ProtocolFile(c)
    BY PodRuns, ReadAsWritten
  <2> QED  BY <2>1 DEF ProtocolFile, Or, WithoutDurations
<1> QED  BY <1>1, Inductive, PTL

\* With read replicas or without, no pod ever serves a group as an observer:
\* the names of the read-only members are written over those of the members.
THEOREM NoObservers ==
  DeploySpec => [](\A c \in cluster : \A i \in DOMAIN running, g \in 1..NumPartitions(c) :
                     running[i].modes[g] # "observer")
<1>1. NodesRunTheSpec => \A c \in cluster : \A i \in DOMAIN running, g \in 1..NumPartitions(c) :
                           running[i].modes[g] # "observer"
  <2> SUFFICES ASSUME NodesRunTheSpec, NEW c \in cluster, NEW i \in DOMAIN running,
                      NEW g \in 1..NumPartitions(c)
               PROVE  running[i].modes[g] # "observer"
    OBVIOUS
  <2>1. running[i].modes[g] = Mode(PartitionConfig(c, g), i)
    BY PodRuns
  <2>2. i \in Nat
    BY Sizes DEF NodesRunTheSpec
  <2>3. i \notin Range(PartitionConfig(c, g).readReplicas)
    BY <2>2, ClustersAssumption DEF Range, PartitionConfig
  <2>4. Mode(PartitionConfig(c, g), i) \in {"member", "witness"}
    BY <2>3 DEF Mode
  <2> QED  BY <2>1, <2>4
<1> QED  BY <1>1, Inductive, PTL

-----------------------------------------------------------------------------
(* The groups are spread.  Members are counted through all the groups:     *)
(* member j of group g comes to pod Position(m, <<g, j>>) % r, with groups *)
(* of m members on r pods.                                                 *)

Position(m, s) == m * s[1] + (s[2] - 1)
Slots(p, m)    == (1..p) \X (1..m)
OnPod(p, m, r, i) == {s \in Slots(p, m) : Position(m, s) % r = i}

\* No two members are counted as the same one.
LEMMA PositionsDiffer ==
  ASSUME NEW p \in Nat, NEW m \in Nat, NEW s \in Slots(p, m), NEW t \in Slots(p, m)
  PROVE  /\ Position(m, s) \in Nat
         /\ Position(m, s) = Position(m, t) => s = t
<1>1. /\ s[1] \in Nat /\ s[2] - 1 \in 0..m - 1 /\ s = <<s[1], s[2]>> /\ s[2] \in 1..m
      /\ t[1] \in Nat /\ t[2] - 1 \in 0..m - 1 /\ t = <<t[1], t[2]>> /\ t[2] \in 1..m
      /\ m > 0
  BY DEF Slots
<1>2. m * s[1] \in Nat
  BY <1>1
<1>3. Position(m, s) \in Nat
  BY <1>1, <1>2 DEF Position
<1>4. ASSUME Position(m, s) = Position(m, t) PROVE s = t
  <2>1. s[1] = t[1] /\ s[2] - 1 = t[2] - 1
    BY <1>1, <1>4, DivisionIsUnique DEF Position
  <2> QED  BY <1>1, <2>1
<1> QED  BY <1>3, <1>4

\* The positions are all those from the first to the last one.
LEMMA PositionsInRow ==
  ASSUME NEW p \in Nat, NEW m \in Nat, m > 0, NEW n \in Nat,
         m <= n, n <= m * p + (m - 1)
  PROVE  \E s \in Slots(p, m) : Position(m, s) = n
<1>1. PICK g \in Nat, x \in 0..m - 1 : n = m * g + x
  <2>1. n \div m \in Nat /\ n % m \in 0..m - 1 /\ n = m * (n \div m) + (n % m)
    BY Remainder
  <2> QED  BY <2>1
<1>2. g >= 1
  <2> SUFFICES ASSUME g = 0 PROVE FALSE
    OBVIOUS
  <2>1. m * g = 0
    OBVIOUS
  <2> QED  BY <1>1, <2>1
<1>3. g <= p
  <2> SUFFICES ASSUME g > p PROVE FALSE
    OBVIOUS
  <2>1. PICK e \in Nat : g = p + 1 + e
    <3>1. g - p - 1 \in Nat /\ g = p + 1 + (g - p - 1)
      OBVIOUS
    <3> QED  BY <3>1
  <2>2. m * g = m * p + m + m * e
    BY <2>1
  <2>3. m * e \in Nat /\ m * p \in Nat
    OBVIOUS
  <2> QED  BY <1>1, <2>2, <2>3
<1>4. <<g, x + 1>> \in Slots(p, m)
  BY <1>2, <1>3 DEF Slots
<1>5. Position(m, <<g, x + 1>>) = n
  BY <1>1 DEF Position
<1> QED  BY <1>4, <1>5

\* A position is not beyond the last one.
LEMMA PositionBounds ==
  ASSUME NEW p \in Nat, NEW m \in Nat, NEW s \in Slots(p, m)
  PROVE  m <= Position(m, s) /\ Position(m, s) <= m * p + (m - 1)
<1>1. PICK a \in Nat, b \in Nat : s[1] = 1 + a /\ p = s[1] + b
  <2>1. s[1] \in 1..p
    BY DEF Slots
  <2>2. /\ s[1] - 1 \in Nat /\ s[1] = 1 + (s[1] - 1)
        /\ p - s[1] \in Nat /\ p = s[1] + (p - s[1])
    BY <2>1
  <2> QED  BY <2>1, <2>2
<1>2. m * s[1] = m + m * a /\ m * p = m * s[1] + m * b /\ m * a \in Nat /\ m * b \in Nat
  BY <1>1
<1>3. s[2] \in 1..m
  BY DEF Slots
<1>4. PICK x \in Nat, y \in Nat : x = m * s[1] /\ y = m * p
  BY <1>1, <1>2
<1> QED  BY <1>2, <1>3, <1>4 DEF Position

\* The pods come round every r positions.
LEMMA NextOnPod ==
  ASSUME NEW r \in Nat, r > 0, NEW n \in Nat, NEW d \in 0..r - 1, NEW k \in 0..r - 1,
         \/ (n % r) + d = k
         \/ (n % r) + d = k + r
  PROVE  (n + d) % r = k
<1>1. PICK q \in Nat : n = r * q + (n % r)
  BY Remainder
<1>2. n % r \in Nat
  BY Remainder
<1>3. PICK w \in Nat : n + d = r * w + k
  <2>1. CASE (n % r) + d = k
    BY <1>1, <1>2, <2>1
  <2>2. CASE (n % r) + d = k + r
    <3>1. PICK w \in Nat : w = q + 1
      OBVIOUS
    <3>2. r * w = r * q + r /\ r * q \in Nat /\ r * w \in Nat
      BY <3>1
    <3>3. n + d = r * w + k
      BY <1>1, <1>2, <2>2, <3>2
    <3> QED  BY <3>3
  <2> QED  BY <2>1, <2>2
<1>4. PICK v \in Nat, x \in 0..r - 1 : x = (n + d) % r /\ n + d = r * v + x
  <2>1. PICK o \in Nat : o = n + d
    OBVIOUS
  <2>2. /\ o \div r \in Nat /\ o % r \in 0..r - 1
        /\ o = r * (o \div r) + (o % r)
    BY Remainder
  <2> QED  BY <2>1, <2>2
<1>5. r * v + x = r * w + k
  BY <1>3, <1>4
<1>6. x = k
  <2>1. v \in Int /\ w \in Int
    OBVIOUS
  <2>2. \A a, b \in Int : \A y, z \in 0..r - 1 : r * a + y = r * b + z => y = z
    BY DivisionIsUnique
  <2> QED  BY <1>5, <2>1, <2>2, Zenon
<1> QED  BY <1>4, <1>6

\* A quorum that takes in all pods makes every pod a member of every group.
LEMMA QuorumOfAll ==
  ASSUME NEW c \in Clusters, NumMembers(c) >= NumReplicas(c), NEW g \in Nat,
         NEW i \in 0..NumReplicas(c) - 1
  PROVE  \E m \in 0..NumMembers(c) - 1 : PodName(c, g, m) = i
<1>1. PICK r \in Nat, n \in Nat : r = NumReplicas(c) /\ n = NumMembers(c) * g
  BY Sizes
<1>2. r > 0 /\ NumMembers(c) \in Nat /\ NumMembers(c) >= r
  BY <1>1, Sizes
<1>3. PICK a \in 0..r - 1 : a = n % r
  BY <1>1, <1>2, Remainder
<1>4. PICK d \in 0..r - 1 : a + d = i \/ a + d = i + r
  <2>1. i \in 0..r - 1
    BY <1>1
  <2>2. CASE i >= a
    <3>1. i - a \in 0..r - 1 /\ a + (i - a) = i
      BY <2>1, <2>2, <1>3
    <3> QED  BY <3>1
  <2>3. CASE i < a
    <3>1. i - a + r \in 0..r - 1 /\ a + (i - a + r) = i + r
      BY <2>1, <2>3, <1>3
    <3> QED  BY <3>1
  <2> QED  BY <2>1, <2>2, <2>3
<1>5. (n + d) % r = i
  <2>1. i \in 0..r - 1
    BY <1>1
  <2>2. (n % r) + d = i \/ (n % r) + d = i + r
    BY <1>3, <1>4
  <2> QED  BY <1>2, <2>1, <2>2, NextOnPod
<1>6. d \in 0..NumMembers(c) - 1
  BY <1>2
<1> QED  BY <1>1, <1>5, <1>6 DEF PodName

\* Which pods start: durations keep all from it, and a quorum of fewer pods
\* those that are not members of every group, unless no snapshots are taken.
THEOREM WhoStarts == DeploySpec => []PodsThatStart
<1>1. NodesRunTheSpec => PodsThatStart
  <2> SUFFICES ASSUME NodesRunTheSpec, NEW c \in cluster, WithoutReadReplicas(c),
                      NEW i \in DOMAIN running
               PROVE  Starts(running[i]) <=>
                        /\ WithoutDurations(c)
                        /\ \/ NumMembers(c) >= NumReplicas(c)
                           \/ c.threshold = {0}
                           \/ \A g \in 1..NumPartitions(c) :
                                \E m \in 0..NumMembers(c) - 1 : PodName(c, g, m) = i
    BY DEF PodsThatStart
  <2> DEFINE Named(g) == \E m \in 0..NumMembers(c) - 1 : PodName(c, g, m) = i
  <2>1. /\ c \in Clusters /\ i \in 0..NumReplicas(c) - 1
        /\ running[i].raft = RaftConfig(ProtocolFile(c))
        /\ DOMAIN running[i].modes = 1..NumPartitions(c)
        /\ \A g \in 1..NumPartitions(c) :
             running[i].modes[g] = Mode(PartitionConfig(c, g), i)
    BY PodRuns
  <2>2. 1 \in 1..NumPartitions(c) /\ \A g \in 1..NumPartitions(c) : g \in Nat
    BY <2>1, Sizes
  <2>3. ASSUME NEW g \in 1..NumPartitions(c)
        PROVE  /\ running[i].modes[g] \in {"member", "witness"}
               /\ running[i].modes[g] = "member" <=> Named(g)
    <3>1. g \in Nat
      BY <2>2
    <3>2. /\ running[i].modes[g] \in {"member", "witness"}
          /\ running[i].modes[g] = "member" <=>
               \E j \in 1..NumMembers(c) : Place(c, NumMembers(c) * g + (j - 1)) = i
      BY <2>1, <3>1, ModeOfMember
    <3>3. NumMembers(c) \in Nat
      BY <2>1, Sizes
    <3>4. ASSUME NEW j \in 1..NumMembers(c), Place(c, NumMembers(c) * g + (j - 1)) = i
          PROVE  Named(g)
      <4>1. j - 1 \in 0..NumMembers(c) - 1
        BY <3>3
      <4>2. PodName(c, g, j - 1) = i
        BY <3>4 DEF PodName, Place
      <4> QED  BY <4>1, <4>2
    <3>5. ASSUME NEW m \in 0..NumMembers(c) - 1, PodName(c, g, m) = i
          PROVE  \E j \in 1..NumMembers(c) : Place(c, NumMembers(c) * g + (j - 1)) = i
      <4>1. m + 1 \in 1..NumMembers(c) /\ (m + 1) - 1 = m
        BY <3>3
      <4>2. Place(c, NumMembers(c) * g + ((m + 1) - 1)) = i
        BY <3>5, <4>1 DEF PodName, Place
      <4> QED  BY <4>1, <4>2
    <3> QED  BY <3>2, <3>4, <3>5
  <2>4. NumMembers(c) >= NumReplicas(c) => \A g \in 1..NumPartitions(c) : Named(g)
    BY <2>1, <2>2, QuorumOfAll
  <2> HIDE DEF Named
  <2>5. CASE ~WithoutDurations(c)
    <3>1. ~Accepted(running[i].raft, running[i].modes[1])
      BY <2>1, <2>5, ReadInPart
    <3> QED  BY <2>1, <2>2, <2>5, <3>1 DEF Starts
  <2>6. CASE WithoutDurations(c)
    <3>1. \A mode : Accepted(running[i].raft, mode) <=> (mode = "witness" => c.threshold = {0})
      BY <2>1, <2>6, ReadAsWritten
    <3>2. Starts(running[i]) <=>
            \A g \in 1..NumPartitions(c) : running[i].modes[g] = "witness" => c.threshold = {0}
      BY <2>1, <3>1 DEF Starts
    <3>3. \A g \in 1..NumPartitions(c) : running[i].modes[g] = "witness" <=> ~Named(g)
      BY <2>3
    <3>4. Starts(running[i]) <=> c.threshold = {0} \/ \A g \in 1..NumPartitions(c) : Named(g)
      BY <3>2, <3>3
    <3> QED  BY <2>4, <2>6, <3>4 DEF Named
  <2> QED  BY <2>5, <2>6
<1> QED  BY <1>1, Inductive, PTL

\* Two positions of one pod are at least r apart.
LEMMA ApartOnPod ==
  ASSUME NEW r \in Nat, r > 0, NEW n \in Nat, NEW o \in Nat, n % r = o % r, n < o
  PROVE  n + r <= o
<1>1. PICK q \in Nat : n = r * q + (n % r)
  BY Remainder
<1>2. PICK w \in Nat : o = r * w + (n % r)
  BY Remainder
<1>3. n % r \in Nat
  BY Remainder
<1>4. w > q
  <2> SUFFICES ASSUME w <= q PROVE FALSE
    OBVIOUS
  <2>1. PICK e \in Nat : q = w + e
    <3>1. q - w \in Nat /\ q = w + (q - w)
      OBVIOUS
    <3> QED  BY <3>1
  <2>2. r * q = r * w + r * e /\ r * e \in Nat /\ r * w \in Nat
    BY <2>1
  <2> QED  BY <1>1, <1>2, <1>3, <2>2
<1>5. PICK e \in Nat : w = q + 1 + e
  <2>1. w - q - 1 \in Nat /\ w = q + 1 + (w - q - 1)
    BY <1>4
  <2> QED  BY <2>1
<1>6. r * w = r * q + r + r * e /\ r * e \in Nat /\ r * q \in Nat
  BY <1>5
<1> QED  BY <1>1, <1>2, <1>3, <1>6

\* A pod has at most one member more than any other one: the members of pod i
\* are followed by one of pod k, with the same distance for all of them, but
\* for the last one.
LEMMA LoadsAreEven ==
  ASSUME NEW p \in Nat, NEW m \in Nat, NEW r \in Nat, r > 0,
         NEW i \in 0..r - 1, NEW k \in 0..r - 1
  PROVE  Cardinality(OnPod(p, m, r, i)) <= Cardinality(OnPod(p, m, r, k)) + 1
<1> DEFINE I == OnPod(p, m, r, i)
           K == OnPod(p, m, r, k)
           Last == m * p + (m - 1)
<1>1. IsFiniteSet(I) /\ IsFiniteSet(K) /\ I \subseteq Slots(p, m) /\ K \subseteq Slots(p, m)
  <2>1. IsFiniteSet(1..p) /\ IsFiniteSet(1..m)
    BY FS_Interval
  <2>2. IsFiniteSet(Slots(p, m))
    BY <2>1, FS_Product DEF Slots
  <2>3. I \in SUBSET Slots(p, m) /\ K \in SUBSET Slots(p, m)
    BY DEF OnPod
  <2> QED  BY <2>2, <2>3, FS_Subset
<1>2. Cardinality(I) \in Nat /\ Cardinality(K) \in Nat
  BY <1>1, FS_CardinalityType
<1>3. PICK d \in 0..r - 1 : i + d = k \/ i + d = k + r
  <2>1. CASE i <= k
    <3>1. k - i \in 0..r - 1 /\ i + (k - i) = k
      BY <2>1
    <3> QED  BY <3>1
  <2>2. CASE i > k
    <3>1. k + r - i \in 0..r - 1 /\ i + (k + r - i) = k + r
      BY <2>2
    <3> QED  BY <3>1
  <2> QED  BY <2>1, <2>2
<1> DEFINE T == {s \in I : Position(m, s) + d <= Last}
<1>4. \A s \in T : \E t \in K : Position(m, t) = Position(m, s) + d
  <2> SUFFICES ASSUME NEW s \in T PROVE \E t \in K : Position(m, t) = Position(m, s) + d
    OBVIOUS
  <2>1. s \in Slots(p, m) /\ Position(m, s) % r = i
    BY DEF OnPod
  <2>2. PICK n \in Nat : n = Position(m, s)
    BY <2>1, PositionsDiffer
  <2>3. m <= n /\ n + d <= Last /\ m > 0
    <3>1. m > 0
      BY <2>1 DEF Slots
    <3> QED  BY <2>1, <2>2, <3>1, PositionBounds
  <2>4. (n + d) % r = k
    BY <1>3, <2>1, <2>2, NextOnPod
  <2>5. PICK o \in Nat : o = n + d
    OBVIOUS
  <2>6. m <= o /\ o <= Last
    BY <2>3, <2>5
  <2>7. PICK t \in Slots(p, m) : Position(m, t) = o
    BY <2>3, <2>6, PositionsInRow
  <2>8. t \in K
    BY <2>4, <2>5, <2>7 DEF OnPod
  <2> QED  BY <2>2, <2>5, <2>7, <2>8
<1>5. Cardinality(T) <= Cardinality(K) /\ IsFiniteSet(T)
  <2> DEFINE f == [s \in T |-> CHOOSE t \in K : Position(m, t) = Position(m, s) + d]
  <2>1. \A s \in T : f[s] \in K /\ Position(m, f[s]) = Position(m, s) + d
    BY <1>4
  <2>2. f \in [T -> K]
    BY <2>1
  <2>3. ASSUME NEW s \in T, NEW t \in T, f[s] = f[t] PROVE s = t
    <3>1. Position(m, s) + d = Position(m, t) + d
      BY <2>1, <2>3
    <3>2. s \in Slots(p, m) /\ t \in Slots(p, m)
      BY <1>1
    <3>3. Position(m, s) \in Nat /\ Position(m, t) \in Nat
      BY <3>2, PositionsDiffer
    <3>4. Position(m, s) = Position(m, t)
      BY <3>1, <3>3
    <3> QED  BY <3>2, <3>4, PositionsDiffer
  <2>4. f \in Injection(T, K)
    BY <2>2, <2>3 DEF Injection, IsInjective
  <2> HIDE DEF f, T, K
  <2> QED  BY <1>1, <2>4, FS_Injection
<1>6. \A s, t \in I \ T : s = t
  <2> SUFFICES ASSUME NEW s \in I \ T, NEW t \in I \ T, Position(m, s) < Position(m, t)
               PROVE  FALSE
    <3>1. \A s, t \in I \ T : /\ Position(m, s) \in Nat
                              /\ Position(m, s) = Position(m, t) => s = t
      BY <1>1, PositionsDiffer
    <3> QED  BY <3>1
  <2>1. s \in Slots(p, m) /\ t \in Slots(p, m) /\ Position(m, s) % r = Position(m, t) % r
    BY DEF OnPod
  <2>2. PICK n \in Nat, o \in Nat : n = Position(m, s) /\ o = Position(m, t)
    BY <2>1, PositionsDiffer
  <2>3. n + r <= o
    BY <2>1, <2>2, ApartOnPod
  <2>4. o <= Last /\ Last \in Int
    BY <2>1, <2>2, PositionBounds
  <2>5. ~(n + d <= Last)
    BY <2>2
  <2> QED  BY <2>3, <2>4, <2>5
<1>7. T \subseteq I
  OBVIOUS
<1>8. Cardinality(T) \in Nat
  BY <1>5, FS_CardinalityType
<1> HIDE DEF T, I, K
<1>9. Cardinality(I) <= Cardinality(T) + 1
  <2>1. CASE I \ T = {}
    <3>1. I = T
      BY <1>7, <2>1
    <3> QED  BY <1>2, <3>1
  <2>2. CASE I \ T # {}
    <3>1. PICK x : x \in I \ T
      BY <2>2
    <3>2. T = I \ {x}
      BY <1>6, <1>7, <3>1
    <3>3. Cardinality(T) = Cardinality(I) - 1
      BY <1>1, <3>1, <3>2, FS_RemoveElement
    <3> QED  BY <1>2, <3>3
  <2> QED  BY <2>1, <2>2
<1>10. Cardinality(I) <= Cardinality(K) + 1
  BY <1>2, <1>5, <1>8, <1>9
<1> QED  BY <1>10 DEF I, K

\* Every pod is a member of as many groups as another one, or one more or
\* less, and no pod is two members of a group when there are enough of them.
THEOREM Spread == DeploySpec => []GroupsAreSpread
<1>1. NodesRunTheSpec => GroupsAreSpread
  <2> SUFFICES ASSUME NodesRunTheSpec, NEW c \in cluster, NEW f \in config,
                      WithoutReadReplicas(c)
               PROVE  LET slots == (1..NumPartitions(c)) \X (1..NumMembers(c))
                          load(i) == Cardinality({s \in slots :
                                       f.nodes[s[1]].replicas[s[2]] = i})
                      IN /\ \A i, k \in 0..NumReplicas(c) - 1 : load(i) <= load(k) + 1
                         /\ NumMembers(c) <= NumReplicas(c) =>
                              \A g \in 1..NumPartitions(c), j, k \in 1..NumMembers(c) :
                                f.nodes[g].replicas[j] = f.nodes[g].replicas[k] => j = k
    BY DEF GroupsAreSpread
  <2>1. PICK p \in Nat, m \in Nat, r \in Nat :
          p = NumPartitions(c) /\ m = NumMembers(c) /\ r = NumReplicas(c) /\ r > 0
    BY Sizes DEF NodesRunTheSpec
  <2>2. c \in Clusters /\ f.nodes = [g \in 1..p |-> PartitionConfig(c, g)]
    BY <2>1 DEF NodesRunTheSpec
  <2>3. \A g \in 1..p, j \in 1..m : f.nodes[g].replicas[j] = Position(m, <<g, j>>) % r
    <3> SUFFICES ASSUME NEW g \in 1..p, NEW j \in 1..m
                 PROVE  f.nodes[g].replicas[j] = Position(m, <<g, j>>) % r
      OBVIOUS
    <3> DEFINE P == [x \in 1..NumMembers(c) |-> Place(c, NumMembers(c) * g + (x - 1))]
    <3>1. PartitionConfig(c, g) = [replicas |-> P, readReplicas |-> [x \in {} |-> NoPod]]
      <4>1. g \in Nat
        OBVIOUS
      <4> QED  BY <2>2, <4>1, PlacesAgree
    <3>2. f.nodes[g].replicas = P
      BY <2>2, <3>1
    <3>3. P[j] = Place(c, m * g + (j - 1))
      BY <2>1
    <3> QED  BY <2>1, <3>2, <3>3 DEF Place, Position
  <2>4. \A i : {s \in (1..p) \X (1..m) : f.nodes[s[1]].replicas[s[2]] = i} = OnPod(p, m, r, i)
    <3>1. \A s \in (1..p) \X (1..m) : f.nodes[s[1]].replicas[s[2]] = Position(m, s) % r
      BY <2>3
    <3> QED  BY <3>1 DEF OnPod, Slots
  <2>5. \A i, k \in 0..r - 1 :
          Cardinality(OnPod(p, m, r, i)) <= Cardinality(OnPod(p, m, r, k)) + 1
    BY <2>1, LoadsAreEven
  <2>6. ASSUME m <= r, NEW g \in 1..p, NEW j \in 1..m, NEW k \in 1..m,
               f.nodes[g].replicas[j] = f.nodes[g].replicas[k]
        PROVE  j = k
    <3>1. ASSUME NEW x \in 1..m, NEW y \in 1..m, x < y,
                 f.nodes[g].replicas[x] = f.nodes[g].replicas[y]
          PROVE  FALSE
      <4>1. PICK z \in Nat : z = m * g
        OBVIOUS
      <4>2. PICK n \in Nat, o \in Nat : n = z + (x - 1) /\ o = z + (y - 1)
        OBVIOUS
      <4>3. n % r = o % r
        BY <2>3, <3>1, <4>1, <4>2 DEF Position
      <4>4. n < o
        BY <3>1, <4>2
      <4>5. n + r <= o
        BY <2>1, <4>3, <4>4, ApartOnPod
      <4> QED  BY <2>6, <4>2, <4>5
    <3>2. ~(j < k) /\ ~(k < j)
      BY <2>6, <3>1
    <3> QED  BY <3>2
  <2>7. \A i : {s \in (1..NumPartitions(c)) \X (1..NumMembers(c)) :
                  f.nodes[s[1]].replicas[s[2]] = i} = OnPod(p, m, r, i)
    BY <2>1, <2>4
  <2>8. \A i, k \in 0..NumReplicas(c) - 1 :
          Cardinality({s \in (1..NumPartitions(c)) \X (1..NumMembers(c)) :
                         f.nodes[s[1]].replicas[s[2]] = i})
            <= Cardinality({s \in (1..NumPartitions(c)) \X (1..NumMembers(c)) :
                              f.nodes[s[1]].replicas[s[2]] = k}) + 1
    BY <2>1, <2>5, <2>7
  <2>9. NumMembers(c) <= NumReplicas(c) =>
          \A g \in 1..NumPartitions(c), j, k \in 1..NumMembers(c) :
            f.nodes[g].replicas[j] = f.nodes[g].replicas[k] => j = k
    BY <2>1, <2>6
  <2> QED  BY <2>8, <2>9
<1> QED  BY <1>1, Inductive, PTL

-----------------------------------------------------------------------------
(* Induction over numbers, and recursion.                                  *)

\* Induction over numbers follows from their order.  The induction theorems of
\* the library take an operator; these take a set.
Less == {ss \in Nat \X Nat : ss[1] < ss[2]}

\* The order of the numbers is well-founded.
LEMMA LessWF == IsWellFoundedOn(Less, Nat)
<1>1. OpToRel(<, Nat) = Less
  BY Zenon DEF OpToRel, Less
<1> QED BY <1>1, NatLessThanWellFounded, Zenon

\* What holds of 0, and of n + 1 if of n, holds of every number.
LEMMA SetInduction ==
  ASSUME NEW S, 0 \in S, \A n \in Nat : n \in S => n + 1 \in S
  PROVE  \A n \in Nat : n \in S
<1> SUFFICES ASSUME Nat \ S # {} PROVE FALSE
  OBVIOUS
<1>1. PICK x \in Nat \ S : \A y \in Nat \ S : <<y, x>> \notin Less
  BY LessWF, WFMin
<1>2. x # 0 /\ x \in Nat /\ x - 1 \in Nat
  BY <1>1
<1>3. <<x - 1, x>> \in Less
  BY <1>2 DEF Less
<1>4. x - 1 \notin Nat \ S
  BY <1>1, <1>3
<1> QED BY <1>1, <1>2, <1>4

\* What holds of n if of all smaller numbers holds of every number.
LEMMA StrongInduction ==
  ASSUME NEW S, \A n \in Nat : (\A k \in 0..n - 1 : k \in S) => n \in S
  PROVE  \A n \in Nat : n \in S
<1> SUFFICES ASSUME Nat \ S # {} PROVE FALSE
  OBVIOUS
<1>1. PICK x \in Nat \ S : \A y \in Nat \ S : <<y, x>> \notin Less
  BY LessWF, WFMin
<1>2. ASSUME NEW k \in 0..x - 1 PROVE k \in S
  <2>1. k \in Nat /\ <<k, x>> \in Less
    BY <1>1 DEF Less
  <2> QED  BY <1>1, <2>1
<1> QED  BY <1>1, <1>2

\* A recursive definition: base on B, and elsewhere g of the value at h, where
\* the measure m is smaller.
Recursive(D, V, m, B, h, base, g) ==
  /\ m \in [D -> Nat] /\ B \in SUBSET D /\ h \in [D -> D]
  /\ base \in [D -> V] /\ g \in [D \X V -> V]
  /\ \A x \in D \ B : m[h[x]] < m[x]

\* A function that such a definition describes.
Solution(f, D, V, B, h, base, g) ==
  /\ f \in [D -> V]
  /\ \A x \in D : f[x] = IF x \in B THEN base[x] ELSE g[<<x, f[h[x]]>>]

\* A recursive definition has a solution.
LEMMA Recursion ==
  ASSUME NEW D, NEW V, NEW m, NEW B, NEW h, NEW base, NEW g,
         Recursive(D, V, m, B, h, base, g)
  PROVE  \E f : \* A function that such a definition describes.
Solution(f, D, V, B, h, base, g)
<1> SUFFICES \E f \in [D -> V] : \A x \in D :
               f[x] = IF x \in B THEN base[x] ELSE g[<<x, f[h[x]]>>]
  BY DEF Solution
<1> USE DEF Recursive
<1> DEFINE Next(f) == [x \in D |-> IF x \in B THEN base[x] ELSE g[<<x, f[h[x]]>>]]
           Below(N) == {x \in D : m[x] < N}
           Good(N, f) == \A x \in Below(N) : f[x] = Next(f)[x]
<1>1. \A f \in [D -> V] : Next(f) \in [D -> V]
  OBVIOUS
<1>2. \A N \in Nat : \E f \in [D -> V] : Good(N, f)
  <2> DEFINE S == {N \in Nat : \E f \in [D -> V] : Good(N, f)}
  <2>1. 0 \in S
    <3>1. Below(0) = {}
      OBVIOUS
    <3> QED  BY <3>1
  <2>2. ASSUME NEW N \in Nat, N \in S PROVE N + 1 \in S
    <3>1. PICK f \in [D -> V] : Good(N, f)
      BY <2>2
    <3>2. PICK f2 \in [D -> V] : f2 = Next(f)
      BY <1>1
    <3>3. ASSUME NEW x \in Below(N + 1) PROVE f2[x] = Next(f2)[x]
      <4>1. CASE x \in B
        BY <3>2, <4>1
      <4>2. CASE x \notin B
        <5>1. h[x] \in Below(N)
          BY <4>2
        <5>2. f[h[x]] = f2[h[x]]
          BY <3>1, <3>2, <5>1
        <5> QED  BY <3>2, <4>2, <5>2
      <4> QED  BY <4>1, <4>2
    <3> QED  BY <3>3
  <2> HIDE DEF S
  <2>3. \A N \in Nat : N \in S
    BY <2>1, <2>2, SetInduction
  <2> QED  BY <2>3 DEF S
<1>3. \A N \in Nat : \A f1, f2 \in [D -> V] :
        Good(N, f1) /\ Good(N, f2) => \A x \in Below(N) : f1[x] = f2[x]
  <2> DEFINE S == {N \in Nat : \A f1, f2 \in [D -> V] :
                     Good(N, f1) /\ Good(N, f2) => \A x \in Below(N) : f1[x] = f2[x]}
  <2>1. 0 \in S
    OBVIOUS
  <2>2. ASSUME NEW N \in Nat, N \in S PROVE N + 1 \in S
    <3> SUFFICES ASSUME NEW f1 \in [D -> V], NEW f2 \in [D -> V],
                        Good(N + 1, f1), Good(N + 1, f2), NEW x \in Below(N + 1)
                 PROVE  f1[x] = f2[x]
      OBVIOUS
    <3>1. Below(N) \subseteq Below(N + 1)
      OBVIOUS
    <3>2. \A y \in Below(N) : f1[y] = f2[y]
      BY <2>2, <3>1
    <3>3. x \notin B => h[x] \in Below(N)
      OBVIOUS
    <3>4. f1[x] = Next(f1)[x] /\ f2[x] = Next(f2)[x]
      OBVIOUS
    <3> QED  BY <3>2, <3>3, <3>4
  <2> HIDE DEF S
  <2>3. \A N \in Nat : N \in S
    BY <2>1, <2>2, SetInduction
  <2> QED  BY <2>3 DEF S
<1>4. PICK sol : sol = [N \in Nat |-> CHOOSE f \in [D -> V] : Good(N, f)]
  OBVIOUS
<1>5. \A N \in Nat : sol[N] \in [D -> V] /\ Good(N, sol[N])
  <2> SUFFICES ASSUME NEW N \in Nat PROVE sol[N] \in [D -> V] /\ Good(N, sol[N])
    OBVIOUS
  <2>1. sol[N] = CHOOSE f \in [D -> V] : Good(N, f)
    BY <1>4
  <2> HIDE DEF Good
  <2> QED  BY <1>2, <2>1, Zenon
<1>6. PICK F : F = [x \in D |-> sol[m[x] + 1][x]]
  OBVIOUS
<1> HIDE DEF Good
<1>7. F \in [D -> V]
  <2> SUFFICES ASSUME NEW x \in D PROVE sol[m[x] + 1][x] \in V
    BY <1>6
  <2>1. sol[m[x] + 1] \in [D -> V]
    BY <1>5
  <2> QED  BY <2>1
<1>8. ASSUME NEW x \in D
      PROVE  F[x] = IF x \in B THEN base[x] ELSE g[<<x, F[h[x]]>>]
  <2>1. m[x] + 1 \in Nat /\ h[x] \in D /\ m[h[x]] + 1 \in Nat
    OBVIOUS
  <2>2. PICK f \in [D -> V] : f = sol[m[x] + 1] /\ Good(m[x] + 1, f)
    BY <1>5, <2>1
  <2>3. F[x] = f[x] /\ f[x] = Next(f)[x]
    BY <1>6, <2>2 DEF Good
  <2>4. ASSUME x \notin B PROVE F[h[x]] = f[h[x]]
    <3>1. PICK f2 \in [D -> V] : f2 = sol[m[h[x]] + 1] /\ Good(m[h[x]] + 1, f2)
      BY <1>5, <2>1
    <3>2. Good(m[h[x]] + 1, f)
      BY <2>2, <2>4 DEF Good
    <3>3. h[x] \in Below(m[h[x]] + 1)
      BY <2>1
    <3> HIDE DEF Below
    <3>4. f2[h[x]] = f[h[x]]
      BY <1>3, <2>1, <3>1, <3>2, <3>3
    <3> QED  BY <1>6, <2>1, <3>1, <3>4
  <2> QED  BY <2>3, <2>4
<1> QED  BY <1>7, <1>8

-----------------------------------------------------------------------------
(* Varints (WireFormat) are as long as their size says.                    *)

\* The definition of Varint defines it.
LEMMA VarintDef ==
  \A n \in Nat :
    /\ Varint[n] \in Seq(0..255)
    /\ n < 128 => Varint[n] = <<n>>
    /\ n >= 128 => Varint[n] = <<128 + (n % 128)>> \o Varint[n \div 128]
<1>1. PICK V : V = Seq(0..255)
  OBVIOUS
<1>2. PICK B : B = 0..127
  OBVIOUS
<1>3. PICK m \in [Nat -> Nat] : \A n \in Nat : m[n] = n
  <2> WITNESS [n \in Nat |-> n] \in [Nat -> Nat]
  <2> QED OBVIOUS
<1>4. PICK h \in [Nat -> Nat] : \A n \in Nat : h[n] = n \div 128
  <2> WITNESS [n \in Nat |-> n \div 128] \in [Nat -> Nat]
  <2> QED OBVIOUS
<1>5. PICK base \in [Nat -> V] : \A n \in Nat : n < 128 => base[n] = <<n>>
  <2>1. \A n \in Nat : n < 128 => <<n>> \in V
    <3> SUFFICES ASSUME NEW n \in Nat, n < 128 PROVE <<n>> \in Seq(0..255)
      BY <1>1
    <3>1. n \in 0..255
      OBVIOUS
    <3> QED  BY <3>1
  <2>2. << >> \in V
    BY <1>1
  <2>3. [n \in Nat |-> IF n < 128 THEN <<n>> ELSE << >>] \in [Nat -> V]
    BY <2>1, <2>2
  <2> WITNESS [n \in Nat |-> IF n < 128 THEN <<n>> ELSE << >>] \in [Nat -> V]
  <2> QED  OBVIOUS
<1>6. PICK g \in [Nat \X V -> V] : \A n \in Nat, s \in V : g[<<n, s>>] = <<128 + (n % 128)>> \o s
  <2>1. \A n \in Nat, s \in V : <<128 + (n % 128)>> \o s \in V
    <3> SUFFICES ASSUME NEW n \in Nat, NEW s \in Seq(0..255)
                 PROVE  <<128 + (n % 128)>> \o s \in Seq(0..255)
      BY <1>1
    <3>1. PICK k \in 0..255 : k = 128 + (n % 128)
      OBVIOUS
    <3>2. <<k>> \in Seq(0..255)
      BY <3>1
    <3>3. <<k>> \o s \in Seq(0..255)
      BY <3>2
    <3> QED  BY <3>1, <3>3
  <2>2. [z \in Nat \X V |-> <<128 + (z[1] % 128)>> \o z[2]] \in [Nat \X V -> V]
    BY <2>1
  <2> WITNESS [z \in Nat \X V |-> <<128 + (z[1] % 128)>> \o z[2]] \in [Nat \X V -> V]
  <2> QED  OBVIOUS
<1>7. Recursive(Nat, V, m, B, h, base, g)
  <2>1. \A n \in Nat \ B : m[h[n]] < m[n]
    BY <1>2, <1>3, <1>4
  <2> QED  BY <1>2, <2>1 DEF Recursive
<1>8. PICK f : Solution(f, Nat, V, B, h, base, g)
  BY <1>7, Recursion
<1>9. ASSUME NEW n \in Nat
      PROVE  f[n] = IF n < 128 THEN <<n>> ELSE <<128 + (n % 128)>> \o f[n \div 128]
  <2>1. n \in B <=> n < 128
    BY <1>2
  <2>2. n \div 128 \in Nat /\ f[n \div 128] \in V
    BY <1>8 DEF Solution
  <2>3. g[<<n, f[n \div 128]>>] = <<128 + (n % 128)>> \o f[n \div 128]
    BY <1>6, <2>2
  <2> QED  BY <1>4, <1>5, <1>8, <2>1, <2>3 DEF Solution
<1>10. f = [n \in Nat |-> IF n < 128 THEN <<n>> ELSE <<128 + (n % 128)>> \o f[n \div 128]]
  BY <1>8, <1>9 DEF Solution
<1>11. Varint = [n \in Nat |-> IF n < 128 THEN <<n>>
                              ELSE <<128 + (n % 128)>> \o Varint[n \div 128]]
  BY <1>10, Zenon DEF Varint
<1>12. PICK S : S = {n \in Nat : Varint[n] = f[n]}
  OBVIOUS
<1>13. \A n \in Nat : n \in S
  <2> SUFFICES ASSUME NEW n \in Nat, \A k \in 0..n - 1 : k \in S PROVE n \in S
    BY StrongInduction
  <2>1. n >= 128 => n \div 128 \in 0..n - 1
    OBVIOUS
  <2>2. n >= 128 => Varint[n \div 128] = f[n \div 128]
    BY <1>12, <2>1
  <2>3. Varint[n] = IF n < 128 THEN <<n>> ELSE <<128 + (n % 128)>> \o Varint[n \div 128]
    BY <1>11
  <2>4. Varint[n] = f[n]
    <3>1. CASE n < 128
      <4>1. f[n] = <<n>>
        BY <1>9, <3>1
      <4>2. Varint[n] = <<n>>
        BY <2>3, <3>1
      <4> QED  BY <4>1, <4>2, Zenon
    <3>2. CASE ~(n < 128)
      <4>1. Varint[n \div 128] = f[n \div 128]
        BY <2>2, <3>2
      <4>2. f[n] = <<128 + (n % 128)>> \o f[n \div 128]
        BY <1>9, <3>2
      <4>3. Varint[n] = <<128 + (n % 128)>> \o Varint[n \div 128]
        BY <2>3, <3>2
      <4> QED  BY <4>1, <4>2, <4>3, Zenon
    <3> QED  BY <3>1, <3>2
  <2> QED  BY <1>12, <2>4
<1>14. ASSUME NEW n \in Nat
       PROVE  /\ Varint[n] \in Seq(0..255)
              /\ n < 128 => Varint[n] = <<n>>
              /\ n >= 128 => Varint[n] = <<128 + (n % 128)>> \o Varint[n \div 128]
  <2>1. Varint[n] \in V
    BY <1>8, <1>12, <1>13 DEF Solution
  <2>2. n < 128 => Varint[n] = <<n>>
    BY <1>11
  <2>3. n >= 128 => Varint[n] = <<128 + (n % 128)>> \o Varint[n \div 128]
    <3> SUFFICES ASSUME n >= 128
                 PROVE  Varint[n] = <<128 + (n % 128)>> \o Varint[n \div 128]
      OBVIOUS
    <3>1. ~(n < 128)
      OBVIOUS
    <3> QED  BY <1>11, <3>1
  <2> QED  BY <1>1, <2>1, <2>2, <2>3
<1> QED  BY <1>14

\* The definition of Bits defines it.
LEMMA BitsDef ==
  \A n \in Nat :
    /\ Bits[n] \in Nat \ {0}
    /\ Bits[n] = IF n < 2 THEN 1 ELSE 1 + Bits[n \div 2]
<1>1. PICK B : B = 0..1
  OBVIOUS
<1>2. PICK m \in [Nat -> Nat] : \A n \in Nat : m[n] = n
  <2> WITNESS [n \in Nat |-> n] \in [Nat -> Nat]
  <2> QED OBVIOUS
<1>3. PICK h \in [Nat -> Nat] : \A n \in Nat : h[n] = n \div 2
  <2> WITNESS [n \in Nat |-> n \div 2] \in [Nat -> Nat]
  <2> QED OBVIOUS
<1>4. PICK base \in [Nat -> Nat \ {0}] : \A n \in Nat : base[n] = 1
  <2> WITNESS [n \in Nat |-> 1] \in [Nat -> Nat \ {0}]
  <2> QED  OBVIOUS
<1>5. PICK g \in [Nat \X (Nat \ {0}) -> Nat \ {0}] :
        \A n \in Nat, k \in Nat \ {0} : g[<<n, k>>] = 1 + k
  <2>1. [z \in Nat \X (Nat \ {0}) |-> 1 + z[2]] \in [Nat \X (Nat \ {0}) -> Nat \ {0}]
    OBVIOUS
  <2> WITNESS [z \in Nat \X (Nat \ {0}) |-> 1 + z[2]] \in [Nat \X (Nat \ {0}) -> Nat \ {0}]
  <2> QED  OBVIOUS
<1>6. Recursive(Nat, Nat \ {0}, m, B, h, base, g)
  <2>1. \A n \in Nat \ B : m[h[n]] < m[n]
    BY <1>1, <1>2, <1>3
  <2> QED  BY <1>1, <2>1 DEF Recursive
<1>7. PICK f : Solution(f, Nat, Nat \ {0}, B, h, base, g)
  BY <1>6, Recursion
<1>8. ASSUME NEW n \in Nat
      PROVE  f[n] = IF n < 2 THEN 1 ELSE 1 + f[n \div 2]
  <2>1. n \in B <=> n < 2
    BY <1>1
  <2>2. n \div 2 \in Nat /\ f[n \div 2] \in Nat \ {0}
    BY <1>7 DEF Solution
  <2>3. g[<<n, f[n \div 2]>>] = 1 + f[n \div 2]
    BY <1>5, <2>2
  <2> QED  BY <1>3, <1>4, <1>7, <2>1, <2>3 DEF Solution
<1>9. f = [n \in Nat |-> IF n < 2 THEN 1 ELSE 1 + f[n \div 2]]
  BY <1>7, <1>8 DEF Solution
<1>10. Bits = [n \in Nat |-> IF n < 2 THEN 1 ELSE 1 + Bits[n \div 2]]
  BY <1>9, Zenon DEF Bits
<1>11. PICK S : S = {n \in Nat : Bits[n] \in Nat \ {0}}
  OBVIOUS
<1>12. \A n \in Nat : n \in S
  <2> SUFFICES ASSUME NEW n \in Nat, \A k \in 0..n - 1 : k \in S PROVE n \in S
    BY StrongInduction
  <2>1. n >= 2 => n \div 2 \in 0..n - 1
    OBVIOUS
  <2>2. n >= 2 => Bits[n \div 2] \in Nat \ {0}
    BY <1>11, <2>1
  <2>3. Bits[n] = IF n < 2 THEN 1 ELSE 1 + Bits[n \div 2]
    BY <1>10
  <2> QED  BY <1>11, <2>2, <2>3
<1> QED  BY <1>10, <1>11, <1>12

\* Up to seven bits, which is one byte of a varint,
LEMMA BitsOfByte ==
  \A n \in Nat : n < 128 => Bits[n] \in 1..7
<1>1. \A n \in Nat : n < 2 => Bits[n] \in 1..1
  BY BitsDef
<1>2. \A n \in Nat : n < 4 => Bits[n] \in 1..2
  BY <1>1, BitsDef
<1>3. \A n \in Nat : n < 8 => Bits[n] \in 1..3
  BY <1>2, BitsDef
<1>4. \A n \in Nat : n < 16 => Bits[n] \in 1..4
  BY <1>3, BitsDef
<1>5. \A n \in Nat : n < 32 => Bits[n] \in 1..5
  BY <1>4, BitsDef
<1>6. \A n \in Nat : n < 64 => Bits[n] \in 1..6
  BY <1>5, BitsDef
<1> QED  BY <1>6, BitsDef

\* and seven more for every other byte.
LEMMA BitsShift ==
  \A n \in Nat : n >= 128 => Bits[n] = 7 + Bits[n \div 128]
<1> SUFFICES ASSUME NEW n \in Nat, n >= 128 PROVE Bits[n] = 7 + Bits[n \div 128]
  OBVIOUS
<1>0. \A k \in Nat : k >= 2 => Bits[k] = 1 + Bits[k \div 2]
  BY BitsDef
<1>1. PICK a \in Nat : a = n \div 2 /\ a >= 64
  OBVIOUS
<1>2. PICK b \in Nat : b = a \div 2 /\ b >= 32
  BY <1>1
<1>3. PICK c \in Nat : c = b \div 2 /\ c >= 16
  BY <1>2
<1>4. PICK d \in Nat : d = c \div 2 /\ d >= 8
  BY <1>3
<1>5. PICK e \in Nat : e = d \div 2 /\ e >= 4
  BY <1>4
<1>6. PICK f \in Nat : f = e \div 2 /\ f >= 2
  BY <1>5
<1>7. PICK g \in Nat : g = f \div 2
  OBVIOUS
<1>8. g = n \div 128
  <2>1. n - 2 * a \in 0..1 /\ a - 2 * b \in 0..1 /\ b - 2 * c \in 0..1
    BY <1>1, <1>2, <1>3
  <2>2. c - 2 * d \in 0..1 /\ d - 2 * e \in 0..1
    BY <1>4, <1>5
  <2>3. e - 2 * f \in 0..1 /\ f - 2 * g \in 0..1
    BY <1>6, <1>7
  <2>4. n - 128 * g \in 0..127
    BY <2>1, <2>2, <2>3
  <2> HIDE <1>1, <1>2, <1>3, <1>4, <1>5, <1>6, <1>7
  <2> QED  BY <2>4
<1>9. Bits[g] \in Nat
  BY BitsDef
<1>10. Bits[f] = 1 + Bits[g] /\ Bits[e] = 1 + Bits[f] /\ Bits[d] = 1 + Bits[e]
  BY <1>0, <1>4, <1>5, <1>6, <1>7
<1>11. Bits[c] = 1 + Bits[d] /\ Bits[b] = 1 + Bits[c] /\ Bits[a] = 1 + Bits[b]
  BY <1>0, <1>1, <1>2, <1>3, <1>4
<1>12. Bits[n] = 1 + Bits[a]
  BY <1>0, <1>1
<1> QED  BY <1>8, <1>9, <1>10, <1>11, <1>12

\* sovProtocol and sovConfig compute exactly the number of bytes that
\* encodeVarint writes, for every number: the offsets of MarshalToSizedBuffer,
\* which counts backwards from Size, never fall apart from what is written.
THEOREM SizeIsLength ==
  \A n \in Nat : Len(Varint[n]) = SizeOfVarint(n)
<1>1. PICK S : S = {n \in Nat : Len(Varint[n]) = SizeOfVarint(n)}
  OBVIOUS
<1>2. \A n \in Nat : n \in S
  <2> SUFFICES ASSUME NEW n \in Nat, \A k \in 0..n - 1 : k \in S PROVE n \in S
    BY StrongInduction
  <2>1. CASE n < 128
    <3>1. Varint[n] = <<n>>
      BY <2>1, VarintDef
    <3>2. SizeOfVarint(n) = 1
      BY <2>1, BitsOfByte DEF SizeOfVarint
    <3> QED  BY <1>1, <3>1, <3>2
  <2>2. CASE n >= 128
    <3>1. PICK q \in Nat : q = n \div 128 /\ q \in 0..n - 1
      BY <2>2
    <3>2. Len(Varint[q]) = SizeOfVarint(q)
      BY <1>1, <3>1
    <3>3. PICK v \in Seq(0..255) : v = Varint[q]
      BY VarintDef
    <3>4. Varint[n] = <<128 + (n % 128)>> \o v
      <4>1. Varint[n] = <<128 + (n % 128)>> \o Varint[n \div 128]
        BY <2>2, VarintDef
      <4> QED  BY <3>1, <3>3, <4>1, Zenon
    <3>5. Len(Varint[n]) = 1 + Len(v)
      BY <3>4
    <3>6. SizeOfVarint(n) = 1 + SizeOfVarint(q)
      <4>1. Bits[n] = 7 + Bits[q] /\ Bits[q] \in Nat
        BY <2>2, <3>1, BitsShift, BitsDef
      <4> QED  BY <4>1 DEF SizeOfVarint
    <3> QED  BY <1>1, <3>2, <3>3, <3>5, <3>6
  <2> QED  BY <2>1, <2>2
<1> QED  BY <1>1, <1>2

-----------------------------------------------------------------------------
(* What is written is found again.                                         *)

\* The bytes v are in b from i on.
OccursAt(b, i, v) == /\ i + Len(v) - 1 <= Len(b)
                     /\ \A k \in 1..Len(v) : b[i + k - 1] = v[k]

\* The varint of n begins with the lower bits r and goes on with the one of q.
Continued(n, q, r, v) ==
  /\ n = 128 * q + r /\ q = n \div 128
  /\ v = Varint[q]
  /\ Varint[n] = <<128 + r>> \o v
  /\ Len(Varint[n]) = 1 + Len(v)
  /\ Varint[n][1] = 128 + r
  /\ \A k \in 1..Len(v) : Varint[n][k + 1] = v[k]

\* A number that needs more than seven bits is continued.
LEMMA VarintStep ==
  ASSUME NEW n \in Nat, n >= 128
  PROVE  \E q \in 1..n - 1, r \in 0..127, v \in Seq(0..255) : Continued(n, q, r, v)
<1>1. PICK q \in 1..n - 1, r \in 0..127 : n = 128 * q + r /\ q = n \div 128 /\ r = n % 128
  OBVIOUS
<1>2. PICK v \in Seq(0..255) : v = Varint[q]
  <2>1. q \in Nat
    OBVIOUS
  <2>2. Varint[q] \in Seq(0..255)
    BY <2>1, VarintDef
  <2> QED  BY <2>2
<1>3. Varint[n] = <<128 + r>> \o v
  <2>1. Varint[n] = <<128 + (n % 128)>> \o Varint[n \div 128]
    BY VarintDef
  <2> QED  BY <1>1, <1>2, <2>1, Zenon
<1>4. PICK x \in 128..255 : x = 128 + r
  OBVIOUS
<1>5. PICK w : w = <<x>> \o v
  OBVIOUS
<1>6. /\ Len(w) = 1 + Len(v) /\ w[1] = x
      /\ \A k \in 1..Len(v) : w[k + 1] = v[k]
  BY <1>5
<1>7. w = Varint[n]
  BY <1>3, <1>4, <1>5, Zenon
<1>8. /\ Len(Varint[n]) = 1 + Len(v) /\ Varint[n][1] = 128 + r
      /\ \A k \in 1..Len(v) : Varint[n][k + 1] = v[k]
  BY <1>4, <1>6, <1>7, Zenon
<1> QED  BY <1>1, <1>2, <1>3, <1>8 DEF Continued

\* The last byte of a varint is the first one below 128.
LEMMA VarintForm ==
  \A n \in Nat :
    /\ Len(Varint[n]) \in Nat \ {0}
    /\ Varint[n][Len(Varint[n])] < 128
    /\ \A k \in 1..Len(Varint[n]) - 1 : Varint[n][k] >= 128
<1> DEFINE Form(v) == /\ Len(v) \in Nat \ {0} /\ v[Len(v)] < 128
                      /\ \A k \in 1..Len(v) - 1 : v[k] >= 128
<1>1. PICK S : S = {n \in Nat : Form(Varint[n])}
  OBVIOUS
<1>2. \A n \in Nat : n \in S
  <2> SUFFICES ASSUME NEW n \in Nat, \A k \in 0..n - 1 : k \in S PROVE n \in S
    BY StrongInduction
  <2>1. CASE n < 128
    <3>1. PICK v : v = Varint[n] /\ v = <<n>>
      BY <2>1, VarintDef
    <3>2. Form(v)
      BY <2>1, <3>1
    <3> QED  BY <1>1, <3>1, <3>2
  <2>2. CASE n >= 128
    <3>1. PICK q \in 1..n - 1, r \in 0..127, v \in Seq(0..255) : Continued(n, q, r, v)
      BY <2>2, VarintStep
    <3> USE DEF Continued
    <3>2. Form(v)
      BY <1>1, <3>1
    <3>3. ASSUME NEW k \in 1..Len(v) PROVE Varint[n][k] >= 128
      <4>1. CASE k = 1
        <5>1. Varint[n][1] = 128 + r
          BY <3>1
        <5> QED  BY <4>1, <5>1
      <4>2. CASE k > 1
        <5>1. k - 1 \in 1..Len(v) - 1 /\ Varint[n][(k - 1) + 1] = v[k - 1]
          BY <3>1, <4>2
        <5> QED  BY <3>2, <5>1
      <4> QED  BY <4>1, <4>2
    <3>4. Varint[n][Len(Varint[n])] < 128
      <4>1. Len(v) \in 1..Len(v) /\ v[Len(v)] < 128
        BY <3>2
      <4>2. Varint[n][Len(v) + 1] = v[Len(v)]
        BY <3>1, <4>1
      <4>3. Len(Varint[n]) = Len(v) + 1
        BY <3>1
      <4> QED  BY <4>1, <4>2, <4>3
    <3> QED  BY <1>1, <3>1, <3>3, <3>4
  <2> QED  BY <2>1, <2>2
<1> QED  BY <1>1, <1>2

\* The definition of ValueUpTo defines it.
LEMMA ValueDef ==
  ASSUME NEW b \in Seq(0..255), NEW e \in 1..Len(b)
  PROVE  /\ ValueUpTo(b, e)[e] = b[e] % 128
         /\ \A k \in 1..e - 1 : /\ ValueUpTo(b, e)[k + 1] \in Nat
                                /\ ValueUpTo(b, e)[k] = (b[k] % 128) + 128 * ValueUpTo(b, e)[k + 1]
<1> DEFINE D == 1..e
<1>1. \A k \in D : b[k] \in 0..255
  <2> SUFFICES ASSUME NEW k \in D PROVE b[k] \in 0..255
    OBVIOUS
  <2>1. k \in 1..Len(b)
    OBVIOUS
  <2> HIDE DEF D
  <2> QED  BY <2>1, ElementOfSeq
<1>2. \A k \in D : b[k] % 128 \in Nat
  <2> SUFFICES ASSUME NEW k \in D PROVE b[k] % 128 \in Nat
    OBVIOUS
  <2>1. PICK x \in 0..255 : x = b[k]
    BY <1>1
  <2>2. x % 128 \in Nat
    OBVIOUS
  <2> QED  BY <2>1, <2>2
<1> DEFINE m    == [k \in D |-> e - k]
           B    == {e}
           h    == [k \in D |-> IF k = e THEN e ELSE k + 1]
           base == [k \in D |-> b[k] % 128]
           g    == [z \in D \X Nat |-> (b[z[1]] % 128) + 128 * z[2]]
<1>3. base \in [D -> Nat]
  BY <1>2
<1>4. g \in [D \X Nat -> Nat]
  <2>1. \A z \in D \X Nat : (b[z[1]] % 128) + 128 * z[2] \in Nat
    <3> SUFFICES ASSUME NEW k \in D, NEW v \in Nat PROVE (b[k] % 128) + 128 * v \in Nat
      OBVIOUS
    <3>1. b[k] % 128 \in Nat
      BY <1>2
    <3> HIDE DEF D
    <3> QED  BY <3>1
  <2> QED  BY <2>1
<1>5. m \in [D -> Nat] /\ h \in [D -> D] /\ B \in SUBSET D
  OBVIOUS
<1>6. \A k \in D \ B : m[h[k]] < m[k]
  <2> SUFFICES ASSUME NEW k \in D \ B PROVE m[h[k]] < m[k]
    OBVIOUS
  <2>1. h[k] = k + 1 /\ k + 1 \in D
    OBVIOUS
  <2>2. m[k + 1] = e - (k + 1) /\ m[k] = e - k
    BY <2>1
  <2> QED  BY <2>1, <2>2
<1>7. Recursive(D, Nat, m, B, h, base, g)
  <2> HIDE DEF D, m, B, h, base, g
  <2> QED  BY <1>3, <1>4, <1>5, <1>6 DEF Recursive
<1>8. PICK f : Solution(f, D, Nat, B, h, base, g)
  <2> HIDE DEF D, m, B, h, base, g
  <2> QED  BY <1>7, Recursion
<1>9. ASSUME NEW k \in D
      PROVE  f[k] = (b[k] % 128) + (IF k = e THEN 0 ELSE 128 * f[k + 1])
  <2>0. f[k] = IF k \in B THEN base[k] ELSE g[<<k, f[h[k]]>>]
    BY <1>8 DEF Solution
  <2>1. CASE k = e
    <3>1. f[k] = b[k] % 128
      BY <2>0, <2>1
    <3> QED  BY <1>2, <2>1, <3>1
  <2>2. CASE k # e
    <3>1. h[k] = k + 1 /\ k + 1 \in D /\ k \notin B
      BY <2>2
    <3>2. f[k + 1] \in Nat
      BY <1>8, <3>1 DEF Solution
    <3>3. f[k] = g[<<k, f[k + 1]>>]
      BY <2>0, <3>1
    <3>4. g[<<k, f[k + 1]>>] = (b[k] % 128) + 128 * f[k + 1]
      BY <3>2
    <3> QED  BY <2>2, <3>3, <3>4
  <2> QED  BY <2>1, <2>2
<1>10. f = [k \in 1..e |-> (b[k] % 128) + (IF k = e THEN 0 ELSE 128 * f[k + 1])]
  <2>1. f \in [D -> Nat]
    BY <1>8 DEF Solution
  <2> QED  BY <1>9, <2>1
<1>11. ValueUpTo(b, e) = [k \in 1..e |-> (b[k] % 128) +
                            (IF k = e THEN 0 ELSE 128 * ValueUpTo(b, e)[k + 1])]
  <2> HIDE DEF D, m, B, h, base, g
  <2> QED  BY <1>10, Zenon DEF ValueUpTo
<1>12. PICK V : V = ValueUpTo(b, e)
  OBVIOUS
<1>13. \A k \in D : V[k] = (b[k] % 128) + (IF k = e THEN 0 ELSE 128 * V[k + 1])
  BY <1>11, <1>12
<1> HIDE DEF m, B, h, base, g
<1>14. V[e] = b[e] % 128
  <2>1. e \in D /\ V[e] = (b[e] % 128) + 0
    BY <1>13
  <2> QED  BY <1>2, <2>1
<1>15. PICK S : S = {j \in Nat : j < e => V[e - j] \in Nat}
  OBVIOUS
<1>16. \A j \in Nat : j \in S
  <2>1. 0 \in S
    BY <1>2, <1>14, <1>15
  <2>2. ASSUME NEW j \in Nat, j \in S PROVE j + 1 \in S
    <3> SUFFICES ASSUME j + 1 < e PROVE V[e - (j + 1)] \in Nat
      BY <1>15
    <3>1. PICK k \in D : k = e - (j + 1) /\ k # e /\ k + 1 = e - j
      OBVIOUS
    <3>2. V[k + 1] \in Nat
      BY <1>15, <2>2, <3>1
    <3>3. V[k] = (b[k] % 128) + 128 * V[k + 1]
      BY <1>13, <3>1
    <3>4. b[k] % 128 \in Nat
      BY <1>2
    <3>5. V[k] \in Nat
      BY <3>2, <3>3, <3>4
    <3> QED  BY <3>1, <3>5
  <2> QED  BY <2>1, <2>2, SetInduction
<1>17. ASSUME NEW k \in 1..e - 1
       PROVE  V[k + 1] \in Nat /\ V[k] = (b[k] % 128) + 128 * V[k + 1]
  <2>1. PICK j \in Nat : j = e - (k + 1) /\ j < e /\ k + 1 = e - j
    OBVIOUS
  <2>2. V[k + 1] \in Nat
    BY <1>15, <1>16, <2>1
  <2>3. k \in D /\ k # e
    OBVIOUS
  <2>4. V[k] = (b[k] % 128) + 128 * V[k + 1]
    BY <1>13, <2>3
  <2> QED  BY <2>2, <2>4
<1> QED  BY <1>12, <1>14, <1>17

\* The upper bit of a byte is dropped.
LEMMA LowBits ==
  \A r \in 0..127 : (128 + r) % 128 = r
  OBVIOUS

\* Bytes are bytes.
LEMMA ByteAt ==
  ASSUME NEW b \in Seq(0..255), NEW k \in 1..Len(b)
  PROVE  b[k] \in 0..255
  BY ElementOfSeq

\* A reader stops at the last byte of a varint.
LEMMA EndOfVarint ==
  ASSUME NEW n \in Nat, Bits[n] <= Width64, NEW b \in Seq(0..255),
         NEW i \in Nat \ {0}, OccursAt(b, i, Varint[n])
  PROVE  VarintEnd(b, i) = {i + SizeOfVarint(n) - 1}
<1>1. PICK l \in Nat \ {0} : l = Len(Varint[n]) /\ l = SizeOfVarint(n)
  BY VarintForm, SizeIsLength
<1>2. PICK v : v = Varint[n] /\ v[l] < 128 /\ \A k \in 1..l - 1 : v[k] >= 128
  BY <1>1, VarintForm
<1>3. i + l - 1 <= Len(b) /\ \A k \in 1..l : b[i + k - 1] = v[k]
  BY <1>1, <1>2 DEF OccursAt
<1>4. PICK e \in Nat : e = i + l - 1
  OBVIOUS
<1>5. b[e] < 128
  <2>1. l \in 1..l /\ b[i + l - 1] = v[l]
    BY <1>3
  <2> QED  BY <1>2, <1>4, <2>1
<1>6. \A k \in i..e - 1 : b[k] >= 128
  <2> SUFFICES ASSUME NEW k \in i..e - 1 PROVE b[k] >= 128
    OBVIOUS
  <2>1. PICK j \in 1..l - 1 : k = i + j - 1
    <3>1. k - i + 1 \in 1..l - 1 /\ k = i + (k - i + 1) - 1
      BY <1>4
    <3> QED  BY <3>1
  <2>2. j \in 1..l /\ b[i + j - 1] = v[j] /\ v[j] >= 128
    BY <1>2, <1>3
  <2> QED  BY <2>1, <2>2
<1>7. e \in i..i + ((Width64 - 1) \div 7)
  <2>1. Bits[n] \in Nat \ {0}
    BY BitsDef
  <2>2. l = (Bits[n] + 6) \div 7
    BY <1>1 DEF SizeOfVarint
  <2>3. PICK c \in Nat \ {0} : c = Bits[n] /\ c <= Width64 /\ l = (c + 6) \div 7
    BY <2>1, <2>2
  <2>4. PICK w \in Nat : w = Width64 /\ c <= w
    BY <2>3, Width64Assumption
  <2>5. l - 1 <= (w - 1) \div 7
    BY <2>3, <2>4
  <2> QED  BY <1>4, <2>4, <2>5
<1>8. e \in VarintEnd(b, i)
  BY <1>3, <1>4, <1>5, <1>6, <1>7 DEF VarintEnd
<1>9. ASSUME NEW d \in VarintEnd(b, i) PROVE d = e
  <2>1. d \in Int /\ d >= i /\ b[d] < 128 /\ \A k \in i..d - 1 : b[k] >= 128
    BY Width64Assumption DEF VarintEnd
  <2>2. d <= Len(b) /\ b[d] \in 0..255 /\ b[e] \in 0..255
    <3>1. d \in 1..Len(b) /\ e \in 1..Len(b)
      BY <1>3, <1>4, <2>1 DEF VarintEnd
    <3> QED  BY <3>1, ByteAt
  <2>3. ~(d < e)
    <3> SUFFICES ASSUME d < e PROVE FALSE
      OBVIOUS
    <3>1. d \in i..e - 1
      BY <2>1
    <3>2. PICK x \in 0..255 : x = b[d]
      BY <2>2
    <3>3. x >= 128 /\ x < 128
      BY <1>6, <2>1, <3>1, <3>2, Zenon
    <3> QED  BY <3>3
  <2>4. ~(e < d)
    <3> SUFFICES ASSUME e < d PROVE FALSE
      OBVIOUS
    <3>1. e \in i..d - 1
      BY <1>1, <1>4, <2>1
    <3>2. PICK x \in 0..255 : x = b[e]
      BY <2>2
    <3>3. x >= 128 /\ x < 128
      BY <1>5, <2>1, <3>1, <3>2, Zenon
    <3> QED  BY <3>3
  <2> QED  BY <2>1, <2>3, <2>4
<1> QED  BY <1>1, <1>4, <1>8, <1>9

\* The bytes of a varint are worth its number.
LEMMA ValueOfVarint ==
  ASSUME NEW b \in Seq(0..255), NEW e \in 1..Len(b)
  PROVE  \A n \in Nat, i \in Nat \ {0} :
           OccursAt(b, i, Varint[n]) /\ i + Len(Varint[n]) - 1 = e
             => ValueUpTo(b, e)[i] = n
<1> DEFINE Holds(n) == \A i \in Nat \ {0} :
             OccursAt(b, i, Varint[n]) /\ i + Len(Varint[n]) - 1 = e
               => ValueUpTo(b, e)[i] = n
<1>1. PICK S : S = {n \in Nat : Holds(n)}
  OBVIOUS
<1>2. \A n \in Nat : n \in S
  <2> SUFFICES ASSUME NEW n \in Nat, \A k \in 0..n - 1 : k \in S PROVE n \in S
    BY StrongInduction
  <2>1. SUFFICES ASSUME NEW i \in Nat \ {0}, OccursAt(b, i, Varint[n]),
                        i + Len(Varint[n]) - 1 = e
                 PROVE  ValueUpTo(b, e)[i] = n
    BY <1>1
  <2>2. CASE n < 128
    <3>1. PICK v : v = Varint[n] /\ v = <<n>>
      BY <2>2, VarintDef
    <3>2. Len(v) = 1 /\ v[1] = n
      BY <3>1
    <3>3. i = e /\ b[i] = n
      <4>1. 1 \in 1..Len(v) /\ b[i + 1 - 1] = v[1]
        BY <2>1, <3>1, <3>2 DEF OccursAt
      <4>2. i = e
        BY <2>1, <3>1, <3>2
      <4> QED  BY <3>2, <4>1, <4>2
    <3>4. ValueUpTo(b, e)[e] = b[e] % 128
      BY ValueDef
    <3>5. n % 128 = n
      BY <2>2
    <3> QED  BY <3>3, <3>4, <3>5, Zenon
  <2>3. CASE n >= 128
    <3>1. PICK q \in 1..n - 1, r \in 0..127, v \in Seq(0..255) : Continued(n, q, r, v)
      BY <2>3, VarintStep
    <3> USE DEF Continued
    <3>2. PICK l \in Nat \ {0} : l = Len(v) /\ Len(Varint[n]) = 1 + l
      BY <3>1, VarintForm
    <3>3. e = i + l /\ i \in 1..e - 1
      BY <2>1, <3>2
    <3>4. OccursAt(b, i + 1, Varint[q])
      <4>1. (i + 1) + l - 1 <= Len(b)
        BY <3>3
      <4>2. ASSUME NEW k \in 1..l PROVE b[(i + 1) + k - 1] = v[k]
        <5>1. k + 1 \in 1..1 + l /\ i + (k + 1) - 1 = (i + 1) + k - 1
          OBVIOUS
        <5>2. b[i + (k + 1) - 1] = Varint[n][k + 1]
          BY <2>1, <3>2, <5>1 DEF OccursAt
        <5>3. Varint[n][k + 1] = v[k]
          BY <3>1, <3>2
        <5> QED  BY <5>1, <5>2, <5>3
      <4> QED  BY <3>1, <3>2, <4>1, <4>2 DEF OccursAt
    <3>5. ValueUpTo(b, e)[i + 1] = q
      <4>1. q \in 0..n - 1
        OBVIOUS
      <4>2. Holds(q)
        BY <1>1, <4>1
      <4>3. (i + 1) + Len(Varint[q]) - 1 = e /\ i + 1 \in Nat \ {0}
        <5>1. Len(Varint[q]) = l
          BY <3>1, <3>2, Zenon
        <5>2. (i + 1) + l - 1 = e /\ i + 1 \in Nat \ {0}
          BY <3>3
        <5> QED  BY <5>1, <5>2, Zenon
      <4> QED  BY <3>4, <4>2, <4>3
    <3>6. b[i] = 128 + r
      <4>1. 1 \in 1..Len(Varint[n]) /\ i + 1 - 1 = i
        BY <3>2
      <4>2. b[i + 1 - 1] = Varint[n][1]
        BY <2>1, <4>1 DEF OccursAt
      <4>3. Varint[n][1] = 128 + r
        BY <3>1
      <4> QED  BY <4>1, <4>2, <4>3
    <3>7. ValueUpTo(b, e)[i] = (b[i] % 128) + 128 * ValueUpTo(b, e)[i + 1]
      BY <3>3, ValueDef
    <3>8. (128 + r) % 128 = r
      BY LowBits
    <3>9. n = 128 * q + r
      BY <3>1
    <3>10. ValueUpTo(b, e)[i] = r + 128 * q
      BY <3>5, <3>6, <3>7, <3>8, Zenon
    <3>11. r + 128 * q = 128 * q + r
      OBVIOUS
    <3> QED  BY <3>9, <3>10, <3>11, Zenon
  <2> QED  BY <2>2, <2>3
<1> QED  BY <1>1, <1>2

\* Every number that fits the reader's type is read back by the loops of the
\* Unmarshal functions, wherever its bytes are and whatever is around them:
\* the loop ends at its last byte, without an overflow, and the value is the
\* number, of which a narrower type keeps the lower bits.
THEOREM NumbersAreReadBack ==
  ASSUME NEW n \in Nat, Bits[n] <= Width64, NEW b \in Seq(0..255),
         NEW i \in Nat \ {0}, OccursAt(b, i, Varint[n]), NEW width
  PROVE  \E e \in 1..Len(b) : /\ VarintEnd(b, i) = {e}
                              /\ e = i + SizeOfVarint(n) - 1
                              /\ ReadVarint(b, i, e, width) = n % 2^width
<1>1. PICK l \in Nat \ {0} : l = Len(Varint[n]) /\ l = SizeOfVarint(n)
  BY VarintForm, SizeIsLength
<1>2. PICK e \in 1..Len(b) : e = i + l - 1
  <2>1. i + l - 1 <= Len(b)
    BY <1>1 DEF OccursAt
  <2>2. i + l - 1 \in 1..Len(b)
    BY <2>1
  <2> QED  BY <2>2
<1>3. VarintEnd(b, i) = {e}
  BY <1>1, <1>2, EndOfVarint
<1>4. ValueUpTo(b, e)[i] = n
  BY <1>1, <1>2, ValueOfVarint
<1> QED  BY <1>1, <1>2, <1>3, <1>4 DEF ReadVarint

\* Bytes in a row are where the ones before them end.
LEMMA OccursParts ==
  ASSUME NEW b \in Seq(0..255), NEW i \in Nat \ {0},
         NEW v \in Seq(0..255), NEW w \in Seq(0..255), OccursAt(b, i, v \o w)
  PROVE  OccursAt(b, i, v) /\ OccursAt(b, i + Len(v), w)
<1>1. PICK l \in Nat, k \in Nat, c \in Nat : l = Len(v) /\ k = Len(w) /\ c = Len(b)
  OBVIOUS
<1>2. PICK u \in Seq(0..255) : u = v \o w
  <2>1. v \o w \in Seq(0..255)
    BY ConcatProperties
  <2> QED  BY <2>1
<1>3. /\ Len(u) = l + k
      /\ \A j \in 1..l : u[j] = v[j]
      /\ \A j \in 1..k : u[l + j] = w[j]
  BY <1>1, <1>2
<1>4. i + (l + k) - 1 <= c /\ \A j \in 1..l + k : b[i + j - 1] = u[j]
  BY <1>1, <1>2, <1>3 DEF OccursAt
<1>5. OccursAt(b, i, v)
  <2>1. i + l - 1 <= c
    BY <1>4
  <2>2. ASSUME NEW j \in 1..l PROVE b[i + j - 1] = v[j]
    <3>1. j \in 1..l + k
      OBVIOUS
    <3>2. b[i + j - 1] = u[j]
      BY <1>4, <3>1
    <3> QED  BY <1>3, <3>2
  <2> QED  BY <1>1, <2>1, <2>2 DEF OccursAt
<1>6. OccursAt(b, i + l, w)
  <2>1. (i + l) + k - 1 <= c
    BY <1>4
  <2>2. ASSUME NEW j \in 1..k PROVE b[(i + l) + j - 1] = w[j]
    <3>1. l + j \in 1..l + k /\ i + (l + j) - 1 = (i + l) + j - 1
      OBVIOUS
    <3>2. b[i + (l + j) - 1] = u[l + j]
      BY <1>4, <3>1
    <3> QED  BY <1>3, <3>1, <3>2
  <2> QED  BY <1>1, <2>1, <2>2 DEF OccursAt
<1> QED  BY <1>1, <1>5, <1>6

\* Bytes that are somewhere are cut out there.
LEMMA OccursIsPart ==
  ASSUME NEW b \in Seq(0..255), NEW i \in Nat \ {0}, NEW v \in Seq(0..255),
         OccursAt(b, i, v)
  PROVE  SubSeq(b, i, i + Len(v) - 1) = v
<1>1. PICK l \in Nat : l = Len(v)
  OBVIOUS
<1>2. i + l - 1 <= Len(b) /\ \A j \in 1..l : b[i + j - 1] = v[j]
  BY <1>1 DEF OccursAt
<1>3. PICK s : s = SubSeq(b, i, i + l - 1)
  OBVIOUS
<1>4. s \in Seq(0..255) /\ Len(s) = l /\ \A j \in 1..l : s[j] = b[i + j - 1]
  <2>1. PICK t \in Int : t = i + l - 1 /\ t <= Len(b)
    BY <1>2
  <2>2. ASSUME NEW j \in i..t PROVE b[j] \in 0..255
    <3>1. j \in 1..Len(b)
      BY <2>1
    <3> QED  BY <3>1, ElementOfSeq
  <2>3. /\ s \in Seq(0..255) /\ Len(s) = IF i <= t THEN t - i + 1 ELSE 0
        /\ \A j \in 1..t - i + 1 : s[j] = b[i + j - 1]
    BY <1>3, <2>1, <2>2, SubSeqProperties
  <2>4. t - i + 1 = l /\ (i <= t => l > 0) /\ (~(i <= t) => l = 0)
    BY <2>1
  <2> QED  BY <2>3, <2>4
<1>5. s = v
  <2>1. \A j \in 1..l : s[j] = v[j]
    BY <1>2, <1>4
  <2> QED  BY <1>1, <1>4, <2>1, SeqEqual
<1> QED  BY <1>1, <1>3, <1>5

\* Bytes, strings and messages of every length that fits an int, written by
\* encodeVarint and copy, are cut out by the reader exactly, wherever they are
\* and whatever is in them or around them, and the reader goes on behind them.
\* The two hypotheses say that the length fits an int; the second one does so
\* without an order of the powers of two, of which the provers know nothing.
THEOREM PiecesAreReadBack ==
  ASSUME NEW s \in Seq(0..255), Bits[Len(s)] <= Width64,
         Len(s) % 2^Width64 = Len(s),
         NEW b \in Seq(0..255), NEW i \in Nat \ {0}, OccursAt(b, i, Prefixed(s))
  PROVE  \E from, to \in Nat :
           /\ Extent(b, i, 2) = {<<from, to>>}
           /\ SubSeq(b, from, to) = s
           /\ to = i + Len(Prefixed(s)) - 1
<1>1. PICK n \in Nat : n = Len(s)
  OBVIOUS
<1>2. PICK v \in Seq(0..255) : v = Varint[n]
  <2>1. Varint[n] \in Seq(0..255)
    BY VarintDef
  <2> QED  BY <2>1
<1>3. Prefixed(s) = v \o s
  BY <1>1, <1>2, Zenon DEF Prefixed
<1>4. OccursAt(b, i, v) /\ OccursAt(b, i + Len(v), s)
  BY <1>3, OccursParts
<1>5. PICK e \in 1..Len(b) : /\ VarintEnd(b, i) = {e}
                             /\ e = i + SizeOfVarint(n) - 1
                             /\ ReadVarint(b, i, e, Width64) = n % 2^Width64
  <2>1. OccursAt(b, i, Varint[n]) /\ Bits[n] <= Width64
    BY <1>1, <1>2, <1>4
  <2> QED  BY <2>1, NumbersAreReadBack
<1>6. ReadVarint(b, i, e, Width64) = n
  BY <1>1, <1>5
<1>7. PICK l \in Nat \ {0} : l = Len(v) /\ l = SizeOfVarint(n)
  BY <1>2, VarintForm, SizeIsLength
<1>8. e = i + l - 1 /\ e \in Nat
  BY <1>5, <1>7
<1>9. OccursAt(b, e + 1, s)
  <2>1. e + 1 = i + l
    BY <1>8
  <2> QED  BY <1>4, <1>7, <2>1
<1>10. e + n <= Len(b)
  <2>1. (e + 1) + n - 1 <= Len(b)
    BY <1>1, <1>9 DEF OccursAt
  <2> QED  BY <1>8, <2>1
<1>11. Extent(b, i, 2) = {<<e + 1, e + n>>}
  <2>1. Extent(b, i, 2) = {x \in {<<e + 1, e + n>>} : x[2] <= Len(b)}
    BY <1>5, <1>6 DEF Extent
  <2> QED  BY <1>10, <2>1
<1>12. SubSeq(b, e + 1, e + n) = s
  <2>1. SubSeq(b, e + 1, (e + 1) + n - 1) = s
    BY <1>1, <1>8, <1>9, OccursIsPart
  <2>2. (e + 1) + n - 1 = e + n
    BY <1>8
  <2> QED  BY <2>1, <2>2
<1>13. e + n = i + Len(Prefixed(s)) - 1
  <2>1. Len(v \o s) = l + n
    <3>1. Len(v \o s) = Len(v) + Len(s)
      BY ConcatProperties
    <3> QED  BY <1>1, <1>7, <3>1, Zenon
  <2>2. Len(Prefixed(s)) = l + n
    BY <1>3, <2>1
  <2> QED  BY <1>8, <2>2
<1>14. e + 1 \in Nat /\ e + n \in Nat
  BY <1>8
<1> QED  BY <1>11, <1>12, <1>13, <1>14, Zenon
=============================================================================
