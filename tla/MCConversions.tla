---------------------------- MODULE MCConversions ----------------------------
(* An instance of Conversions for TLC.                                     *)
EXTENDS Conversions

Long == [i \in 1..125 |-> 97]
MCStrings == {<<>>, <<200, 0>>, Long}

\* Read replicas and quorums of all sizes, without durations, and then
\* durations and thresholds, for one pod and for two with and without quorum.
Cluster(r, g, q, ro, h, e, t, k) ==
  [replicas |-> r, groups |-> g, quorum |-> q, readReplicas |-> ro,
   heartbeat |-> h, election |-> e, threshold |-> t, retain |-> k]

MCClusters ==
  {Cluster(r, g, q, ro, {}, {}, {}, {}) :
     r \in 0..4, g \in {0, 1, 3}, q \in {{}, {1}, {2}, {3}, {5}},
     ro \in {{}, {1}, {2}}} \cup
  {Cluster(r, 2, q, {}, h, e, t, k) :
     r \in {1, 2}, q \in {{}, {1}}, h \in {{}, {500}, {200000}}, e \in {{}, {1000000}},
     t \in {{}, {0}, {5}}, k \in {{}, {0}, {7}}}
=============================================================================
