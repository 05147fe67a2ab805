\* The controllers of a cluster of one pod may come to rest with NotReady shown
\* although the pod is ready.
SPECIFICATION Spec
CONSTANTS
  NumGroups = 1
  NumMembers = 1
  NumReplicas = 1
  MaxPodChanges = 2
INVARIANT ReadyIsReported
CHECK_DEADLOCK FALSE
