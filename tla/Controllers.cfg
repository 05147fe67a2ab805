\* One group of two members on two pods.
SPECIFICATION FairSpec
CONSTANTS
  NumGroups = 1
  NumMembers = 2
  NumReplicas = 2
  MaxPodChanges = 2
INVARIANT IndInv
PROPERTIES
  Provisioned
  StatesRefreshed
CHECK_DEADLOCK FALSE
