\* The group object over two members: what it shows, and that it catches up.
SPECIFICATION FairSpec
CONSTANTS
  NumMembers = 2
  NoLeader = NoLeader
  MaxTerm = 2
INVARIANTS
  GroupInv
PROPERTIES
  GroupTermNeverDecreases
  LeaderStaysInTerm
  GroupCatchesUp
CHECK_DEADLOCK FALSE
