\* One RaftMember in a group of two voters over two terms.
SPECIFICATION FairSpec
CONSTANTS
  NumMembers = 2
  NoLeader = NoLeader
  Tracked = {0}
  MaxTerm = 2
  MaxQueue = 1
INVARIANTS
  IndInv
  MemberLeaderOfTerm
  LeaderRoleIsElected
PROPERTIES
  ObjectsSpec
  StateFollowsPod
