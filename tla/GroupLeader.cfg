\* The leader of a group beside its term: NOT that of the term.
SPECIFICATION Spec
CONSTANTS
  NumMembers = 2
  NoLeader = NoLeader
  MaxTerm = 2
INVARIANT GroupLeaderOfTerm
CHECK_DEADLOCK FALSE
