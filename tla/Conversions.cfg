SPECIFICATION Spec
CONSTANTS
  Width64 = 15
  Width32 = 8
  NoPod = NoPod
  Numbers = {0, 1, 127, 128}
  Strings <- MCStrings
  SomeBytes = {0, 1, 2, 8, 10, 18, 26, 128, 255}
  MaxBytes = 4
  Clusters <- MCClusters
INVARIANTS
  RoundTrips
  AcceptedIsMessage
  MembersRunTheirGroup
  StatusNamesTheMembers
  GroupsAreSpread
  ConfigArrives
  
CHECK_DEADLOCK FALSE
