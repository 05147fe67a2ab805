SPECIFICATION QFairSpec
CONSTANTS
  n1 = n1
  n2 = n2
  c1 = c1
  q1 = q1
  q2 = q2
  Nodes = {n1, n2}
  Commands = {c1}
  Queries = {q1, q2}
  NoNode = NoNode
  NoStream = NoStream
  MaxStreamID = 1
  MaxRestarts = 1
INVARIANTS
  SyncQueriesAreCurrent
PROPERTIES
  QueriesReturn
  CallsReturn
CHECK_DEADLOCK FALSE
