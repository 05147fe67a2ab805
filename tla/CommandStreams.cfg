SPECIFICATION Spec
CONSTANTS
  n1 = n1
  n2 = n2
  c1 = c1
  c2 = c2
  Nodes = {n1, n2}
  Commands = {c1, c2}
  NoNode = NoNode
  NoStream = NoStream
  MaxStreamID = 2
  MaxRestarts = 2
SYMMETRY Symmetry
INVARIANTS
  IndInv
  StreamsAreOpenCalls
  AckedImpliesAnswered
  StrayOnlyAcrossNodes
PROPERTY ServiceSpec
CHECK_DEADLOCK FALSE
