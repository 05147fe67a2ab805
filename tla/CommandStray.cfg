SPECIFICATION Spec
CONSTANTS
  n1 = n1
  n2 = n2
  c1 = c1
  c2 = c2
  Nodes = {n1, n2}
  Commands = {c1, c2}
  NoNode = NoNode
  NoStream = NoStream
  MaxStreamID = 2
  MaxRestarts = 0
SYMMETRY Symmetry
INVARIANT NoStrayOutput
CHECK_DEADLOCK FALSE
