SPECIFICATION NodeFairSpec
CONSTANTS
  p1 = p1
  start = start
  s1 = s1
  w1 = w1
  g1 = g1
  g2 = g2
  Publishers = {p1}
  Watchers = {start, s1}
  Starter = start
  NoGoroutine = NoGoroutine
  NoWatcher = NoWatcher
  MaxEvents = 3
  Partitions = {g1, g2}
  Watched = g1
  NoPartition = NoPartition
  ConfigWatchers = {w1}
  MaxInputs = 4
INVARIANTS
  NodeInv
  WatchersAreCurrent
  OnlyGoneHoldsUpNode
PROPERTIES
  PublishGetsThrough
  CancelEndsWatch
  LeaderReachesStart
  WatchersGetConfig
CHECK_DEADLOCK FALSE
