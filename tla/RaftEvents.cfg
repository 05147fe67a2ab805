SPECIFICATION FairSpec
CONSTANTS
  p1 = p1
  p2 = p2
  start = start
  s1 = s1
  Publishers = {p1, p2}
  Watchers = {start, s1}
  Starter = start
  NoGoroutine = NoGoroutine
  NoWatcher = NoWatcher
  MaxEvents = 2
INVARIANTS
  IndInv
  NoSendOnClosed
  NoGap
  OnlyGoneHoldUp
PROPERTIES
  PublishReturns
  CancelEndsSubscribe
CHECK_DEADLOCK FALSE
