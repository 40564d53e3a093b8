SPECIFICATION FairSpec
CONSTANTS
  a = a
  b = b
  c = c
  u = u
  x = x
  y = y
  Sessions = {a, b}
  Harness = {}
  TaskIds <- TwoIds
  Outside = {u}
  MaxGen = 1
  NoTurn = NoTurn
  NoRun = NoRun
  Texts = {x}
  Policies <- AnyPolicy
  MaxDepth = 3
  MaxOpenPerSource = 4
  MaxOpenTotal = 16
  MaxHistory = 50
  NoTask = NoTask
PROPERTIES
  QueuedIsServed
  OwedIsTold
CHECK_DEADLOCK FALSE
