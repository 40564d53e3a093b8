SPECIFICATION Spec
CONSTANTS
  a = a
  b = b
  c = c
  u = u
  x = x
  y = y
  Sessions = {a, b, c}
  Harness = {c}
  TaskIds <- TwoIds
  Outside = {u}
  MaxGen = 1
  NoTurn = NoTurn
  NoRun = NoRun
  Texts = {x}
  Policies <- OpenOrShut
  MaxDepth = 1
  MaxOpenPerSource = 1
  MaxOpenTotal = 16
  MaxHistory = 1
  NoTask = NoTask
INVARIANTS
  LimitsHold
SYMMETRY Symmetric
CHECK_DEADLOCK FALSE
