SPECIFICATION AccountSpec
CONSTANTS
  c1 = c1
  c2 = c2
  p1 = p1
  p2 = p2
  r1 = r1
  r4 = r4
  k1 = k1
  k2 = k2
  k3 = k3
  k4 = k4
  r2 = r2
  r3 = r3
  Companies = {c1}
  Requests = {r1, r2, r3}
  Keys = {k1, k2}
  References = {x1, x2}
  Packages = {p1, p2}
  Amounts <- MCAmounts
  PointsOf <- MCPointsOf
  NoLevel = NoLevel
  NoRef = NoRef
  NoBody = NoBody
  Rewards = {y1, y2}
  RewardPoints = 1
  Withdrawals = {w1, w2}
  MaxSize = 2
  MaxCustomer = 1
SYMMETRY Interchangeable
INVARIANT Reconciled
INVARIANT AnswerIsItsOwnEntry
INVARIANT LevelWasPaidFor
INVARIANT SettlementStaysPayable
INVARIANT SupplyIsAccountedFor
PROPERTY ApprovalsFitTheBalance
CHECK_DEADLOCK FALSE
