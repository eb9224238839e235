SPECIFICATION SettlementSpec
CONSTANTS
  Rewards = {x1, x2}
  RewardPoints = 1
  Withdrawals = {w1, w2}
  MaxSize = 2
  MaxCustomer = 1
SYMMETRY RequestSymmetry
PROPERTY ApprovalsLeaveWhatMayBeTakenBack
CHECK_DEADLOCK FALSE
