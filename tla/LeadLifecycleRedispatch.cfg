SPECIFICATION SceneSpec
CONSTANTS
  Leads = {l1, l2}
  Assignments = {a1, a2}
  Receivers = {r1}
  Prices = {1, 2}
  Grant = 2
  ClaimWindow = 1
  AppealWindow = 1
  Horizon = 2
  None = None
  RewardPoints = 1
SYMMETRY RowSymmetry
INVARIANT DispatchesAreFunded
INVARIANT CountsAgree
INVARIANT ContactIsPaidFor
PROPERTY ImplementsSale
CHECK_DEADLOCK FALSE
