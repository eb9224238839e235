SPECIFICATION FairReportSpec
CONSTANTS
  Leads = {l1}
  Assignments = {a1}
  Receivers = {r1}
  Prices = {1, 2}
  Grant = 3
  ClaimWindow = 1
  AppealWindow = 2
  Horizon = 4
  None = None
  RewardPoints = 1
INVARIANT ClockPaymentIsFinal
INVARIANT FrozenExactlyUnderAppeal
INVARIANT WindowIsConserved
INVARIANT ReconciliationFindsNothing
INVARIANT ConfirmationsAgree
PROPERTY NothingPostedAfterDeletion
PROPERTY ConfirmedRowsStay
PROPERTY DueWorkIsDone
CHECK_DEADLOCK FALSE
