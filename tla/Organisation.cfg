SPECIFICATION Spec
CONSTANTS
  b1 = b1
  f1 = f1
  f2 = f2
  s1 = s1
  s2 = s2
  a1 = a1
  a2 = a2
  Users = {u1, u2, u3}
  Browsers = {b1, b2}
  Desks = {d1, d2}
  Offices = {d1, d2}
  MaxFailures = 2
  MaxVersion = 3
  Firms = {f1, f2}
  Regions = {"c", "d", "e", "t"}
  Stock = {s1, s2}
  Deals = {a1, a2}
  MaxRounds = 3
  Level <- MCLevel
  Parent <- MCParent
SYMMETRY Interchangeable
INVARIANT SomebodyAdministers
INVARIANT EndedSessionsStayEnded
INVARIANT GuessesAreBounded
INVARIANT CoverageFollowsDecisions
INVARIANT OfferedIsAccepted
INVARIANT BooksMatchDeals
INVARIANT LeadsStayUsable
CHECK_DEADLOCK FALSE
