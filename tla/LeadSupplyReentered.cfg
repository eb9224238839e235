SPECIFICATION Spec
CONSTANTS
  l1 = l1
  l2 = l2
  c1 = c1
  c2 = c2
  k1 = k1
  k2 = k2
  a1 = a1
  a2 = a2
  a3 = a3
  i1 = i1
  i2 = i2
  i3 = i3
  o2 = o2
  Leads = {l1, l2}
  Phones = {"p"}
  SourceOf <- MCSourceOf
  Callers = {c1, c2}
  MaxTasks = 3
  Companies = {k1, k2}
  Accounts = {a1, a2, a3}
  Openids = {o1, o2}
  Invites = {i1, i2, i3}
  Works = {w1}
  Asks = {q1}
  Clerks = {d1, d2}
CHECK_DEADLOCK FALSE
INVARIANT ReenteredLeadMustPass
