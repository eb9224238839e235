SPECIFICATION Spec
CONSTANTS
  n1 = n1
  n2 = n2
  l1 = l1
  i1 = i1
  t1 = t1
  t2 = t2
  u1 = u1
  g1 = g1
  a1 = a1
  c1 = c1
  c2 = c2
  c3 = c3
  c4 = c4
  p1 = p1
  p2 = p2
  k1 = k1
  x1 = x1
  f1 = f1
  f2 = f2
  f3 = f3
  f4 = f4
  w1 = w1
  w2 = w2
  Rows = {n1, n2}
  Leads = {l1}
  Invites = {i1}
  SubjectOf <- MCSubjectOf
  Workers = {v1, v2}
  MaxAttempts = 2
  MaxFaults = 2
  MaxRetries = 1
  Tasks = {t1, t2}
  RequesterOf <- MCRequesterOf
  ActiveLimit = 1
  GlobalLimit = 2
  Exporters = {e1, e2}
  CleanupDelay = 2
  Retention = 3
  MaxTrouble = 2
  Contents = {a1, a2}
  Owner = o1
  Employees = {e1}
  Agents = {g1, g2}
  NoOne = NoOne
  MaxFiles = 3
  MaxChecks = 2
  Calls = {c1, c2, c3, c4}
  Processes = {p1, p2}
  Keys = {k1}
  PoolLeads = {x1}
  Nobody = Nobody
  ProcessOf <- MCProcessOf
  KeyOf <- MCKeyOf
  KindOf <- MCKindOf
  LeadOf <- MCLeadOf
  BodyOf <- MCBodyOf
  Claims = {f1, f2, f3, f4}
  Servers = {w1, w2}
  Prices = {1, 2}
  Unquoted = Unquoted
  Noone = Noone
  ServerOf <- MCServerOf
  QuoteOf <- MCQuoteOf
INVARIANT KnownDeliveryIsNotRepeated
INVARIANT NoFileIsForgotten
INVARIANT EachRoundBringsNews
INVARIANT JudgesSeeTheirRound
INVARIANT OneKeyOneOutcome
INVARIANT AnswerWasTrueMeanwhile
PROPERTY DeletedLeadStaysSilent
PROPERTY EveryNoticeEnds
PROPERTY EveryFileIsDestroyed
PROPERTY ExportKeepsItsPromise
CHECK_DEADLOCK FALSE
