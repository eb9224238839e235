SPECIFICATION Spec
CONSTANTS
  c1 = c1
  c2 = c2
  p1 = p1
  p2 = p2
  r1 = r1
  r4 = r4
  k1 = k1
  k2 = k2
  k3 = k3
  k4 = k4
  r2 = r2
  r3 = r3
  Companies = {c1}
  Requests = {r1, r2, r3, r4}
  Keys = {k1, k2, k3, k4}
  References = {}
  Packages = {}
  Amounts = {1}
  PointsOf <- MCPointsOf
  NoLevel = NoLevel
  NoRef = NoRef
  NoBody = NoBody
SYMMETRY RequestAndKeySymmetry
INVARIANT ReversedAtMostOnce
CHECK_DEADLOCK FALSE
