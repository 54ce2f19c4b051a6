SPECIFICATION MCSpec
CONSTANTS
  Parts = {"rosters"}
  Producer = {x3}  Worker = {x1, x2}  MaxRev = 1  MaxRows = 2  MaxEvents = 1  MaxFaults = 1
  Faults = {"crash", "lost"}  Overlaps = FALSE
  None = None  Admin = Admin  A = A  B = B  C = C  a1 = a1  a2 = a2  b1 = b1  d1 = d1  d2 = d2
  m1 = m1  m2 = m2  q1 = q1  q2 = q2  s1 = s1  s2 = s2  u1 = u1  u2 = u2  u3 = u3
  w1 = w1  w2 = w2  x1 = x1  x2 = x2  x3 = x3
SYMMETRY Symmetry
CHECK_DEADLOCK FALSE
PROPERTY PoolOnlyShrinks
