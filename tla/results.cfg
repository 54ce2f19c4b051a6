SPECIFICATION AllSpec
CONSTANTS
  Parts = {"inhouse", "rulings", "meetings", "series", "rules", "bracket", "eight", "forms",
           "booking", "scores", "pairs"}
  Lobby = {l1, l2}  Match = {m1, m2}  Scan = {x1, x2}  Worker = {}  MaxFaults = 1
  Older = {l1}  None = None  Nobody = Nobody  Official = Official  a1 = a1  a2 = a2
  g1 = g1  g2 = g2  g3 = g3  g4 = g4  m1 = m1  m2 = m2  x1 = x1  x2 = x2  x3 = x3
  t1 = t1  t2 = t2  t3 = t3  t4 = t4  t5 = t5  t6 = t6  t7 = t7  t8 = t8
SYMMETRY Symmetry
CHECK_DEADLOCK FALSE
INVARIANTS ResultsAreSound ImportIsSound SeriesIsSound BracketIsSound ScrimsAreSound
PROPERTIES ResultSteps IsKnockout
