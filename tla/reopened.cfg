SPECIFICATION MCSpec
CONSTANTS
  t1 = t1  t2 = t2  c1 = c1  c2 = c2  u1 = u1  u2 = u2  u3 = u3  p1 = p1  p2 = p2
  None = None
  Team <- Teams  TeamSize = 3  MinBid = 1  Order <- InOrder
  User <- ThreeFree  InitCaptain <- Captains  StartBudget <- Budget2  Mmr <- Flat3
  Admins = {}  Proc <- OneProc  Stamp <- Stamps1
  Calls <- AllCalls  Workloads <- Reopens  Amount = {1}  MaxLots = 4
SYMMETRY Swap3
PROPERTY KeepsThePromise
