SPECIFICATION MCSpec
CONSTANTS
  t1 = t1  t2 = t2  c1 = c1  c2 = c2  u1 = u1  u2 = u2  u3 = u3  p1 = p1  p2 = p2
  None = None
  Team <- Teams  TeamSize = 2  MinBid = 1  Order <- InOrder
  User <- TwoFree  InitCaptain <- Captains  StartBudget <- Budget2  Mmr <- Flat2
  Admins = {}  Proc <- TwoProcs  Stamp <- Stamps2
  Calls <- AllCalls  Workloads <- Rosters  Amount = {1}  MaxLots = 2
SYMMETRY Swap
INVARIANTS MoneyConserved AuctionOnlyInDraftPhase RostersAreSound
PROPERTY KeepsThePromise
