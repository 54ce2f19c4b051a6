SPECIFICATION MCSpec
CONSTANTS
  Parts = {"gate", "room", "cup", "pair", "ban", "bans"}
  Runners = {p1}  Works = {w1}  Kinds <- CronOnly
  LEASE = 1  BUDGET = 1  HORIZON = 2  MaxTime = 5  MaxFaults = 1
  None = None  Unread = Unread  p1 = p1  p2 = p2  t1 = t1  t2 = t2  t3 = t3  t4 = t4  u1 = u1  w1 = w1
CHECK_DEADLOCK FALSE
PROPERTIES WorkIsDone HoldsEnd
