SPECIFICATION Spec
CONSTANTS
  Parts = {"slow", "nights", "claims", "posts", "copies", "fleet", "acting",
           "lease", "gate", "gates", "lobby", "again", "omits"}
  None = None  Unread = Unread  d1 = d1  g1 = g1  g2 = g2  g3 = g3  l1 = l1  m1 = m1  p1 = p1  p2 = p2  p3 = p3
  t1 = t1  w1 = w1  w2 = w2  w3 = w3
SYMMETRY Symmetry
CHECK_DEADLOCK FALSE
INVARIANTS PassesAreSound RoomIsSound BotIsSound
PROPERTIES MachinerySteps
