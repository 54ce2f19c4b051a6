SPECIFICATION AllSpec
CONSTANTS
  Parts = {"check", "games", "crossing", "draft", "pairing", "matches",
           "hosting", "events", "lists", "starts"}
  Player = {a, b}  Proc = {x1, x2}  LobbySize = 2  MaxLiveGames = 1
  MaxLobbies = 1  MaxTickets = 3  Overlaps = FALSE
  None = None  a = a  b = b  c = c 
  w1 = w1  w2 = w2  x1 = x1  x2 = x2  x3 = x3
SYMMETRY Symmetry
CHECK_DEADLOCK FALSE
INVARIANTS QueueIsSound GamesAreSound DuelsAreSound NightsAreSound
PROPERTIES InhouseSteps KeepsInhouse IsSnake
