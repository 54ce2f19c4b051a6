----------------------------- MODULE MCInhouse ------------------------------
(***************************************************************************)
(* The inhouse league's parts on small instances: the queue with its ready *)
(* check, the captains' draft, 1v1 duels and the planned nights.           *)
(* They share no row, so one behaviour is about one part, named by `part'; *)
(* each part is one or more instances, whose constants say which of its    *)
(* hazards they are after.  The queue of the part "check" is the one this  *)
(* module extends; "games" is another, with room for two games, and        *)
(* "crossing" one whose accepts fall inside failing transactions.          *)
(***************************************************************************)
EXTENDS InhouseProperties, TLC

CONSTANTS Parts, a, b, c, w1, w2, x1, x2, x3

VARIABLES
  part,  \* the part of the system this behaviour is about
  gameQueue, gameHere, gameIdle, gameTickets, gameLobby, gameBanned, gameTx,
  gameTold,  \* InhouseQueue with room for two games, or crossed by accepts
  draftStatus, voted, turn, clock, lapsed, team, captains, index, draftTx,  \* InhouseDraft
  duelNow, duelQueue, in5v5, duelBanned, duels, age, games, duelLobby,
  releases, duelJobs, moves, duelLost,  \* Duels
  planned, rsvps, planMarkers, planEvents, planPosts, planJobs, planNow,
  planMade, saves, planFaults, byHand  \* InhouseNights

checkVars == vars
gameVars == <<gameQueue, gameHere, gameIdle, gameTickets, gameLobby,
              gameBanned, gameTx, gameTold>>
draftVars == <<draftStatus, voted, turn, clock, lapsed, team, captains, index,
               draftTx>>
duelVars == <<duelNow, duelQueue, in5v5, duelBanned, duels, age, games,
              duelLobby, releases, duelJobs, moves, duelLost>>
planVars == <<planned, rsvps, planMarkers, planEvents, planPosts, planJobs,
              planNow, planMade, saves, planFaults, byHand>>
allVars == <<part, checkVars, gameVars, draftVars, duelVars, planVars>>

-----------------------------------------------------------------------------
Game == INSTANCE InhouseProperties WITH
  Player <- {a, b}, Proc <- {x3}, LobbySize <- 1, MaxLiveGames <- 2,
  MaxLobbies <- 2, MaxTickets <- 3, Overlaps <- FALSE, queue <- gameQueue,
  here <- gameHere, idle <- gameIdle, tickets <- gameTickets,
  lobby <- gameLobby, banned <- gameBanned, tx <- gameTx, told <- gameTold
Crossing == INSTANCE InhouseProperties WITH
  Player <- {a, b}, Proc <- {x1, x2}, LobbySize <- 2, MaxLiveGames <- 1,
  MaxLobbies <- 1, MaxTickets <- 3, Overlaps <- TRUE, queue <- gameQueue,
  here <- gameHere, idle <- gameIdle, tickets <- gameTickets,
  lobby <- gameLobby, banned <- gameBanned, tx <- gameTx, told <- gameTold

Draft == INSTANCE InhouseDraft WITH
  TeamSize <- 3, FirstPick <- 2, Proc <- {x1, x2}, Pairs <- {<<1, 4>>},
  Late <- {1, 2}, status <- draftStatus, tx <- draftTx

Pairing == INSTANCE Duels WITH
  Users <- {a, b, c}, Worker <- w1, Procs <- {w1, x3}, Panel <- {},
  Hosts <- FALSE, MaxDuels <- 2, MaxNow <- 2, Grace <- 0, MaxAge <- 1,
  MaxMoves <- 0, MaxLost <- 0, now <- duelNow, queue <- duelQueue, banned <- duelBanned,
  lobby <- duelLobby, jobs <- duelJobs, lost <- duelLost
Matches == INSTANCE Duels WITH
  Users <- {a, b}, Worker <- w1, Procs <- {w1, x3}, Panel <- {},
  Hosts <- TRUE, MaxDuels <- 2, MaxNow <- 3, Grace <- 1, MaxAge <- 0,
  MaxMoves <- 0, MaxLost <- 0, now <- duelNow, queue <- duelQueue, banned <- duelBanned,
  lobby <- duelLobby, jobs <- duelJobs, lost <- duelLost
Hosting == INSTANCE Duels WITH
  Users <- {a, b}, Worker <- w1, Procs <- {w1, x3}, Panel <- {x3},
  Hosts <- TRUE, MaxDuels <- 1, MaxNow <- 2, Grace <- 1, MaxAge <- 2,
  MaxMoves <- 1, MaxLost <- 0, now <- duelNow, queue <- duelQueue, banned <- duelBanned,
  lobby <- duelLobby, jobs <- duelJobs, lost <- duelLost

Events == INSTANCE InhouseNights WITH
  Admins <- {x1, x2}, Players <- {}, Workers <- {}, Times <- {1}, MaxNow <- 1,
  Window <- 1, MaxNights <- 2, MaxSaves <- 4, MaxFaults <- 0, MaxByHand <- 1,
  SwiftPrunes <- TRUE, night <- planned, events <- planEvents,
  markers <- planMarkers, posts <- planPosts, made <- planMade,
  jobs <- planJobs, now <- planNow, faults <- planFaults
Lists == INSTANCE InhouseNights WITH
  Admins <- {x1, x2}, Players <- {a}, Workers <- {}, Times <- {1, 2},
  MaxNow <- 1, Window <- 1, MaxNights <- 2, MaxSaves <- 4, MaxFaults <- 0,
  MaxByHand <- 0, SwiftPrunes <- TRUE, night <- planned, events <- planEvents,
  markers <- planMarkers, posts <- planPosts, made <- planMade,
  jobs <- planJobs, now <- planNow, faults <- planFaults
Starts == INSTANCE InhouseNights WITH
  Admins <- {x3}, Players <- {}, Workers <- {w1, w2}, Times <- {1, 2},
  MaxNow <- 3, Window <- 1, MaxNights <- 2, MaxSaves <- 2, MaxFaults <- 2,
  MaxByHand <- 0, SwiftPrunes <- TRUE, night <- planned, events <- planEvents,
  markers <- planMarkers, posts <- planPosts, made <- planMade,
  jobs <- planJobs, now <- planNow, faults <- planFaults

ASSUME QueueAssumption
ASSUME Game!QueueAssumption
ASSUME Crossing!QueueAssumption
ASSUME Draft!DraftAssumption
ASSUME Pairing!DuelsAssumption
ASSUME Matches!DuelsAssumption
ASSUME Hosting!DuelsAssumption
ASSUME Events!NightAssumption
ASSUME Lists!NightAssumption
ASSUME Starts!NightAssumption

-----------------------------------------------------------------------------
AllInit ==
  /\ part \in Parts
  /\ Init /\ Draft!Init /\ IF part = "crossing" THEN Crossing!Init ELSE Game!Init
  /\ IF part = "pairing" THEN Pairing!Init ELSE IF part = "matches" THEN Matches!Init ELSE Hosting!Init
  /\ IF part = "events" THEN Events!Init ELSE IF part = "lists" THEN Lists!Init ELSE Starts!Init

\* One part runs, the others stand still.
CheckRuns ==
  /\ part = "check" /\ Next
  /\ UNCHANGED <<part, gameVars, draftVars, duelVars, planVars>>
GameRuns ==
  /\ \/ part = "games" /\ Game!Next
     \/ part = "crossing" /\ Crossing!Next
  /\ UNCHANGED <<part, checkVars, draftVars, duelVars, planVars>>
DraftRuns ==
  /\ part = "draft" /\ Draft!Next
  /\ UNCHANGED <<part, checkVars, gameVars, duelVars, planVars>>
DuelRuns ==
  /\ \/ part = "pairing" /\ Pairing!Next
     \/ part = "matches" /\ Matches!Next
     \/ part = "hosting" /\ Hosting!Next
  /\ UNCHANGED <<part, checkVars, gameVars, draftVars, planVars>>
NightRuns ==
  /\ \/ part = "events" /\ Events!Next
     \/ part = "lists" /\ Lists!Next
     \/ part = "starts" /\ Starts!Next
  /\ UNCHANGED <<part, checkVars, gameVars, draftVars, duelVars>>
AllNext == \/ CheckRuns
           \/ GameRuns
           \/ DraftRuns
           \/ DuelRuns
           \/ NightRuns
AllSpec == AllInit /\ [][AllNext]_allVars

-----------------------------------------------------------------------------
\* What every state of each part keeps (see the property of this name in the
\* part's module; QueueIsSound is the extended module's own).
GamesAreSound ==
  /\ part = "games" => Game!QueueIsSound
  /\ part = "crossing" => Crossing!QueueIsSound
  /\ part = "draft" => Draft!DraftIsSound
DuelsAreSound ==
  /\ part = "pairing" => Pairing!DuelsAreSound
  /\ part = "matches" => Matches!DuelsAreSound
  /\ part = "hosting" => Hosting!DuelsAreSound
NightsAreSound ==
  /\ part = "events" => Events!NightsAreSound
  /\ part = "lists" => Lists!TypeOK /\ Lists!NightHasItsEvent
  /\ part = "starts" => Starts!NightsAreSound
\* What every step of each part keeps.
InhouseSteps ==
  [][/\ part = "check" => QueueStep /\ AcceptIsKept
     /\ part = "games" => Game!QueueStep /\ Game!AcceptIsKept /\ Game!KeepsPace
     /\ part = "crossing" => Crossing!QueueStep
     /\ part = "draft" => Draft!DraftStep
     /\ part = "pairing" => Pairing!DuelStep
     /\ part = "matches" => Matches!DuelStep
     /\ part = "hosting" => Hosting!DuelStep
     /\ part = "events" => Events!NightStep
     /\ part = "lists" => Lists!NightStep
     /\ part = "starts" => Starts!NightStep]_allVars

\* The captains' draft implements the snake draft its players see.
IsSnake == Draft!IsSnake

\* Requests do the same things, and so do the players of an instance.
Symmetry == Permutations({x1, x2}) \cup Permutations({a, b})
=============================================================================
