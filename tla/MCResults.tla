----------------------------- MODULE MCResults ------------------------------
(***************************************************************************)
(* Results on small instances: those of inhouse games, which this module   *)
(* extends, the import of a series' games, the rules that pick a series    *)
(* out of an evening, the playoff bracket and the scrims.  One behaviour   *)
(* is about one part, named by `part'; each part is one or more instances, *)
(* whose constants say which hazards they are after.                       *)
(***************************************************************************)
EXTENDS InhouseResults, Sequences, FiniteSets, TLC

CONSTANTS Parts, Nobody, Official, a1, a2, g1, g2, g3, g4, m1, m2, t1,
          t2, t3, t4, t5, t6, t7, t8, x1, x2, x3


\* A Bo3 that goes home, away, home, and one more for fun.
NightStart4 == g1 :> 110 @@ g2 :> 111 @@ g3 :> 112 @@ g4 :> 113
NightWon4 == g1 :> t1 @@ g2 :> t2 @@ g3 :> t1 @@ g4 :> t2
NightStart == [g \in {g1, g2, g3} |-> NightStart4[g]]
NightWon == [g \in {g1, g2, g3} |-> NightWon4[g]]
\* Two meetings two days apart, a scrim between them, a game for each.
TwoKickoffs == m1 :> 100 @@ m2 :> 148
TwoStart == g1 :> 100 @@ g2 :> 124 @@ g3 :> 148
TwoWon == g1 :> t1 @@ g2 :> t2 @@ g3 :> t1
\* The hours games start at; a side's games start on its own half hours, so
\* that no two coincide.
Slots == {0, 1, 2, 4, 5, 7} \X {t1, t2}
SlotStart == [g \in Slots |-> 2 * g[1] + (IF g[2] = t1 THEN 0 ELSE 1)]
SlotWon == [g \in Slots |-> g[2]]
\* Rosters of one account each; a2 plays for t2 and may be somebody's guest.
RosterOf == [t \in {t1, t2, t3} |-> IF t = t1 THEN {"a1"} ELSE IF t = t2 THEN {"a2"} ELSE {"a3"}]
StartOf == g1 :> 20 @@ g2 :> 21 @@ g3 :> 22
WonBy == g1 :> t1 @@ g2 :> t2 @@ g3 :> t1
PlayedBy == [g \in {g1, g2, g3} |-> [t \in {t1, t2} |-> IF t = t1 THEN {"a1"} ELSE {"a2"}]]
StartOf2 == g1 :> 20 @@ g2 :> 21
WonBy2 == g1 :> t1 @@ g2 :> t2
PlayedBy2 == [g \in {g1, g2} |-> PlayedBy[g]]

VARIABLES
  part,  \* the part of the system this behaviour is about
  importRows, importGames, importClaims, suppressed, kickoff, open, captain, feed,
  importJobs, restored, handled, importHands, importChanges, importFaults,  \* ResultImport
  played, bestOf,  \* SeriesRules
  cupStatus, champion, table, matches, markers, runs, forms, born, builds,
  cupChanges, cupFaults,  \* Playoffs
  scrims, lineup, guests, scrimGames, scrimClaims, skips, fixtures, active,
  withdrawn, scrimJobs, reopened, moves, scrimHands  \* Scrims

importVars == <<importRows, importGames, importClaims, suppressed, kickoff, open,
                captain, feed, importJobs, restored, handled, importHands,
                importChanges, importFaults>>
ruleVars == <<played, bestOf>>
cupVars == <<cupStatus, champion, table, matches, markers, runs, forms, born,
             builds, cupChanges, cupFaults>>
scrimVars == <<scrims, lineup, guests, scrimGames, scrimClaims, skips,
               fixtures, active, withdrawn, scrimJobs, reopened, moves,
               scrimHands>>
inhouseVars == vars
allVars == <<part, inhouseVars, importVars, ruleVars, cupVars, scrimVars>>

-----------------------------------------------------------------------------
Rulings == INSTANCE ResultImport WITH
  Sides <- {t1, t2}, Procs <- {x1, x2}, Ordered <- TRUE, Ticketed <- TRUE,
  Scrims <- {}, Matches <- {m1}, Games <- {g1, g2, g3}, Start <- NightStart,
  Won <- NightWon, BestOf <- [m \in {m1} |-> 2],
  Kickoffs <- [m \in {m1} |-> 109], Times <- {109}, Fits <- {g1, g2, g3},
  MaxHands <- 2, MaxChanges <- 1, MaxFaults <- 0, games <- importGames,
  rows <- importRows, claims <- importClaims, jobs <- importJobs, hands <- importHands,
  changes <- importChanges, faults <- importFaults
Meetings == INSTANCE ResultImport WITH
  Sides <- {t1, t2}, Procs <- {x1, x2}, Ordered <- FALSE, Ticketed <- TRUE,
  Scrims <- {122}, Matches <- {m1, m2}, Games <- {g1, g2, g3},
  Start <- TwoStart, Won <- TwoWon, BestOf <- [m \in {m1, m2} |-> 1],
  Kickoffs <- TwoKickoffs, Times <- {125}, Fits <- {g1, g2, g3},
  MaxHands <- 0, MaxChanges <- 1, MaxFaults <- 0, games <- importGames,
  rows <- importRows, claims <- importClaims, jobs <- importJobs, hands <- importHands,
  changes <- importChanges, faults <- importFaults
InOrder == INSTANCE ResultImport WITH
  Sides <- {t1, t2}, Procs <- {x1, x2}, Ordered <- TRUE, Ticketed <- TRUE,
  Scrims <- {}, Matches <- {m1}, Games <- {g1, g2, g3, g4},
  Start <- NightStart4, Won <- NightWon4, BestOf <- [m \in {m1} |-> 3],
  Kickoffs <- [m \in {m1} |-> 109], Times <- {109}, Fits <- {g1, g2, g3, g4},
  MaxHands <- 0, MaxChanges <- 0, MaxFaults <- 1, games <- importGames,
  rows <- importRows, claims <- importClaims, jobs <- importJobs, hands <- importHands,
  changes <- importChanges, faults <- importFaults

Rules == INSTANCE SeriesNights WITH
  Games <- Slots, Start <- SlotStart, Won <- SlotWon, Sides <- {t1, t2},
  Lengths <- {1, 2, 3, 5}, Evenings <- {3, 7, 80}, MaxPlayed <- 5

Bracket == INSTANCE Playoffs WITH
  Workers <- {x1, x2}, Admins <- {a1},
  Tables <- {<<t1, t2, t3, t4>>, <<t3, t1, t2, t4>>}, MaxBuilds <- 2,
  MaxChanges <- 1, MaxFaults <- 0, status <- cupStatus, changes <- cupChanges, faults <- cupFaults
Eight == INSTANCE Playoffs WITH
  Workers <- {x3}, Admins <- {a1},
  Tables <- {<<t1, t2, t3, t4, t5, t6, t7, t8>>}, MaxBuilds <- 1,
  MaxChanges <- 0, MaxFaults <- 1, status <- cupStatus, changes <- cupChanges, faults <- cupFaults
Form == INSTANCE Playoffs WITH
  Workers <- {x3}, Admins <- {a1, a2},
  Tables <- {<<t1, t2, t3, t4>>, <<t1, t3>>}, MaxBuilds <- 2, MaxChanges <- 0,
  MaxFaults <- 0, status <- cupStatus, changes <- cupChanges, faults <- cupFaults

Booking == INSTANCE Scrims WITH
  Teams <- {t1, t2, t3}, Start <- <<>>, Won <- <<>>, Played <- <<>>,
  Roster <- RosterOf, Guests <- {}, Known <- 1, GuestLimit <- 1,
  MaxHands <- 0, Procs <- {}, Games <- {}, Scrims <- 1 .. 3,
  Times <- {20, 24}, Lengths <- {1}, MaxLeague <- 1, games <- scrimGames,
  claims <- scrimClaims, jobs <- scrimJobs, hands <- scrimHands
Scores == INSTANCE Scrims WITH
  Teams <- {t1, t2}, Start <- StartOf, Won <- WonBy, Played <- PlayedBy,
  Roster <- RosterOf, Guests <- {"a2", "x"}, Known <- 1, GuestLimit <- 1,
  MaxHands <- 1, Procs <- {x1, x2}, Games <- {g1, g2, g3}, Scrims <- 1 .. 1,
  Times <- {20}, Lengths <- {3}, MaxLeague <- 1, games <- scrimGames,
  claims <- scrimClaims, jobs <- scrimJobs, hands <- scrimHands
Pairs == INSTANCE Scrims WITH
  Teams <- {t1, t2}, Start <- StartOf2, Won <- WonBy2, Played <- PlayedBy2,
  Roster <- RosterOf, Guests <- {"a2", "x"}, Known <- 1, GuestLimit <- 1,
  MaxHands <- 1, Procs <- {x3}, Games <- {g1, g2}, Scrims <- 1 .. 2,
  Times <- {20, 24}, Lengths <- {1}, MaxLeague <- 1, games <- scrimGames,
  claims <- scrimClaims, jobs <- scrimJobs, hands <- scrimHands

ASSUME ResultsAssumption
ASSUME Rulings!SeriesAssumption
ASSUME Rulings!ImportAssumption
ASSUME Meetings!SeriesAssumption
ASSUME Meetings!ImportAssumption
ASSUME InOrder!SeriesAssumption
ASSUME InOrder!ImportAssumption
ASSUME Rules!SeriesAssumption
ASSUME Bracket!PlayoffsAssumption
ASSUME Eight!PlayoffsAssumption
ASSUME Form!PlayoffsAssumption
ASSUME Booking!ScrimAssumption
ASSUME Scores!ScrimAssumption
ASSUME Pairs!ScrimAssumption

-----------------------------------------------------------------------------
AllInit ==
  /\ part \in Parts
  /\ Init /\ (part # "inhouse" => match = [l \in Lobby |-> None])
  /\ IF part = "rulings" THEN Rulings!Init ELSE IF part = "meetings" THEN Meetings!Init ELSE InOrder!Init
  /\ Rules!Init /\ (part # "rules" => bestOf = 1)
  /\ CASE part = "eight" -> Eight!Init [] part \in {"forms", "cup"} -> Form!Init
       [] OTHER -> Bracket!Init /\ (part # "bracket" => table = <<t1, t2, t3, t4>>)
  /\ IF part = "booking" THEN Booking!Init ELSE IF part = "scores" THEN Scores!Init ELSE Pairs!Init

\* One part runs, the others stand still.
InhouseRuns ==
  /\ part = "inhouse" /\ Next
  /\ UNCHANGED <<part, importVars, ruleVars, cupVars, scrimVars>>
ImportRuns ==
  /\ \/ part = "rulings" /\ Rulings!Next
     \/ part = "meetings" /\ Meetings!Next
     \/ part = "series" /\ InOrder!Next
  /\ UNCHANGED <<part, inhouseVars, ruleVars, cupVars, scrimVars>>
RuleRuns ==
  /\ part = "rules" /\ Rules!Next
  /\ UNCHANGED <<part, inhouseVars, importVars, cupVars, scrimVars>>
CupRuns ==
  /\ \/ part = "bracket" /\ Bracket!Next
     \/ part = "eight" /\ Eight!Next
     \/ part = "forms" /\ Form!Next
  /\ UNCHANGED <<part, inhouseVars, importVars, ruleVars, scrimVars>>
ScrimRuns ==
  /\ \/ part = "booking" /\ Booking!Next
     \/ part = "scores" /\ Scores!Next
     \/ part = "pairs" /\ Pairs!Next
  /\ UNCHANGED <<part, inhouseVars, importVars, ruleVars, cupVars>>

AllNext == \/ InhouseRuns
           \/ ImportRuns
           \/ RuleRuns
           \/ CupRuns
           \/ ScrimRuns
AllSpec == AllInit /\ [][AllNext]_allVars

-----------------------------------------------------------------------------
\* What every state of each part keeps (see the property of this name in the
\* part's module; ResultsAreSound is the extended module's own).
ImportIsSound ==
  /\ part = "rulings" => Rulings!ImportIsSound
  /\ part = "meetings" => Meetings!ImportIsSound
  /\ part = "series" => InOrder!ImportIsSound /\ InOrder!SeriesInPlayOrder
SeriesIsSound == part = "rules" => Rules!SeriesIsSound
BracketIsSound ==
  /\ part = "bracket" => Bracket!BracketIsSound
  /\ part = "eight" => Eight!BracketIsSound
  /\ part = "forms" => Form!BracketIsSound
ScrimsAreSound ==
  /\ part = "booking" => Booking!ScrimsAreSound
  /\ part = "scores" => Scores!ScrimsAreSound
  /\ part = "pairs" => Pairs!ScrimsAreSound

\* What every step of each part keeps.
ResultSteps ==
  [][/\ part = "inhouse" => ResultStep
     /\ part = "rulings" => Rulings!ImportStep
     /\ part = "meetings" => Meetings!ImportStep
     /\ part = "series" => InOrder!ImportStep
     /\ part = "rules" => Rules!BonusChangesNothing
     /\ part = "bracket" => Bracket!RemovedAsShown
     /\ part = "forms" => Form!RemovedAsShown]_allVars

\* The bracket implements a knockout cup.
IsKnockout ==
  /\ Bracket!StartsLikeKnockout
  /\ [][/\ part = "bracket" => Bracket!KeepsKnockout
        /\ part = "eight" => Eight!KeepsKnockout
        /\ part = "forms" => Form!KeepsKnockout]_allVars

\* Requests do the same things.
Symmetry == Permutations({x1, x2})
=============================================================================
