----------------------------- MODULE SeriesRules -----------------------------
(***************************************************************************)
(* Which games make up a series, and what a set of games makes of it: the  *)
(* pure part of the importer.  A game is a member of Games with a start    *)
(* time, in hours, and the side that won it.                               *)
(***************************************************************************)
EXTENDS Integers, FiniteSets

CONSTANTS Games,
          Start,      \* [Games -> Nat], no two alike
          Won,        \* [Games -> Sides]
          Sides,      \* home and away
          Nobody      \* no winner, no kickoff

SeriesAssumption ==
  /\ Start \in [Games -> Nat] /\ Won \in [Games -> Sides]
  /\ \A g, h \in Games : Start[g] = Start[h] => g = h

SESSION_GAP == 4       \* SERIES_SESSION_GAP_MS
BO2_SESSION_GAP == 8   \* BO2_SERIES_SESSION_GAP_MS
WINDOW_BEFORE == 72    \* DETECT_WINDOW_BEFORE_MS
WINDOW_AFTER == 144    \* DETECT_WINDOW_AFTER_MS

Wins(gs, s) == Cardinality({g \in gs : Won[g] = s})
Distance(g, t) == IF Start[g] > t THEN Start[g] - t ELSE t - Start[g]

InWindow(g, t) == t - WINDOW_BEFORE <= Start[g] /\ Start[g] <= t + WINDOW_AFTER

\* A game belongs to the one meeting it is strictly nearest to, of those
\* whose own window it falls in.
ClaimsGame(g, t, others) ==
  InWindow(g, t) /\ \A o \in others : InWindow(g, o) => Distance(g, o) > Distance(g, t)

-----------------------------------------------------------------------------
(* pickSeriesGames                                                         *)

Gap(gs, bestOf) ==
  IF bestOf = 2 /\ Cardinality(gs) = 2 THEN BO2_SESSION_GAP ELSE SESSION_GAP

Before(gs, g) == {h \in gs : Start[h] < Start[g]}

\* The games that follow a pause, and what is played up to the next of them.
Openers(gs, gap) == {g \in gs : \A h \in Before(gs, g) : Start[g] - Start[h] > gap}
Session(gs, openers, g) == {h \in gs : Before(openers, h) \cup ({h} \cap openers) = Before(openers, g) \cup {g}}
Sessions(gs, bestOf) ==
  LET openers == Openers(gs, Gap(gs, bestOf)) IN {Session(gs, openers, g) : g \in openers}

\* The biggest session; of equals the latest.
BestSession(gs, bestOf) ==
  LET all == Sessions(gs, bestOf) IN
  CHOOSE b \in all : \A c \in all \ {b} :
    \/ Cardinality(b) > Cardinality(c)
    \/ Cardinality(b) = Cardinality(c) /\ \A x \in b, y \in c : Start[x] > Start[y]

ClinchAt(bestOf) == bestOf \div 2 + 1

\* Mutants: the whole session up to its length; the last games of it.
PickWholeSession(gs, bestOf) ==
  IF gs = {} THEN {}
  ELSE LET session == BestSession(gs, bestOf)
       IN  {g \in session : Cardinality(Before(session, g)) < bestOf}

\* In play order, up to the clinching game.
PickSeriesGames(gs, bestOf) ==
  IF gs = {} THEN {}
  ELSE LET session == BestSession(gs, bestOf)
       IN  {g \in session :
              /\ Cardinality(Before(session, g)) < (IF bestOf < 1 THEN 1 ELSE bestOf)
              /\ \A s \in Sides : Wins(Before(session, g), s) < ClinchAt(bestOf)}

-----------------------------------------------------------------------------
(* deriveSeriesProjection and the score checks                             *)

Decided(score, bestOf) ==
  \/ \E s \in Sides : score[s] >= ClinchAt(bestOf)
  \/ \A s, t \in Sides : s # t => score[s] + score[t] >= bestOf

Leader(score) ==
  IF \E s \in Sides : \A t \in Sides \ {s} : score[s] > score[t]
  THEN CHOOSE s \in Sides : \A t \in Sides \ {s} : score[s] > score[t]
  ELSE Nobody

Projection(gs, bestOf) ==
  LET score == [s \in Sides |-> Wins(gs, s)]
      over == Decided(score, bestOf)
  IN  [status |-> IF over THEN "COMPLETED" ELSE IF gs # {} THEN "LIVE" ELSE "SCHEDULED",
       score  |-> score,
       winner |-> IF over THEN Leader(score) ELSE Nobody,
       forfeit |-> FALSE]

\* seriesScoreError: a score the series can hold.
SeriesScore(score, bestOf) ==
  /\ \A s, t \in Sides : s # t => score[s] + score[t] <= bestOf
  /\ bestOf % 2 = 1 => \A s \in Sides : score[s] <= ClinchAt(bestOf)

\* playedSeriesFinalError: a score it can end with.
PlayedFinal(score, bestOf) ==
  /\ SeriesScore(score, bestOf)
  /\ IF bestOf % 2 = 0
     THEN \A s, t \in Sides : s # t => score[s] + score[t] = bestOf
     ELSE \E s \in Sides : score[s] = ClinchAt(bestOf)
=============================================================================
