---------------------------- MODULE SeriesNights -----------------------------
(***************************************************************************)
(* The rules of a series over every night of a few hours: games are added  *)
(* one at a time, in any order, whatever hours they start at and won by    *)
(* either side, and every rule is asked of what has been played.           *)
(***************************************************************************)
EXTENDS SeriesRules

CONSTANTS Lengths, Evenings, MaxPlayed

VARIABLES played, bestOf
vars == <<played, bestOf>>

Init == played = {} /\ bestOf \in Lengths
Play(g) ==
  /\ Cardinality(played) < MaxPlayed
  /\ g \notin played /\ played' = played \cup {g} /\ UNCHANGED bestOf
Next == \E g \in Games : Play(g)
Spec == Init /\ [][Next]_vars

Series(gs) == PickSeriesGames(gs, bestOf)
ScoreOf(gs) == [s \in Sides |-> Wins(gs, s)]

\* The selection and the projection agree on when a series ends: imported in
\* play order no chosen game meets a series that is over already, what is
\* chosen has no gap, and it stops short only where the session or the series
\* does; and its score is one an administrator could have entered by hand.
SelectionFitsSeries ==
  LET series == Series(played)
      session == BestSession(played, bestOf)
  IN  played # {} =>
        /\ \A g \in series : /\ ~Decided(ScoreOf(Before(series, g)), bestOf)
                             /\ Before(session, g) \subseteq series
        /\ series = session \/ Decided(ScoreOf(series), bestOf)
        /\ SeriesScore(ScoreOf(series), bestOf)
        /\ Decided(ScoreOf(series), bestOf) <=> PlayedFinal(ScoreOf(series), bestOf)

\* A game played on after a decided series leaves the series what it was, as
\* long as no pause within the series outlasts the ordinary session gap.
BonusChangesNothing ==
  \A g \in Games :
       (/\ Play(g)
        /\ Decided(ScoreOf(Series(played)), bestOf)
        /\ \E x \in Series(played) : Start[g] > Start[x] /\ Start[g] - Start[x] <= SESSION_GAP
        /\ \A x \in played : Start[g] > Start[x]
        /\ Cardinality(Openers(Series(played), SESSION_GAP)) = 1)
       => Series(played') = Series(played)

\* "The bonus game after a decided series is never part of the record",
\* played right after it.
BonusNeverPicked ==
  \A g \in Games :
       (/\ Play(g)
        /\ Decided(ScoreOf(Series(played)), bestOf) /\ Series(played) = played
        /\ \A x \in played : Start[g] > Start[x]
        /\ \E x \in played : Start[g] - Start[x] <= SESSION_GAP)
       => g \notin Series(played')

\* However close two meetings are, no game belongs to both.
OneMeetingClaims ==
  \A g \in played : Cardinality({t \in Evenings : ClaimsGame(g, t, Evenings \ {t})}) <= 1
\* What the rules keep on every night.
SeriesIsSound == SelectionFitsSeries /\ OneMeetingClaims
=============================================================================
