------------------------------ MODULE Knockout ------------------------------
(***************************************************************************)
(* What the playoffs promise: one round is being played, the next one      *)
(* pairs all its winners in order at once, and the champion is the winner  *)
(* of the round of a single series.  Only the round being played can be    *)
(* corrected, and a crown falls with the correction of its final.          *)
(***************************************************************************)
EXTENDS Naturals, Sequences

CONSTANTS Tables,   \* the seedings a season can end with
          Seeds(_), \* seeds of a bracket, best first, to the sides of its first round
          None

VARIABLES status, champion, round

Sides == {Seeds(t) : t \in Tables}
Opened(sides) == [i \in DOMAIN sides |-> [home |-> sides[i][1], away |-> sides[i][2], winner |-> None]]
Decided == \A i \in DOMAIN round : round[i].winner # None
Winners == [i \in 1..(Len(round) \div 2) |-> <<round[2*i - 1].winner, round[2*i].winner>>]

Init == status = "REGULAR_SEASON" /\ champion = None /\ round = <<>>

Start ==
  /\ \E sides \in Sides : round' = Opened(sides)
  /\ status' = "PLAYOFFS"
  /\ champion' = None

Withdraw ==
  /\ status # "REGULAR_SEASON"
  /\ status' = "REGULAR_SEASON" /\ champion' = None /\ round' = <<>>

\* A result is entered, corrected or retracted.
Rule(i, w) ==
  /\ status = "PLAYOFFS"
  /\ w \in {round[i].home, round[i].away, None}
  /\ round' = [round EXCEPT ![i].winner = w]
  /\ UNCHANGED <<status, champion>>

Advance ==
  /\ status = "PLAYOFFS" /\ Decided /\ Len(round) > 1
  /\ round' = Opened(Winners)
  /\ UNCHANGED <<status, champion>>

Crown ==
  /\ status = "PLAYOFFS" /\ Decided /\ Len(round) = 1
  /\ status' = "COMPLETE" /\ champion' = round[1].winner
  /\ UNCHANGED round

Uncrown ==
  /\ status = "COMPLETE"
  /\ status' = "PLAYOFFS" /\ champion' = None
  /\ \E w \in {champion, None} : round' = [round EXCEPT ![1].winner = w]

Next == Start \/ Withdraw \/ Advance \/ Crown \/ Uncrown
        \/ \E i \in DOMAIN round : \E w \in {round[i].home, round[i].away, None} : Rule(i, w)

Spec == Init /\ [][Next]_<<status, champion, round>>
=============================================================================
