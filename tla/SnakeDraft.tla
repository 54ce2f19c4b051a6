----------------------------- MODULE SnakeDraft -----------------------------
(* A captains' draft as its players see it: two captains are elected, then   *)
(* each pick goes to the side whose turn it is, in rounds that reverse.      *)
EXTENDS Integers, Sequences, FiniteSets

CONSTANTS Player, TeamSize, FirstPick

VARIABLES stage, side, picked

\* Round r reverses the order of the round before it.
Side(n) == LET leads == (n \div 2) % 2 = 0 IN
           IF leads = (n % 2 = 0) THEN FirstPick ELSE 3 - FirstPick
Picks == 2 * (TeamSize - 1)
Pool  == {p \in Player : side[p] = 0}

Init == stage = "vote" /\ side = [p \in Player |-> 0] /\ picked = <<>>

Elects == /\ stage = "vote" /\ stage' = "draft"
          /\ \E a, b \in Player :
               a # b /\ side' = [side EXCEPT ![a] = 1, ![b] = 2]
          /\ UNCHANGED picked
\* The last player goes to the last side at once.
Takes(ps) ==
  /\ picked' = picked \o ps
  /\ side' = [p \in Player |-> IF \E i \in DOMAIN ps : ps[i] = p
                               THEN Side(Len(picked) + (CHOOSE i \in DOMAIN ps : ps[i] = p) - 1)
                               ELSE side[p]]
  /\ stage' = IF Len(picked') = Picks THEN "done" ELSE "draft"
Pick == /\ stage = "draft"
        /\ \E p \in Pool : IF Cardinality(Pool) = 2
                           THEN \E q \in Pool \ {p} : Takes(<<p, q>>)
                           ELSE Takes(<<p>>)
CalledOff == /\ stage \in {"vote", "draft"} /\ stage' = "off" /\ UNCHANGED <<side, picked>>

Next == Elects \/ Pick \/ CalledOff
Spec == Init /\ [][Next]_<<stage, side, picked>>
=============================================================================
