------------------------------ MODULE Inhouse -------------------------------
(* What the inhouse queue promises its players: each one is in one place, a  *)
(* match goes on only when everyone it found said yes, and one that fails    *)
(* leaves nobody behind in it.                                               *)
EXTENDS Integers, Sequences, FiniteSets

CONSTANTS Player, LobbySize, MaxLiveGames

VARIABLES
  place,  \* the number of the player's game, InLine or Out
  stage,  \* of each game: "asked", "on" or "closed"
  yes     \* who said yes in each game

Out    == -1
InLine == 0
Members(n) == {p \in Player : place[p] = n}
InQueue    == {p \in Player : place[p] = InLine}
Running    == {n \in DOMAIN stage : stage[n] # "closed"}
Move(ps, qs) == [p \in Player |-> IF p \in ps THEN Out ELSE IF p \in qs THEN InLine ELSE place[p]]

Init == place = [p \in Player |-> Out] /\ stage = <<>> /\ yes = <<>>

\* Someone joins; a queue left idle too long is emptied first.
Enter(p) == /\ place[p] \notin DOMAIN stage
            /\ \E gone \in {{}, InQueue} : place' = Move(gone \ {p}, {p})
            /\ UNCHANGED <<stage, yes>>
Exit(ps) == /\ ps \subseteq InQueue /\ place' = Move(ps, {})
            /\ UNCHANGED <<stage, yes>>
Found(ps) ==
  /\ ps \subseteq InQueue /\ Cardinality(ps) = LobbySize
  /\ Cardinality(Running) < MaxLiveGames
  /\ place' = [p \in Player |-> IF p \in ps THEN Len(stage) + 1 ELSE place[p]]
  /\ stage' = Append(stage, "asked") /\ yes' = Append(yes, {})
SaysYes(n, p) ==
  /\ stage[n] = "asked" /\ p \in Members(n)
  /\ yes' = [yes EXCEPT ![n] = @ \cup {p}]
  /\ \/ UNCHANGED stage
     \/ yes'[n] = Members(n) /\ stage' = [stage EXCEPT ![n] = "on"]
  /\ UNCHANGED place
Starts(n) == /\ stage[n] = "asked" /\ yes[n] = Members(n)
             /\ stage' = [stage EXCEPT ![n] = "on"] /\ UNCHANGED <<place, yes>>
\* It fails or ends: everyone in it is out, or back in the queue.
Closes(n) ==
  /\ stage[n] # "closed" /\ stage' = [stage EXCEPT ![n] = "closed"]
  /\ \E back \in SUBSET Members(n), gone \in {{}, InQueue} :
       place' = Move((Members(n) \ back) \cup gone, back)
  /\ UNCHANGED yes

Next == \/ (\E ps \in SUBSET Player : Exit(ps) \/ Found(ps)) \/ (\E p \in Player : Enter(p))
        \/ \E n \in DOMAIN stage : Starts(n) \/ Closes(n) \/ \E p \in Player : SaysYes(n, p)
Spec == Init /\ [][Next]_<<place, stage, yes>>
=============================================================================
