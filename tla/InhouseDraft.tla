---------------------------- MODULE InhouseDraft ----------------------------
(***************************************************************************)
(* The captain vote and the captains' draft of one inhouse lobby.  Ballots,*)
(* picks and the resolvers of the two clocks are READ COMMITTED            *)
(* transactions: a read, and later a write guarded by what was read.  From *)
(* a pick's turn claim to its commit the lobby's row is locked, and only a *)
(* holder of that lock writes teams, so those statements are one step.     *)
(*                                                                         *)
(* Which two players a vote elects is left open (Pairs); players are       *)
(* numbered in the order the auto-pick ranks them.                         *)
(***************************************************************************)
EXTENDS Integers, Sequences, FiniteSets, FiniteSetsExt, TLC

CONSTANTS TeamSize, FirstPick, Proc, Pairs,
          Late  \* who has not voted yet

Everyone == 1 .. 2 * TeamSize
DraftAssumption ==
  TeamSize \in Nat \ {0} /\ FirstPick \in {1, 2} /\ Pairs \subseteq Everyone \X Everyone /\ Late \subseteq Everyone

VARIABLES
  status,   \* "VOTE", "DRAFTING", "READY" or "CANCELLED"
  voted,    \* who has cast a ballot
  turn,     \* pickTeam, 0 for null
  clock,    \* the running deadline (voteEndsAt, pickEndsAt): each is new
  lapsed,   \* it has passed
  team,     \* 0: in the pool
  captains,
  index,    \* pickIndex, or -1
  tx        \* the transaction each request has open

vars == <<status, voted, turn, clock, lapsed, team, captains, index, tx>>

NoTx == [op |-> "none", pc |-> "idle", player |-> 0, turn |-> 0, ends |-> 0,
         team |-> [p \in Everyone |-> 0]]
Ends(x) == tx' = [tx EXCEPT ![x] = NoTx]
Idle(x) == tx[x].pc = "idle"
Opens(x, t) == Idle(x) /\ tx' = [tx EXCEPT ![x] = t @@ NoTx]
Reads == UNCHANGED <<status, voted, turn, clock, lapsed, team, captains, index>>
Pool == {p \in Everyone : team[p] = 0}

-----------------------------------------------------------------------------
(* The vote *)

CastReads(x, p) ==
  /\ p \in Late /\ status = "VOTE" /\ ~lapsed
  /\ Opens(x, [op |-> "cast", pc |-> "cast", player |-> p]) /\ Reads
BallotOpen == status = "VOTE" /\ ~lapsed
CastClaims(x) ==
  /\ tx[x].pc = "cast" /\ Ends(x)
  /\ voted' = IF BallotOpen THEN voted \cup {tx[x].player} ELSE voted
  /\ UNCHANGED <<status, turn, clock, lapsed, team, captains, index>>

VoteOver == voted = Everyone \/ lapsed
ElectReads(x) ==
  /\ status = "VOTE" /\ VoteOver
  /\ Opens(x, [op |-> "elect", pc |-> "elect"]) /\ Reads
Electable == status = "VOTE"
ElectClaims(x) ==
  /\ tx[x].pc = "elect" /\ Ends(x)
  /\ IF Electable
     THEN \E pair \in Pairs :
            /\ status' = "DRAFTING" /\ turn' = FirstPick /\ clock' = clock + 1 /\ lapsed' = FALSE
            /\ team' = [team EXCEPT ![pair[1]] = 1, ![pair[2]] = 2]
            /\ captains' = {pair[1], pair[2]}
     ELSE UNCHANGED <<status, turn, clock, lapsed, team, captains>>
  /\ UNCHANGED <<voted, index>>

-----------------------------------------------------------------------------
(* The picks *)

Drafted(ts, t) == Cardinality({p \in Everyone \ captains : ts[p] = t})

\* Mutant: strict back-and-forth.
NextPickAlternate(n1, n2) ==
  IF n1 + n2 = 2 * (TeamSize - 1) THEN 0
  ELSE IF (n1 + n2) % 2 = 0 THEN FirstPick ELSE 3 - FirstPick
\* nextPickTeam: 0 once both sides are full.
NextPick(n1, n2) == LET slots == TeamSize - 1 IN
  IF n1 >= slots /\ n2 >= slots THEN 0
  ELSE IF n1 >= slots THEN 2
  ELSE IF n2 >= slots THEN 1
  ELSE IF ((n1 + n2 + 1) \div 2) % 2 = 0 THEN FirstPick ELSE 3 - FirstPick

\* makePick authorizes the captain on the clock (or an admin) for a target.
PickReads(x, p) ==
  /\ status = "DRAFTING" /\ turn # 0
  /\ Opens(x, [op |-> "pick", pc |-> "apply", player |-> p, turn |-> turn]) /\ Reads
\* resolveStalledPick judges the clock it read, and takes the top of the pool.
AutoReads(x) ==
  /\ status = "DRAFTING" /\ turn # 0 /\ lapsed /\ Pool # {}
  /\ Opens(x, [op |-> "auto", pc |-> "apply", player |-> Min(Pool), turn |-> turn, ends |-> clock])
  /\ Reads

SameTurn(x) == turn # 0 /\ turn = tx[x].turn
TurnEnds(x) == IF tx[x].op = "auto" THEN tx[x].ends ELSE clock
\* applyPick reads the lobby again.
Rereads(x) ==
  LET p == tx[x].player IN
  /\ tx[x].pc = "apply" /\ Reads
  /\ IF status = "DRAFTING" /\ SameTurn(x) /\ team[p] = 0
     THEN tx' = [tx EXCEPT ![x] = [@ EXCEPT !.pc = "claim", !.turn = turn,
                                            !.ends = TurnEnds(x), !.team = team]]
     ELSE Ends(x)

\* Mutant: the deadline is not part of the claim.
HoldsTurnLoose(x) == status = "DRAFTING" /\ turn = tx[x].turn
HoldsTurn(x) == status = "DRAFTING" /\ turn = tx[x].turn /\ clock = tx[x].ends

\* The turn claim, the player claim (a lost one rolls everything back), the
\* last player's auto-assignment and the next turn.
Claims(x) ==
  LET p == tx[x].player  t == tx[x].turn  seen == tx[x].team
      rest == {q \in Everyone : seen[q] = 0} \ {p}
      n(s) == Drafted(seen, s) + (IF t = s THEN 1 ELSE 0)
      then == NextPick(n(1), n(2))
      last == {q \in rest : then # 0 /\ Cardinality(rest) = 1 /\ team[q] = 0}
      m(s) == n(s) + (IF last # {} /\ then = s THEN 1 ELSE 0)
      made == Drafted(seen, 1) + Drafted(seen, 2)
      next == NextPick(m(1), m(2)) IN
  /\ tx[x].pc = "claim" /\ Ends(x)
  /\ IF HoldsTurn(x) /\ team[p] = 0
     THEN /\ team' = [q \in Everyone |-> IF q = p THEN t ELSE IF q \in last THEN then ELSE team[q]]
          /\ index' = [q \in Everyone |-> IF q = p THEN made ELSE IF q \in last THEN made + 1 ELSE index[q]]
          /\ turn' = next
          /\ IF next = 0 THEN status' = "READY" /\ UNCHANGED <<clock, lapsed>>
             ELSE clock' = clock + 1 /\ lapsed' = FALSE /\ UNCHANGED status
     ELSE UNCHANGED <<status, turn, clock, lapsed, team, index>>
  /\ UNCHANGED <<voted, captains>>

-----------------------------------------------------------------------------
ClockRunsOut == /\ status \in {"VOTE", "DRAFTING"} /\ ~lapsed /\ lapsed' = TRUE
                /\ UNCHANGED <<status, voted, turn, clock, team, captains, index, tx>>
\* An admin's cancel, a guarded claim that clears the turn.
Cancels == /\ status \in {"VOTE", "DRAFTING"} /\ status' = "CANCELLED" /\ turn' = 0
           /\ UNCHANGED <<voted, clock, lapsed, team, captains, index, tx>>

Init ==
  /\ status = "VOTE" /\ voted = Everyone \ Late /\ turn = 0 /\ clock = 1 /\ lapsed = FALSE
  /\ team = [p \in Everyone |-> 0] /\ captains = {} /\ index = [p \in Everyone |-> -1]
  /\ tx = [x \in Proc |-> NoTx]

Asks(x) == \E p \in Everyone : CastReads(x, p) \/ PickReads(x, p)
Resolves(x) == ElectReads(x) \/ AutoReads(x)
Proceeds(x) == CastClaims(x) \/ ElectClaims(x) \/ Rereads(x) \/ Claims(x)
Next == ClockRunsOut \/ Cancels \/ \E x \in Proc : Asks(x) \/ Resolves(x) \/ Proceeds(x)
Spec == Init /\ [][Next]_vars

-----------------------------------------------------------------------------
\* Types of the whole state.
TypeOK ==
  /\ status \in {"VOTE", "DRAFTING", "READY", "CANCELLED"}
  /\ voted \subseteq Everyone /\ captains \subseteq Everyone
  /\ turn \in 0 .. 2 /\ clock \in 1 .. 2 * TeamSize - 2 /\ lapsed \in BOOLEAN
  /\ team \in [Everyone -> 0 .. 2] /\ index \in [Everyone -> -1 .. 2 * TeamSize - 3]
  /\ \A x \in Proc : /\ tx[x].pc \in {"idle", "cast", "elect", "apply", "claim"}
                     /\ tx[x].player \in 0 .. 2 * TeamSize /\ tx[x].turn \in 0 .. 2

\* Teams lock even: no turn is used twice, and no side gets a sixth player.
TeamsEven ==
  \A t \in {1, 2} : LET n == Cardinality({p \in Everyone : team[p] = t}) IN
    n <= TeamSize /\ (status = "READY" => n = TeamSize)

\* An auto-pick takes the turn whose clock ran out, and never one that a pick
\* landing meanwhile has just given a fresh clock.
AutoPickIsLate ==
  \A x \in Proc : tx[x].op = "auto" /\ tx[x].pc = "claim" /\ tx'[x].pc = "idle" /\ team' # team
        => lapsed

\* A pick lands on the side whose captain was allowed to make it.
PickIsForItsSide ==
  \A x \in Proc, p \in Everyone :
       tx[x].op = "pick" /\ tx[x].pc = "apply" /\ tx'[x].pc = "claim" => tx'[x].turn = tx[x].turn

\* No ballot is counted after the vote closed.
NoLateBallot == voted' # voted => status = "VOTE" /\ ~lapsed

DraftIsSound == TypeOK /\ TeamsEven
DraftStep == AutoPickIsLate /\ PickIsForItsSide /\ NoLateBallot

\* The draft the players see is a snake: the order of the picks and the side of
\* each, through crossing picks, auto-picks and a cancel.
Picked == [i \in 1 .. Cardinality({p \in Everyone : index[p] >= 0}) |->
             CHOOSE p \in Everyone : index[p] = i - 1]
Snake == INSTANCE SnakeDraft WITH
  stage <- CASE status = "VOTE" -> "vote" [] status = "DRAFTING" -> "draft"
             [] status = "READY" -> "done" [] OTHER -> "off",
  Player <- Everyone, side <- team, picked <- Picked
IsSnake == Snake!Spec

-----------------------------------------------------------------------------
(* A poller gets its turn, an open transaction ends and a clock runs out. *)
Fairness == /\ WF_vars(ClockRunsOut) /\ \A x \in Proc : WF_vars(Proceeds(x))
            /\ SF_vars(\E x \in Proc : Resolves(x))
FairSpec == Spec /\ Fairness
\* Whoever is away, the vote and every turn end, and the teams lock.
DraftEnds == <>(status \in {"READY", "CANCELLED"})
=============================================================================
