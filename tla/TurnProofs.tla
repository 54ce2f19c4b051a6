------------------------------ MODULE TurnProofs ------------------------------
(***************************************************************************)
(* What the steps of the inhouse queue never do, for any number of         *)
(* players, requests, lobbies and slots: a closed game stays closed, none  *)
(* starts without all its players, and a failing check puts back everyone  *)
(* it could know of, whatever crosses it.  Where no accept falls inside a  *)
(* transaction that fails its check (~Overlaps), the queue with its        *)
(* transactions implements the queue the players see (Inhouse): every step *)
(* is one of its steps, or one they do not notice.                         *)
(***************************************************************************)
EXTENDS QueueProofs

Writes(x) == tx[x].pc \in Counted /\ tx[x].wrote
\* An open accept keeps its row from failing.
TakeTurns ==
  \A l \in Lobbies : lobby[l].lock # None => \A y \in Proc : tx[y].lobby = l => tx[y].pc \notin Counted
\* What it is about to write is not there yet, and the check still on.
WritesAreNew ==
  \A x \in Proc : Writes(x) => LET row == lobby[tx[x].lobby] IN
    row.status = "READY_CHECK" /\ tx[x].player \notin row.accepted
\* One at a time for each player.
OneWriter ==
  \A x, y \in Proc : Writes(x) /\ Writes(y) /\ tx[x].player = tx[y].player => x = y
\* A failing check puts back all who keep their place.
GoesBack(x) == LET l == tx[x].lobby  t == tx[x] IN
  t.pc = "requeue" =>
    /\ t.op = "decline" => Roster(l) \ ({t.player} \cup banned) \subseteq t.back
    /\ t.op = "resolve" => lobby[l].accepted \ banned \subseteq t.back
\* Whoever is in was told so.
AcceptsAreTold == \A l \in Lobbies : \A p \in lobby[l].accepted : <<l, p>> \in told

TurnsInv ==
  /\ TakeTurns /\ WritesAreNew /\ OneWriter /\ AcceptsAreTold
  /\ \A x \in Proc : GoesBack(x)

-----------------------------------------------------------------------------
(* What a step of each kind keeps *)

\* Any request is about a game there is, or none.
LEMMA AboutAGame ==
  ASSUME QueueInv, NEW x \in Proc, tx[x].pc \in Counted \cup {"fail", "held", "requeue", "vote"}
  PROVE  /\ tx[x] \in Request /\ Fits(x) /\ tx[x].lobby \in Lobbies /\ lobby[tx[x].lobby] \in Row
         /\ lobby[tx[x].lobby].accepted \subseteq Roster(tx[x].lobby)
         /\ Roster(tx[x].lobby) \subseteq Player
<1>1. tx[x] \in Request /\ Fits(x) /\ Lobbies = 1 .. Len(lobby) /\ Len(lobby) \in Nat
  BY LobbiesAre DEF QueueInv, Typed
<1>2. tx[x].lobby \in Lobbies
  BY <1>1 DEF Fits, Request, Accepting, Failing, Held
<1>3. QED
  BY <1>1, <1>2, LobbiesAre DEF QueueInv, AcceptedAreIn

\* One request moves, and no row.
LEMMA RequestTurns ==
  ASSUME QueueInv, TurnsInv, NEW x \in Proc, UNCHANGED <<lobby, told>>, banned \subseteq banned',
         \A y \in Proc : y # x => tx'[y] = tx[y],
         tx'[x].pc \in Counted => Unlocked(tx'[x].lobby),
         Writes(x)' => /\ lobby[tx'[x].lobby].status = "READY_CHECK"
                       /\ tx'[x].player \notin lobby[tx'[x].lobby].accepted
                       /\ \A y \in Proc : y # x /\ Writes(y) => tx[y].player # tx'[x].player,
         GoesBack(x)'
  PROVE  TurnsInv'
<1>1. TakeTurns'
  BY DEF TurnsInv, TakeTurns, Lobbies, Unlocked
<1>2. WritesAreNew'
  BY DEF TurnsInv, WritesAreNew, Writes
<1>3. OneWriter'
  BY DEF TurnsInv, OneWriter, Writes
<1>4. AcceptsAreTold'
  BY DEF TurnsInv, AcceptsAreTold, Lobbies
<1>5. ASSUME NEW y \in Proc, y # x PROVE GoesBack(y)'
  BY <1>5 DEF TurnsInv, GoesBack, Roster
<1>6. QED
  BY <1>1, <1>2, <1>3, <1>4, <1>5 DEF TurnsInv

\* One row moves: what an accept is about to write in it stays to be written.
LEMMA RowTurns ==
  ASSUME QueueAssumption, QueueInv, TurnsInv, NEW l \in Lobbies, NEW row \in Row,
         lobby' = [lobby EXCEPT ![l] = row], row.at = lobby[l].at,
         told \subseteq told', banned \subseteq banned',
         \A y \in Proc : tx'[y] = tx[y] \/ tx'[y].pc \notin Counted \cup {"requeue"},
         \/ row.lock \in {None, lobby[l].lock}
         \/ \A y \in Proc : tx'[y].lobby = l => tx'[y].pc \notin Counted,
         \A y \in Proc : Writes(y) /\ tx'[y] = tx[y] /\ tx[y].lobby = l
                           => row.status = "READY_CHECK" /\ tx[y].player \notin row.accepted,
         row.accepted = lobby[l].accepted \/ Unlocked(l),
         \A p \in row.accepted : <<l, p>> \in told'
  PROVE  TurnsInv'
<1>1. /\ Lobbies' = Lobbies /\ lobby'[l] = row /\ \A m \in Lobbies : m # l => lobby'[m] = lobby[m]
      /\ \A m \in Lobbies : Roster(m)' = Roster(m)
  BY RowChanges DEF QueueInv
<1>2. TakeTurns'
  <2>1. SUFFICES ASSUME NEW m \in Lobbies, lobby'[m].lock # None, NEW y \in Proc, tx'[y].lobby = m
                 PROVE  tx'[y].pc \notin Counted
    BY <1>1 DEF TakeTurns
  <2>2. CASE m = l /\ row.lock \notin {None, lobby[l].lock}
    BY <2>1, <2>2
  <2>3. CASE ~ (m = l /\ row.lock \notin {None, lobby[l].lock})
    <3>1. lobby[m].lock # None
      BY <1>1, <2>1, <2>3
    <3>2. QED
      BY <2>1, <3>1 DEF TurnsInv, TakeTurns
  <2>4. QED
    BY <2>2, <2>3
<1>3. WritesAreNew'
  <2>1. SUFFICES ASSUME NEW y \in Proc, Writes(y)'
                 PROVE  /\ lobby'[tx'[y].lobby].status = "READY_CHECK"
                        /\ tx'[y].player \notin lobby'[tx'[y].lobby].accepted
    BY DEF WritesAreNew
  <2>2. tx'[y] = tx[y] /\ Writes(y)
    BY <2>1 DEF Writes
  <2>3. tx[y].lobby \in Lobbies
    BY <2>2, AboutAGame DEF Writes
  <2>4. CASE tx[y].lobby = l
    BY <1>1, <2>2, <2>4
  <2>5. CASE tx[y].lobby # l
    BY <1>1, <2>2, <2>3, <2>5 DEF TurnsInv, WritesAreNew
  <2>6. QED
    BY <2>4, <2>5
<1>4. OneWriter'
  BY DEF TurnsInv, OneWriter, Writes
<1>5. AcceptsAreTold'
  BY <1>1 DEF TurnsInv, AcceptsAreTold
<1>6. ASSUME NEW y \in Proc PROVE GoesBack(y)'
  <2>1. SUFFICES ASSUME tx'[y].pc = "requeue" PROVE GoesBack(y)'
    BY DEF GoesBack
  <2>2. tx'[y] = tx[y] /\ tx[y].pc = "requeue"
    BY <2>1
  <2>3. tx[y].lobby \in Lobbies /\ lobby[tx[y].lobby].lock = y /\ y # None
    BY <2>2, AboutAGame, NoneApart DEF Fits, Held
  <2>4. /\ lobby'[tx[y].lobby].accepted = lobby[tx[y].lobby].accepted
        /\ lobby'[tx[y].lobby].at = lobby[tx[y].lobby].at
    BY <1>1, <2>3 DEF Unlocked
  <2>5. QED
    BY <2>2, <2>4 DEF TurnsInv, GoesBack, Roster
<1>7. QED
  BY <1>2, <1>3, <1>4, <1>5, <1>6 DEF TurnsInv

-----------------------------------------------------------------------------
(* The steps *)

LEMMA QueuesTurn ==
  ASSUME QueueAssumption, QueueInv, TurnsInv, Queues
  PROVE  TurnsInv'
<1>1. CASE UNCHANGED <<lobby, banned, tx, told>>
  BY <1>1 DEF TurnsInv, TakeTurns, WritesAreNew, OneWriter, AcceptsAreTold, GoesBack, Writes, Lobbies, Roster
<1>2. CASE Form
  <2>1. PICK n \in Nat, row \in Row :
          /\ n \notin Lobbies /\ Lobbies' = Lobbies \cup {n}
          /\ lobby'[n] = row /\ \A m \in Lobbies : lobby'[m] = lobby[m]
          /\ row.lock = None /\ row.accepted = {}
    BY <1>2, FormAdds
  <2>2. UNCHANGED <<banned, tx, told>>
    BY <1>2 DEF Form
  <2>3. TakeTurns'
    BY <2>1, <2>2 DEF TurnsInv, TakeTurns
  <2>4. \A x \in Proc : Writes(x) \/ tx[x].pc = "requeue" => lobby'[tx[x].lobby] = lobby[tx[x].lobby]
    BY <2>1, AboutAGame DEF Writes
  <2>5. WritesAreNew' /\ OneWriter'
    BY <2>2, <2>4 DEF TurnsInv, WritesAreNew, OneWriter, Writes
  <2>6. AcceptsAreTold'
    BY <2>1, <2>2 DEF TurnsInv, AcceptsAreTold
  <2>7. ASSUME NEW x \in Proc PROVE GoesBack(x)'
    BY <2>2, <2>4 DEF TurnsInv, GoesBack, Roster
  <2>8. QED
    BY <2>3, <2>5, <2>6, <2>7 DEF TurnsInv
<1>3. CASE QueueIdles \/ Expires
  BY <1>1, <1>3 DEF QueueIdles, Expires
<1>4. ASSUME NEW p \in Player, Join(p) \/ Leave(p) \/ Heartbeat(p) \/ GoesAway(p) PROVE TurnsInv'
  BY <1>1, <1>4 DEF Join, Leave, Heartbeat, GoesAway
<1>5. QED
  BY <1>2, <1>3, <1>4 DEF Queues

\* A request that begins or ends has nothing counted and nobody to put back.
LEMMA FreshTurns ==
  ASSUME QueueInv, TurnsInv, NEW x \in Proc, UNCHANGED <<lobby, told>>, banned \subseteq banned',
         \A y \in Proc : y # x => tx'[y] = tx[y],
         tx'[x].pc \notin Counted \cup {"requeue"}
  PROVE  TurnsInv'
BY RequestTurns DEF GoesBack, Writes

LEMMA BeginningsTurn ==
  ASSUME QueueInv, TurnsInv, NEW x \in Proc, Answers(x) \/ Resolves(x) \/ Moderates(x)
  PROVE  TurnsInv'
<1>1. tx \in [Proc -> Request]
  BY DEF QueueInv, Typed
<1>2. ASSUME NEW op, NEW pc, NEW p, NEW l, Begins(x, op, pc, p, l),
             UNCHANGED <<lobby, told, banned>>, pc \in {"claim", "fail", "vote"}
      PROVE  TurnsInv'
  <2>1. tx'[x].pc = pc /\ \A y \in Proc : y # x => tx'[y] = tx[y]
    BY <1>1, <1>2 DEF Begins, NoTx
  <2>2. tx'[x].pc \notin Counted \cup {"requeue"}
    BY <1>2, <2>1 DEF Counted
  <2>3. QED
    BY <1>2, <2>1, <2>2, FreshTurns
<1>3. ASSUME NEW p \in Player, NEW l \in 1 .. MaxLobbies, AcceptReads(x, p, l) PROVE TurnsInv'
  BY <1>2, <1>3 DEF AcceptReads
<1>4. ASSUME NEW p \in Player, NEW l \in 1 .. MaxLobbies, DeclineReads(x, p, l) PROVE TurnsInv'
  BY <1>2, <1>4 DEF DeclineReads
<1>5. ASSUME NEW l \in 1 .. MaxLobbies, ResolverReads(x, l) PROVE TurnsInv'
  <2>1. Verdict(l) \in {"claim", "fail", "vote"} /\ UNCHANGED <<lobby, told, banned>>
    BY <1>5 DEF ResolverReads, Verdict
  <2>2. Begins(x, "resolve", Verdict(l), None, l)
    BY <1>5 DEF ResolverReads
  <2>3. QED
    BY <1>2, <2>1, <2>2
<1>6. ASSUME NEW l \in 1 .. MaxLobbies, CancelReads(x, l) PROVE TurnsInv'
  BY <1>2, <1>6 DEF CancelReads
<1>7. ASSUME NEW p \in Player, BanReads(x, p) PROVE TurnsInv'
  <2>1. tx'[x].pc = "ban" /\ \A y \in Proc : y # x => tx'[y] = tx[y]
    BY <1>1, <1>7 DEF BanReads, NoTx
  <2>2. tx'[x].pc \notin Counted \cup {"requeue"} /\ UNCHANGED <<lobby, told, banned>>
    BY <1>7, <2>1 DEF Counted, BanReads
  <2>3. QED
    BY <2>1, <2>2, FreshTurns
<1>8. QED
  BY <1>3, <1>4, <1>5, <1>6, <1>7 DEF Answers, Resolves, Moderates

\* A request that ends without a row.
LEMMA EndsTurn ==
  ASSUME QueueInv, TurnsInv, NEW x \in Proc, Ends(x), UNCHANGED <<lobby, told>>, banned \subseteq banned'
  PROVE  TurnsInv'
<1>1. tx'[x] = NoTx /\ \A y \in Proc : y # x => tx'[y] = tx[y]
  BY EndsTyped DEF QueueInv
<1>2. tx'[x].pc \notin Counted \cup {"requeue"}
  BY <1>1 DEF NoTx, Counted
<1>3. QED
  BY <1>1, <1>2, FreshTurns

LEMMA ClaimTurns ==
  ASSUME QueueInv, TurnsInv, ~Overlaps, NEW x \in Proc, AcceptClaims(x)
  PROVE  TurnsInv'
<1> DEFINE l == tx[x].lobby
           p == tx[x].player
<1>1. /\ tx \in [Proc -> Request] /\ Fits(x) /\ UNCHANGED <<lobby, banned, told>>
      /\ tx[x].pc = "claim" /\ tx[x].op = "accept" /\ Unlocked(l)
      /\ \A y \in Proc : y # x /\ tx[y].op = "accept" /\ tx[y].wrote => tx[y].player # p
  BY DEF AcceptClaims, QueueInv, Typed
<1>2. CASE lobby[l].status = "READY_CHECK"
  <2>1. tx' = [tx EXCEPT ![x] = [@ EXCEPT !.pc = "count", !.wrote = p \notin lobby[l].accepted]]
    BY <1>2 DEF AcceptClaims
  <2>2. /\ tx'[x].pc = "count" /\ tx'[x].wrote = (p \notin lobby[l].accepted)
        /\ tx'[x].player = p /\ tx'[x].lobby = l
        /\ \A y \in Proc : y # x => tx'[y] = tx[y]
    BY <1>1, <2>1 DEF Request
  <2>3. \A y \in Proc : y # x /\ Writes(y) => tx[y].player # p
    BY <1>1 DEF Writes, QueueInv, Fits, Accepting
  <2>4. GoesBack(x)'
    BY <2>2 DEF GoesBack
  <2>5. Writes(x)' => p \notin lobby[l].accepted
    BY <2>2 DEF Writes
  <2>6. QED
    BY <1>1, <1>2, <2>2, <2>3, <2>4, <2>5, RequestTurns
<1>3. CASE lobby[l].status # "READY_CHECK"
  BY <1>1, <1>3, EndsTurn DEF AcceptClaims
<1>4. QED
  BY <1>2, <1>3

LEMMA CountTurns ==
  ASSUME QueueInv, TurnsInv, NEW x \in Proc, AcceptCounts(x)
  PROVE  TurnsInv'
<1> DEFINE l == tx[x].lobby
           pc == IF Pending(l) \subseteq {tx[x].player} THEN "flip" ELSE "commit"
<1>1. /\ tx \in [Proc -> Request] /\ UNCHANGED <<lobby, banned, told>> /\ tx[x].pc = "count"
      /\ tx' = [tx EXCEPT ![x].pc = pc]
  BY DEF AcceptCounts, QueueInv, Typed
<1>2. pc \in Counted /\ pc # "requeue"
  BY DEF Counted
<1> HIDE DEF pc
<1>3. /\ tx'[x].pc = pc /\ tx'[x].wrote = tx[x].wrote /\ tx'[x].player = tx[x].player
      /\ tx'[x].lobby = l /\ \A y \in Proc : y # x => tx'[y] = tx[y]
  BY <1>1 DEF Request
<1>4. l \in Lobbies /\ tx[x].pc \in Counted
  BY <1>1, AboutAGame DEF Counted
<1>5. Unlocked(l)
  BY <1>4 DEF TurnsInv, TakeTurns, Unlocked
<1>6. Writes(x)' => Writes(x)
  BY <1>3, <1>4 DEF Writes
<1>7. GoesBack(x)'
  BY <1>2, <1>3 DEF GoesBack
<1>8. Writes(x) => /\ lobby[l].status = "READY_CHECK" /\ tx[x].player \notin lobby[l].accepted
                   /\ \A y \in Proc : y # x /\ Writes(y) => tx[y].player # tx[x].player
  BY DEF TurnsInv, WritesAreNew, OneWriter
<1>9. QED
  BY <1>1, <1>3, <1>5, <1>6, <1>7, <1>8, RequestTurns

LEMMA RereadTurns ==
  ASSUME QueueInv, TurnsInv, NEW x \in Proc, FailRereads(x)
  PROVE  TurnsInv'
<1> DEFINE fresh == IF tx[x].op = "cancel" THEN {} ELSE lobby[tx[x].lobby].accepted
<1>1. /\ tx \in [Proc -> Request] /\ UNCHANGED <<lobby, banned, told>>
      /\ tx' = [tx EXCEPT ![x] = [@ EXCEPT !.pc = "requeue", !.back = GoBack(x), !.fresh = fresh]]
  BY DEF FailRereads, QueueInv, Typed
<1> HIDE DEF fresh
<1>2. /\ tx'[x].pc = "requeue" /\ tx'[x].op = tx[x].op /\ tx'[x].player = tx[x].player
      /\ tx'[x].lobby = tx[x].lobby /\ tx'[x].back = GoBack(x)
      /\ \A y \in Proc : y # x => tx'[y] = tx[y]
  BY <1>1 DEF Request
<1>3. GoesBack(x)'
  BY <1>1, <1>2 DEF GoesBack, GoBack, Roster
<1>4. tx'[x].pc \notin Counted
  BY <1>2 DEF Counted
<1>5. QED
  BY <1>1, <1>2, <1>3, <1>4, RequestTurns DEF Writes

\* Two who write the same row are two players.
LEMMA OthersWrite ==
  ASSUME QueueInv, TurnsInv, NEW x \in Proc, tx[x].pc \in Counted, NEW y \in Proc, y # x, Writes(y),
         tx[y].lobby = tx[x].lobby
  PROVE  /\ lobby[tx[x].lobby].status = "READY_CHECK"
         /\ tx[y].player \notin Accepted(x).accepted
         /\ tx[y].player \in Pending(tx[x].lobby) /\ tx[y].player # tx[x].player
<1> DEFINE l == tx[x].lobby
           q == tx[y].player
<1>1. lobby[l].status = "READY_CHECK" /\ q \notin lobby[l].accepted
  BY DEF TurnsInv, WritesAreNew
<1>2. q \in Roster(l)
  BY DEF QueueInv, Fits, Accepting, Writes
<1>3. q # tx[x].player
  <2>1. CASE tx[x].wrote
    BY <2>1 DEF TurnsInv, OneWriter, Writes
  <2>2. CASE ~tx[x].wrote
    <3>1. tx[x].player \in lobby[l].accepted
      BY <2>2 DEF QueueInv, Fits
    <3>2. QED
      BY <1>1, <3>1
  <2>3. QED
    BY <2>1, <2>2
<1>4. Accepted(x).accepted \subseteq lobby[l].accepted \cup {tx[x].player}
  BY AcceptedIs
<1>5. QED
  BY <1>1, <1>2, <1>3, <1>4 DEF Pending

LEMMA AcceptTurns ==
  ASSUME QueueAssumption, QueueInv, TurnsInv, NEW x \in Proc, AcceptCommits(x) \/ AcceptFlips(x)
  PROVE  TurnsInv'
<1> DEFINE l == tx[x].lobby
           row == IF tx[x].pc = "flip" THEN Flipped(Accepted(x)) ELSE Accepted(x)
<1>1. /\ tx[x].pc \in {"commit", "flip"} /\ lobby' = [lobby EXCEPT ![l] = row]
      /\ told' = told \cup {<<l, tx[x].player>>} /\ Ends(x) /\ banned' = banned
  BY DEF AcceptCommits, AcceptFlips
<1>2. tx[x].pc \in Counted
  BY <1>1 DEF Counted
<1>3. /\ l \in Lobbies /\ Accepted(x) \in Row
      /\ Accepted(x).at = lobby[l].at /\ Accepted(x).lock = lobby[l].lock
      /\ Accepted(x).status = lobby[l].status
      /\ Accepted(x).accepted \subseteq lobby[l].accepted \cup {tx[x].player}
  BY <1>2, AcceptedIs
<1>4. /\ row \in Row /\ row.at = lobby[l].at /\ row.lock = lobby[l].lock
      /\ row.accepted = Accepted(x).accepted
      /\ tx[x].pc # "flip" => row.status = lobby[l].status
  BY <1>3, FlippedIs
<1> HIDE DEF row
<1>5. Unlocked(l)
  BY <1>2, <1>3 DEF TurnsInv, TakeTurns, Unlocked
<1>6. tx'[x] = NoTx /\ \A y \in Proc : y # x => tx'[y] = tx[y]
  BY <1>1, EndsTyped DEF QueueInv
<1>7. \A y \in Proc : tx'[y] = tx[y] \/ tx'[y].pc \notin Counted \cup {"requeue"}
  <2>1. NoTx.pc \notin Counted \cup {"requeue"}
    BY DEF NoTx, Counted
  <2>2. QED
    BY <1>6, <2>1
<1>8. ASSUME NEW y \in Proc, Writes(y), tx'[y] = tx[y], tx[y].lobby = l
      PROVE  row.status = "READY_CHECK" /\ tx[y].player \notin row.accepted
  <2>1. NoTx.pc \notin Counted
    BY DEF NoTx, Counted
  <2>2. y # x
    BY <1>2, <1>6, <1>8, <2>1
  <2>3. /\ lobby[l].status = "READY_CHECK" /\ tx[y].player \notin Accepted(x).accepted
        /\ tx[y].player \in Pending(l) /\ tx[y].player # tx[x].player
    BY <1>2, <1>8, <2>2, OthersWrite
  <2>4. tx[x].pc # "flip"
    BY <2>3 DEF QueueInv, Fits
  <2>5. QED
    BY <1>4, <2>3, <2>4
<1>9. \A p \in row.accepted : <<l, p>> \in told'
  BY <1>1, <1>3, <1>4 DEF TurnsInv, AcceptsAreTold
<1>10. told \subseteq told' /\ banned \subseteq banned'
  BY <1>1
<1>11. QED
  BY <1>1, <1>3, <1>4, <1>5, <1>7, <1>8, <1>9, <1>10, RowTurns

\* A step of the game's own that loses no check somebody is writing in.
LEMMA OthersTurn ==
  ASSUME QueueAssumption, QueueInv, TurnsInv, NEW l \in Lobbies, NEW row \in Row,
         lobby' = [lobby EXCEPT ![l] = row], row.at = lobby[l].at, row.lock = lobby[l].lock,
         row.accepted = lobby[l].accepted, UNCHANGED <<told, banned>>,
         UNCHANGED tx \/ \E x \in Proc : Ends(x),
         row.status = lobby[l].status \/ lobby[l].status # "READY_CHECK" \/ Pending(l) = {}
  PROVE  TurnsInv'
<1>1. \A y \in Proc : tx'[y] = tx[y] \/ tx'[y].pc \notin Counted \cup {"requeue"}
  <2>1. NoTx.pc \notin Counted \cup {"requeue"}
    BY DEF NoTx, Counted
  <2>2. CASE UNCHANGED tx
    BY <2>2
  <2>3. ASSUME NEW x \in Proc, Ends(x) PROVE \A y \in Proc : tx'[y] = tx[y] \/ tx'[y] = NoTx
    BY <2>3, EndsTyped DEF QueueInv
  <2>4. QED
    BY <2>1, <2>2, <2>3
<1>2. ASSUME NEW y \in Proc, Writes(y), tx[y].lobby = l
      PROVE  row.status = "READY_CHECK" /\ tx[y].player \notin row.accepted
  <2>1. lobby[l].status = "READY_CHECK" /\ tx[y].player \notin lobby[l].accepted
    BY <1>2 DEF TurnsInv, WritesAreNew
  <2>2. tx[y].player \in Pending(l)
    BY <1>2, <2>1 DEF QueueInv, Fits, Accepting, Writes, Pending
  <2>3. QED
    BY <2>1, <2>2
<1>3. \A p \in row.accepted : <<l, p>> \in told'
  BY DEF TurnsInv, AcceptsAreTold
<1>4. told \subseteq told' /\ banned \subseteq banned'
  OBVIOUS
<1>5. QED
  BY <1>1, <1>2, <1>3, <1>4, RowTurns

LEMMA GamesTurn ==
  ASSUME QueueAssumption, QueueInv, TurnsInv,
         \/ \E x \in Proc : ResolverFlips(x)
         \/ Plays \/ \E l \in 1 .. MaxLobbies : ClockRunsOut(l)
  PROVE  TurnsInv'
<1>1. ASSUME NEW x \in Proc, ResolverFlips(x) PROVE TurnsInv'
  <2> DEFINE l == tx[x].lobby
             row == Flipped(lobby[l])
  <2>1. /\ tx[x].pc = "vote" /\ Ends(x) /\ lobby' = [lobby EXCEPT ![l] = row]
        /\ UNCHANGED <<banned, told>>
    BY <1>1 DEF ResolverFlips
  <2>2. l \in Lobbies /\ lobby[l] \in Row /\ Pending(l) = {}
    BY <2>1, AboutAGame DEF Fits
  <2>3. /\ row \in Row /\ row.at = lobby[l].at /\ row.lock = lobby[l].lock
        /\ row.accepted = lobby[l].accepted
    BY <2>2, FlippedIs
  <2> HIDE DEF row
  <2>4. QED
    BY <2>1, <2>2, <2>3, OthersTurn
<1>2. ASSUME NEW l \in 1 .. MaxLobbies, NEW from, NEW to \in Statuses, Moves(l, from, to),
             "READY_CHECK" \notin from
      PROVE  TurnsInv'
  <2> DEFINE row == [lobby[l] EXCEPT !.status = to]
  <2>1. /\ l \in Lobbies /\ lobby[l].status # "READY_CHECK"
        /\ lobby' = [lobby EXCEPT ![l] = row] /\ UNCHANGED <<banned, told, tx>>
    BY <1>2 DEF Moves
  <2>2. lobby[l] \in Row
    BY <2>1, LobbiesAre DEF QueueInv
  <2>3. row \in Row
    BY <2>2, RowTyped
  <2>4. row.at = lobby[l].at /\ row.lock = lobby[l].lock /\ row.accepted = lobby[l].accepted
    BY <2>2 DEF Row
  <2> HIDE DEF row
  <2>5. QED
    BY <2>1, <2>2, <2>3, <2>4, OthersTurn
<1>3. ASSUME NEW l \in 1 .. MaxLobbies, TeamsLock(l) \/ GameOver(l) \/ ResultIn(l) \/ Abandoned(l)
      PROVE  TurnsInv'
  <2>1. /\ {"READY", "AWAITING_RESULT", "COMPLETED", "CANCELLED"} \subseteq Statuses
        /\ "READY_CHECK" \notin {"CAPTAIN_VOTE"} /\ "READY_CHECK" \notin {"READY"}
        /\ "READY_CHECK" \notin {"READY", "AWAITING_RESULT"}
    BY DEF Statuses, Active, Terminal
  <2>2. CASE TeamsLock(l)
    BY <1>2, <2>1, <2>2 DEF TeamsLock
  <2>3. CASE GameOver(l)
    BY <1>2, <2>1, <2>3 DEF GameOver
  <2>4. CASE ResultIn(l)
    BY <1>2, <2>1, <2>4 DEF ResultIn, Recordable
  <2>5. CASE Abandoned(l)
    BY <1>2, <2>1, <2>5 DEF Abandoned
  <2>6. QED
    BY <1>3, <2>2, <2>3, <2>4, <2>5
<1>4. ASSUME NEW l \in 1 .. MaxLobbies, ClockRunsOut(l) PROVE TurnsInv'
  <2> DEFINE row == [lobby[l] EXCEPT !.due = TRUE]
  <2>1. /\ l \in Lobbies /\ lobby' = [lobby EXCEPT ![l] = row] /\ UNCHANGED <<banned, told, tx>>
    BY <1>4 DEF ClockRunsOut
  <2>2. lobby[l] \in Row
    BY <2>1, LobbiesAre DEF QueueInv
  <2>3. row \in Row
    BY <2>2, RowTyped
  <2>4. /\ row.at = lobby[l].at /\ row.lock = lobby[l].lock /\ row.accepted = lobby[l].accepted
        /\ row.status = lobby[l].status
    BY <2>2 DEF Row
  <2> HIDE DEF row
  <2>5. QED
    BY <2>1, <2>2, <2>3, <2>4, OthersTurn
<1>5. QED
  BY <1>1, <1>3, <1>4 DEF Plays

\* The claim of a failing check waits for the accepts that are open on its row, and
\* an accept's claim for it.
LEMMA FailClaimsTurns ==
  ASSUME QueueAssumption, QueueInv, TurnsInv, ~Overlaps, NEW x \in Proc, FailClaims(x)
  PROVE  TurnsInv'
<1> DEFINE l == tx[x].lobby
           row == [lobby[l] EXCEPT !.lock = x]
<1>1. /\ tx[x].pc = "fail" /\ tx \in [Proc -> Request] /\ UNCHANGED <<banned, told>>
      /\ \A y \in Proc : tx[y].lobby = l => tx[y].pc \notin Counted
  BY DEF FailClaims, QueueInv, Typed, Counted
<1>2. l \in Lobbies /\ lobby[l] \in Row
  BY <1>1, AboutAGame
<1>3. CASE lobby[l].status \notin Cancellable(tx[x].op)
  BY <1>1, <1>3, EndsTurn DEF FailClaims
<1>4. CASE lobby[l].status \in Cancellable(tx[x].op)
  <2>1. lobby' = [lobby EXCEPT ![l] = row] /\ tx' = [tx EXCEPT ![x].pc = "held"]
    BY <1>4 DEF FailClaims
  <2>2. row \in Row
    BY <1>2, RowTyped
  <2>3. row.at = lobby[l].at /\ row.accepted = lobby[l].accepted
    BY <1>2 DEF Row
  <2> HIDE DEF row
  <2>4. /\ tx'[x].pc = "held" /\ tx'[x].lobby = l /\ \A y \in Proc : y # x => tx'[y] = tx[y]
    BY <1>1, <2>1 DEF Request
  <2>5. \A y \in Proc : tx'[y] = tx[y] \/ tx'[y].pc \notin Counted \cup {"requeue"}
    BY <2>4 DEF Counted
  <2>6. \A y \in Proc : tx'[y].lobby = l => tx'[y].pc \notin Counted
    BY <1>1, <2>4 DEF Counted
  <2>7. \A y \in Proc : tx[y].lobby = l => ~Writes(y)
    BY <1>1 DEF Writes
  <2>8. \A p \in row.accepted : <<l, p>> \in told'
    BY <1>1, <1>2, <2>3 DEF TurnsInv, AcceptsAreTold
  <2>9. told \subseteq told' /\ banned \subseteq banned'
    BY <1>1
  <2>10. QED
    BY <1>2, <2>1, <2>2, <2>3, <2>5, <2>6, <2>7, <2>8, <2>9, RowTurns
<1>5. QED
  BY <1>3, <1>4

LEMMA FailCommitsTurns ==
  ASSUME QueueAssumption, QueueInv, TurnsInv, NEW x \in Proc, FailCommits(x)
  PROVE  TurnsInv'
<1> DEFINE l == tx[x].lobby
           row == [lobby[l] EXCEPT !.status = "CANCELLED", !.lock = None, !.due = FALSE]
<1>1. /\ tx[x].pc = "requeue" /\ Ends(x) /\ UNCHANGED <<banned, told>>
      /\ lobby' = [lobby EXCEPT ![l] = row]
  BY DEF FailCommits
<1>2. l \in Lobbies /\ lobby[l] \in Row /\ lobby[l].lock = x /\ x # None
  BY <1>1, AboutAGame, NoneApart DEF Fits, Held
<1>3. row \in Row
  <2>1. "CANCELLED" \in Statuses /\ None \in Proc \cup {None} /\ FALSE \in BOOLEAN
    BY DEF Statuses, Terminal
  <2>2. QED
    BY <1>2, <2>1, Zenon DEF Row
<1>4. row.lock = None /\ row.at = lobby[l].at /\ row.accepted = lobby[l].accepted
  BY <1>2 DEF Row
<1> HIDE DEF row
<1>5. tx'[x] = NoTx /\ \A y \in Proc : y # x => tx'[y] = tx[y]
  BY <1>1, EndsTyped DEF QueueInv
<1>6. \A y \in Proc : tx'[y] = tx[y] \/ tx'[y].pc \notin Counted \cup {"requeue"}
  <2>1. NoTx.pc \notin Counted \cup {"requeue"}
    BY DEF NoTx, Counted
  <2>2. QED
    BY <1>5, <2>1
<1>7. \A y \in Proc : tx[y].lobby = l => ~Writes(y)
  BY <1>2 DEF TurnsInv, TakeTurns, Writes
<1>8. \A p \in row.accepted : <<l, p>> \in told'
  BY <1>1, <1>2, <1>4 DEF TurnsInv, AcceptsAreTold
<1>9. told \subseteq told' /\ banned \subseteq banned'
  BY <1>1
<1>10. QED
  BY <1>1, <1>2, <1>3, <1>4, <1>6, <1>7, <1>8, <1>9, RowTurns

LEMMA BanCommitsTurns ==
  ASSUME QueueInv, TurnsInv, NEW x \in Proc, BanCommits(x)
  PROVE  TurnsInv'
<1>1. Ends(x) /\ UNCHANGED <<lobby, told>> /\ banned \subseteq banned'
  BY DEF BanCommits
<1>2. QED
  BY <1>1, EndsTurn

LEMMA InitTurns == ASSUME Init PROVE TurnsInv
BY DEF Init, TurnsInv, TakeTurns, WritesAreNew, OneWriter, AcceptsAreTold, GoesBack, Writes, NoTx,
       Counted, Lobbies

LEMMA NextTurns ==
  ASSUME QueueAssumption, QueueInv, TurnsInv, ~Overlaps, Next
  PROVE  TurnsInv'
<1>1. CASE Queues
  BY <1>1, QueuesTurn
<1>2. CASE Plays \/ \E l \in 1 .. MaxLobbies : ClockRunsOut(l)
  BY <1>2, GamesTurn
<1>3. ASSUME NEW x \in Proc, Answers(x) \/ Resolves(x) \/ Moderates(x) PROVE TurnsInv'
  BY <1>3, BeginningsTurn
<1>4. ASSUME NEW x \in Proc, Proceeds(x) PROVE TurnsInv'
  BY <1>4, ClaimTurns, CountTurns, AcceptTurns, GamesTurn, FailClaimsTurns, RereadTurns,
     FailCommitsTurns, BanCommitsTurns DEF Proceeds
<1>5. QED
  BY <1>1, <1>2, <1>3, <1>4 DEF Next

\* Where acceptMatch and failReadyCheck take turns on a lobby's row, both
\* invariants hold always: what an open accept will write is new, its check still
\* on, and a failing check puts back everyone who keeps their place.
THEOREM TurnsInvariant ==
  ASSUME QueueAssumption, IsFiniteSet(Player), ~Overlaps PROVE Spec => [](QueueInv /\ TurnsInv)
<1>1. Init => TurnsInv
  BY InitTurns
<1>2. QueueInv /\ TurnsInv /\ [Next]_vars => TurnsInv'
  <2>1. SUFFICES ASSUME TurnsInv, UNCHANGED vars PROVE TurnsInv'
    BY NextTurns
  <2>2. QED
    BY <2>1 DEF vars, TurnsInv, TakeTurns, WritesAreNew, OneWriter, AcceptsAreTold, GoesBack, Writes,
       Lobbies, Roster
<1>3. QED
  BY <1>1, <1>2, QueueInvariant, PTL DEF Spec

-----------------------------------------------------------------------------
(* What a step does to the games *)

\* A game's status changes when its check ends, well or not, or while it is on.
StartsVote(l)   == /\ lobby[l].status = "READY_CHECK" /\ lobby'[l].status = "CAPTAIN_VOTE"
                   /\ Roster(l) = lobby'[l].accepted
Fails(l)        == \E x \in Proc : FailCommits(x) /\ tx[x].lobby = l
MovesOn(l)      == /\ lobby[l].status \in {"CAPTAIN_VOTE", "READY", "AWAITING_RESULT"}
                   /\ lobby'[l].status \notin {"READY_CHECK", "CAPTAIN_VOTE"}
                   /\ lobby[l].status = "AWAITING_RESULT" => lobby'[l].status \in Terminal

\* The row a step leaves alone.
LEMMA OtherRow ==
  ASSUME QueueInv, NEW k \in Lobbies, NEW row, lobby' = [lobby EXCEPT ![k] = row]
  PROVE  lobby'[k] = row /\ \A l \in Lobbies : l # k => lobby'[l] = lobby[l]
BY DEF QueueInv, Typed, Lobbies

LEMMA StatusMoves ==
  ASSUME QueueAssumption, QueueInv, Next, NEW l \in Lobbies, lobby'[l].status # lobby[l].status
  PROVE  StartsVote(l) \/ Fails(l) \/ MovesOn(l)
<1>1. CASE Queues
  <2>1. lobby'[l] = lobby[l]
    <3>1. CASE Form
      BY <3>1, FormAdds
    <3>2. CASE ~Form
      BY <1>1, <3>2 DEF Queues, Join, Leave, Heartbeat, GoesAway, QueueIdles, Expires
    <3>3. QED
      BY <3>1, <3>2
  <2>2. QED
    BY <2>1
<1>2. ASSUME NEW k \in 1 .. MaxLobbies, TeamsLock(k) \/ GameOver(k) \/ ResultIn(k) \/ Abandoned(k)
      PROVE  MovesOn(l)
  <2>1. PICK to \in Statuses :
          /\ k \in Lobbies /\ lobby' = [lobby EXCEPT ![k] = [lobby[k] EXCEPT !.status = to]]
          /\ lobby[k].status \in {"CAPTAIN_VOTE", "READY", "AWAITING_RESULT"}
          /\ to \notin {"READY_CHECK", "CAPTAIN_VOTE"}
          /\ lobby[k].status = "AWAITING_RESULT" => to \in Terminal
    <3>1. CASE TeamsLock(k)
      <4>1. /\ k \in Lobbies /\ lobby' = [lobby EXCEPT ![k].status = "READY"]
            /\ lobby[k].status = "CAPTAIN_VOTE"
        BY <3>1 DEF TeamsLock, Moves
      <4>2. QED
        BY <4>1 DEF Statuses, Active, Terminal
    <3>2. CASE GameOver(k)
      <4>1. /\ k \in Lobbies /\ lobby' = [lobby EXCEPT ![k].status = "AWAITING_RESULT"]
            /\ lobby[k].status = "READY"
        BY <3>2 DEF GameOver, Moves
      <4>2. QED
        BY <4>1 DEF Statuses, Active, Terminal
    <3>3. CASE ResultIn(k)
      <4>1. /\ k \in Lobbies /\ lobby' = [lobby EXCEPT ![k].status = "COMPLETED"]
            /\ lobby[k].status \in {"READY", "AWAITING_RESULT"}
        BY <3>3 DEF ResultIn, Recordable, Moves
      <4>2. QED
        BY <4>1 DEF Statuses, Terminal
    <3>4. CASE Abandoned(k)
      <4>1. /\ k \in Lobbies /\ lobby' = [lobby EXCEPT ![k].status = "CANCELLED"]
            /\ lobby[k].status \in {"READY", "AWAITING_RESULT"}
        BY <3>4 DEF Abandoned, Moves
      <4>2. QED
        BY <4>1 DEF Statuses, Terminal
    <3>5. QED
      BY <1>2, <3>1, <3>2, <3>3, <3>4
  <2>2. lobby[k] \in Row /\ l = k
    BY <2>1, LobbiesAre, OtherRow DEF QueueInv
  <2>3. lobby'[l].status = to
    BY <2>1, <2>2, OtherRow DEF Row
  <2>4. QED
    BY <2>1, <2>2, <2>3 DEF MovesOn
<1>3. ASSUME NEW k \in 1 .. MaxLobbies, ClockRunsOut(k) PROVE FALSE
  <2>1. k \in Lobbies /\ lobby' = [lobby EXCEPT ![k] = [lobby[k] EXCEPT !.due = TRUE]]
    BY <1>3 DEF ClockRunsOut
  <2>2. lobby[k] \in Row /\ l = k
    BY <2>1, LobbiesAre, OtherRow DEF QueueInv
  <2>3. lobby'[l].status = lobby[l].status
    BY <2>1, <2>2, OtherRow DEF Row
  <2>4. QED
    BY <2>3
<1>4. ASSUME NEW x \in Proc, Answers(x) \/ Resolves(x) \/ Moderates(x) PROVE FALSE
  BY <1>4 DEF Answers, Resolves, Moderates, AcceptReads, DeclineReads, ResolverReads, CancelReads, BanReads
<1>5. ASSUME NEW x \in Proc, AcceptClaims(x) \/ AcceptCounts(x) \/ FailRereads(x) \/ BanCommits(x)
      PROVE  FALSE
  BY <1>5 DEF AcceptClaims, AcceptCounts, FailRereads, BanCommits
<1>6. ASSUME NEW x \in Proc, FailClaims(x) PROVE FALSE
  <2> DEFINE k == tx[x].lobby
  <2>1. /\ lobby' = [lobby EXCEPT ![k] = [lobby[k] EXCEPT !.lock = x]] /\ tx[x].pc = "fail"
    BY <1>6 DEF FailClaims
  <2>2. k \in Lobbies /\ lobby[k] \in Row
    BY <2>1, AboutAGame
  <2>3. lobby'[l].status = lobby[l].status
    BY <2>1, <2>2, OtherRow DEF Row
  <2>4. QED
    BY <2>3
<1>7. ASSUME NEW x \in Proc, AcceptCommits(x) PROVE FALSE
  <2>1. /\ lobby' = [lobby EXCEPT ![tx[x].lobby] = Accepted(x)] /\ tx[x].pc \in Counted
    BY <1>7 DEF AcceptCommits, Counted
  <2>2. tx[x].lobby \in Lobbies /\ Accepted(x).status = lobby[tx[x].lobby].status
    BY <2>1, AcceptedIs
  <2>3. QED
    BY <2>1, <2>2, OtherRow
<1>8. ASSUME NEW x \in Proc, AcceptFlips(x) PROVE StartsVote(l)
  <2> DEFINE k == tx[x].lobby
  <2>1. /\ lobby' = [lobby EXCEPT ![k] = Flipped(Accepted(x))]
        /\ tx[x].pc \in Counted /\ tx[x].pc = "flip"
    BY <1>8 DEF AcceptFlips, Counted
  <2>2. /\ k \in Lobbies /\ Accepted(x) \in Row /\ Accepted(x).status = lobby[k].status
        /\ lobby[k].accepted \subseteq Accepted(x).accepted /\ Accepted(x).accepted \subseteq Roster(k)
        /\ tx[x].player \in Accepted(x).accepted
    BY <2>1, AcceptedIs
  <2>3. l = k /\ lobby'[l] = Flipped(Accepted(x))
    BY <2>1, <2>2, OtherRow
  <2>4. lobby[l].status = "READY_CHECK" /\ lobby'[l].status = "CAPTAIN_VOTE"
    BY <2>2, <2>3, FlippedIs
  <2>5. lobby'[l].accepted = Accepted(x).accepted
    BY <2>2, <2>3, FlippedIs
  <2>6. Roster(l) \subseteq Accepted(x).accepted
    BY <2>1, <2>2, <2>3 DEF QueueInv, Fits, Pending
  <2>7. QED
    BY <2>2, <2>3, <2>4, <2>5, <2>6 DEF StartsVote
<1>9. ASSUME NEW x \in Proc, ResolverFlips(x) PROVE StartsVote(l)
  <2> DEFINE k == tx[x].lobby
  <2>1. lobby' = [lobby EXCEPT ![k] = Flipped(lobby[k])] /\ tx[x].pc = "vote"
    BY <1>9 DEF ResolverFlips
  <2>2. k \in Lobbies /\ lobby[k] \in Row /\ Pending(k) = {} /\ lobby[k].accepted \subseteq Roster(k)
    BY <2>1, AboutAGame DEF Fits
  <2>3. l = k /\ lobby'[l] = Flipped(lobby[l])
    BY <2>1, <2>2, OtherRow, FlippedIs
  <2>4. /\ lobby[l].status = "READY_CHECK" /\ lobby'[l].status = "CAPTAIN_VOTE"
        /\ lobby'[l].accepted = lobby[l].accepted
    BY <2>2, <2>3, FlippedIs
  <2>5. QED
    BY <2>2, <2>3, <2>4 DEF StartsVote, Pending
<1>10. ASSUME NEW x \in Proc, FailCommits(x) PROVE Fails(l)
  <2>1. /\ tx[x].pc = "requeue"
        /\ lobby' = [lobby EXCEPT ![tx[x].lobby] = [@ EXCEPT !.status = "CANCELLED", !.lock = None, !.due = FALSE]]
    BY <1>10 DEF FailCommits
  <2>2. tx[x].lobby \in Lobbies
    BY <2>1, AboutAGame
  <2>3. l = tx[x].lobby
    BY <2>1, <2>2, OtherRow
  <2>4. QED
    BY <1>10, <2>3 DEF Fails
<1>11. QED
  BY <1>1, <1>2, <1>3, <1>4, <1>5, <1>6, <1>7, <1>8, <1>9, <1>10 DEF Next, Plays, Proceeds

\* The failing check closes a game that was open, and puts each who goes back at
\* their place.
LEMMA FailsIs ==
  ASSUME QueueAssumption, QueueInv, NEW x \in Proc, FailCommits(x)
  PROVE  LET l == tx[x].lobby IN
         /\ l \in Live /\ lobby[l].lock = x /\ lobby'[l].status = "CANCELLED"
         /\ lobby'[l].accepted = lobby[l].accepted
         /\ tx[x].op \in {"decline", "resolve", "cancel"}
         /\ tx[x].back \subseteq Roster(l) \ banned /\ Roster(l) \subseteq Player
         /\ queue' = [p \in Player |-> IF p \in tx[x].back THEN Place(x, p) ELSE Waiting[p]]
<1> DEFINE l == tx[x].lobby
           row == [lobby[l] EXCEPT !.status = "CANCELLED", !.lock = None, !.due = FALSE]
<1>1. /\ tx[x].pc = "requeue" /\ lobby' = [lobby EXCEPT ![l] = row]
      /\ queue' = [p \in Player |-> IF p \in tx[x].back THEN Place(x, p) ELSE Waiting[p]]
  BY DEF FailCommits
<1>2. /\ l \in Lobbies /\ lobby[l] \in Row /\ lobby[l].lock = x /\ x # None
      /\ tx[x].op \in {"decline", "resolve", "cancel"}
      /\ tx[x].back \subseteq Roster(l) \ banned /\ Roster(l) \subseteq Player
  BY <1>1, AboutAGame, NoneApart DEF Fits, Held, Failing
<1>3. lobby[l].status \in Cancellable(tx[x].op)
  BY <1>2 DEF QueueInv, LocksAreHeld
<1>4. l \in Live
  BY <1>2, <1>3 DEF Live, Cancellable, Active
<1>5. lobby'[l] = row
  BY <1>1, <1>2, OtherRow
<1>6. row.status = "CANCELLED" /\ row.accepted = lobby[l].accepted
  BY <1>2 DEF Row
<1>7. QED
  BY <1>1, <1>2, <1>4, <1>5, <1>6

LEMMA ClosedIsClosed ==
  ASSUME QueueAssumption, QueueInv, Next
  PROVE  ClosedStaysClosed
<1>1. SUFFICES ASSUME NEW l \in Lobbies, lobby[l].status \in Terminal, lobby'[l].status # lobby[l].status
               PROVE  FALSE
  BY DEF ClosedStaysClosed
<1>2. CASE StartsVote(l) \/ MovesOn(l)
  BY <1>1, <1>2 DEF StartsVote, MovesOn, Terminal
<1>3. ASSUME NEW x \in Proc, FailCommits(x), tx[x].lobby = l PROVE FALSE
  <2>1. l \in Live
    BY <1>3, FailsIs
  <2>2. QED
    BY <1>1, <2>1 DEF Live, Active, Terminal
<1>4. QED
  BY <1>1, <1>2, <1>3, StatusMoves DEF Fails

LEMMA StartsComplete ==
  ASSUME QueueAssumption, QueueInv, Next
  PROVE  GoesOnComplete
<1>1. SUFFICES ASSUME NEW l \in Lobbies, lobby[l].status = "READY_CHECK",
                      lobby'[l].status \in Active \ {"READY_CHECK"}
               PROVE  Roster(l) \subseteq lobby'[l].accepted
  BY DEF GoesOnComplete
<1>2. CASE StartsVote(l)
  BY <1>2 DEF StartsVote
<1>3. CASE MovesOn(l)
  BY <1>1, <1>3 DEF MovesOn
<1>4. ASSUME NEW x \in Proc, FailCommits(x), tx[x].lobby = l PROVE FALSE
  <2>1. lobby'[l].status = "CANCELLED"
    BY <1>4, FailsIs
  <2>2. QED
    BY <1>1, <2>1 DEF Active
<1>5. QED
  BY <1>1, <1>2, <1>3, <1>4, StatusMoves DEF Fails

\* However requests and pollers cross, no claim on a lobby's status (an accept's
\* or the resolver's startCaptainVote, failReadyCheck, cancelLobby, a result)
\* brings a closed game back, and startCaptainVote never meets a ready check one
\* of whose players has not accepted.
THEOREM GamesGoOnComplete ==
  ASSUME QueueAssumption, IsFiniteSet(Player)
  PROVE  Spec => [][ClosedStaysClosed /\ GoesOnComplete]_vars
<1>1. QueueInv /\ [Next]_vars => [ClosedStaysClosed /\ GoesOnComplete]_vars
  BY ClosedIsClosed, StartsComplete
<1>2. QED
  BY <1>1, QueueInvariant, PTL DEF Spec

-----------------------------------------------------------------------------
(* Who a failing check puts back, whatever accepts fall inside it *)

\* A failing check is about to put back all it read to keep their place.
PutsBack(x) == LET l == tx[x].lobby  t == tx[x] IN
  t.pc = "requeue" =>
    /\ t.op = "decline" => Roster(l) \ ({t.player} \cup banned) \subseteq t.back
    /\ t.op = "resolve" => t.fresh \ banned \subseteq t.back

\* A request that begins changes nothing but itself.
LEMMA BeginsAlone ==
  ASSUME QueueInv, NEW y \in Proc, Answers(y) \/ Resolves(y) \/ Moderates(y)
  PROVE  /\ tx[y].pc = "idle" /\ UNCHANGED <<lobby, banned>>
         /\ \A x \in Proc : x # y => tx'[x] = tx[x]
<1>1. tx \in [Proc -> Request]
  BY DEF QueueInv, Typed
<1>2. ASSUME NEW p \in Player, NEW l \in 1 .. MaxLobbies, AcceptReads(y, p, l) \/ DeclineReads(y, p, l)
      PROVE  tx[y].pc = "idle" /\ UNCHANGED <<lobby, banned>> /\ \A x \in Proc : x # y => tx'[x] = tx[x]
  BY <1>1, <1>2 DEF AcceptReads, DeclineReads, Begins
<1>3. ASSUME NEW l \in 1 .. MaxLobbies, ResolverReads(y, l) \/ CancelReads(y, l)
      PROVE  tx[y].pc = "idle" /\ UNCHANGED <<lobby, banned>> /\ \A x \in Proc : x # y => tx'[x] = tx[x]
  BY <1>1, <1>3 DEF ResolverReads, CancelReads, Begins
<1>4. ASSUME NEW p \in Player, BanReads(y, p)
      PROVE  tx[y].pc = "idle" /\ UNCHANGED <<lobby, banned>> /\ \A x \in Proc : x # y => tx'[x] = tx[x]
  BY <1>1, <1>4 DEF BanReads
<1>5. QED
  BY <1>2, <1>3, <1>4 DEF Answers, Resolves, Moderates

\* A request that is about to put players back has just read them, or stood still.
LEMMA ReadsOrWaits ==
  ASSUME QueueInv, Next, NEW x \in Proc, tx'[x].pc = "requeue"
  PROVE  FailRereads(x) \/ tx'[x] = tx[x]
<1>1. tx \in [Proc -> Request]
  BY DEF QueueInv, Typed
<1>2. CASE Queues \/ Plays \/ \E l \in 1 .. MaxLobbies : ClockRunsOut(l)
  BY <1>2 DEF Queues, Join, Leave, Heartbeat, GoesAway, QueueIdles, Form, Expires, Plays, TeamsLock,
     GameOver, ResultIn, Abandoned, Moves, ClockRunsOut
<1>3. ASSUME NEW y \in Proc, NEW t, tx' = [tx EXCEPT ![y] = t], y = x => t.pc # "requeue"
      PROVE  tx'[x] = tx[x]
  BY <1>1, <1>3
<1>4. ASSUME NEW y \in Proc, Ends(y) PROVE tx'[x] = tx[x]
  BY <1>3, <1>4 DEF Ends, NoTx
<1>5. ASSUME NEW y \in Proc, NEW op, NEW pc, NEW p, NEW l, Begins(y, op, pc, p, l), pc # "requeue"
      PROVE  tx'[x] = tx[x]
  BY <1>3, <1>5 DEF Begins, NoTx
<1>6. ASSUME NEW y \in Proc, Answers(y) \/ Resolves(y) \/ Moderates(y) PROVE tx'[x] = tx[x]
  <2>1. ASSUME NEW p \in Player, NEW l \in 1 .. MaxLobbies, AcceptReads(y, p, l) \/ DeclineReads(y, p, l)
        PROVE  tx'[x] = tx[x]
    BY <1>5, <2>1 DEF AcceptReads, DeclineReads
  <2>2. ASSUME NEW l \in 1 .. MaxLobbies, ResolverReads(y, l) PROVE tx'[x] = tx[x]
    <3>1. Verdict(l) # "requeue" /\ Begins(y, "resolve", Verdict(l), None, l)
      BY <2>2 DEF ResolverReads, Verdict
    <3>2. QED
      BY <1>5, <3>1
  <2>3. ASSUME NEW l \in 1 .. MaxLobbies, CancelReads(y, l) PROVE tx'[x] = tx[x]
    BY <1>5, <2>3 DEF CancelReads
  <2>4. ASSUME NEW p \in Player, BanReads(y, p) PROVE tx'[x] = tx[x]
    BY <1>3, <2>4 DEF BanReads, NoTx
  <2>5. QED
    BY <1>6, <2>1, <2>2, <2>3, <2>4 DEF Answers, Resolves, Moderates
<1>7. ASSUME NEW y \in Proc, AcceptClaims(y) \/ AcceptCounts(y) PROVE tx'[x] = tx[x]
  <2>1. CASE Ends(y)
    BY <1>4, <2>1
  <2>2. CASE ~Ends(y)
    <3>1. PICK t : tx' = [tx EXCEPT ![y] = t] /\ t.pc \in Counted
      <4>1. CASE AcceptClaims(y)
        <5> DEFINE t == [tx[y] EXCEPT !.pc = "count", !.wrote = tx[y].player \notin lobby[tx[y].lobby].accepted]
        <5>1. tx' = [tx EXCEPT ![y] = t]
          BY <2>2, <4>1 DEF AcceptClaims
        <5>2. t.pc = "count"
          BY <1>1 DEF Request
        <5>3. QED
          BY <5>1, <5>2 DEF Counted
      <4>2. CASE AcceptCounts(y)
        <5> DEFINE pc == IF Pending(tx[y].lobby) \subseteq {tx[y].player} THEN "flip" ELSE "commit"
                   t == [tx[y] EXCEPT !.pc = pc]
        <5>1. tx' = [tx EXCEPT ![y] = t]
          BY <4>2 DEF AcceptCounts
        <5>2. t.pc = pc /\ pc \in Counted
          BY <1>1 DEF Request, Counted
        <5>3. QED
          BY <5>1, <5>2
      <4>3. QED
        BY <1>7, <4>1, <4>2
    <3>2. t.pc # "requeue"
      BY <3>1 DEF Counted
    <3>3. QED
      BY <1>3, <3>1, <3>2
  <2>3. QED
    BY <2>1, <2>2
<1>8. ASSUME NEW y \in Proc, FailClaims(y) PROVE tx'[x] = tx[x]
  <2>1. CASE Ends(y)
    BY <1>4, <2>1
  <2>2. CASE ~Ends(y)
    <3>1. tx' = [tx EXCEPT ![y] = [tx[y] EXCEPT !.pc = "held"]]
      BY <1>8, <2>2 DEF FailClaims
    <3>2. [tx[y] EXCEPT !.pc = "held"].pc = "held"
      BY <1>1 DEF Request
    <3>3. QED
      BY <1>3, <3>1, <3>2
  <2>3. QED
    BY <2>1, <2>2
<1>9. ASSUME NEW y \in Proc, FailRereads(y) PROVE y = x \/ tx'[x] = tx[x]
  BY <1>1, <1>9 DEF FailRereads
<1>10. ASSUME NEW y \in Proc, Proceeds(y) PROVE FailRereads(x) \/ tx'[x] = tx[x]
  BY <1>4, <1>7, <1>8, <1>9, <1>10 DEF Proceeds, AcceptCommits, AcceptFlips, ResolverFlips, FailCommits, BanCommits
<1>11. QED
  BY <1>2, <1>6, <1>10 DEF Next

\* A game's players stay its players, at the places they had.
LEMMA PlacesStay ==
  ASSUME QueueAssumption, QueueInv, Next, NEW m \in Lobbies
  PROVE  lobby'[m].at = lobby[m].at
<1>1. ASSUME NEW k \in Lobbies, NEW row, lobby' = [lobby EXCEPT ![k] = row], row.at = lobby[k].at
      PROVE  lobby'[m].at = lobby[m].at
  BY <1>1, OtherRow
<1>2. ASSUME NEW k \in Lobbies PROVE lobby[k] \in Row
  BY LobbiesAre DEF QueueInv
<1>3. CASE Queues
  <2>1. CASE Form
    BY <2>1, FormAdds
  <2>2. CASE ~Form
    BY <1>3, <2>2 DEF Queues, Join, Leave, Heartbeat, GoesAway, QueueIdles, Expires
  <2>3. QED
    BY <2>1, <2>2
<1>4. CASE Plays
  <2>1. PICK k, to : k \in Lobbies /\ lobby' = [lobby EXCEPT ![k] = [lobby[k] EXCEPT !.status = to]]
    BY <1>4 DEF Plays, TeamsLock, GameOver, ResultIn, Abandoned, Moves
  <2>2. [lobby[k] EXCEPT !.status = to].at = lobby[k].at
    BY <1>2, <2>1 DEF Row
  <2>3. QED
    BY <1>1, <2>1, <2>2
<1>5. ASSUME NEW k \in 1 .. MaxLobbies, ClockRunsOut(k) PROVE lobby'[m].at = lobby[m].at
  <2>1. k \in Lobbies /\ lobby' = [lobby EXCEPT ![k] = [lobby[k] EXCEPT !.due = TRUE]]
    BY <1>5 DEF ClockRunsOut
  <2>2. [lobby[k] EXCEPT !.due = TRUE].at = lobby[k].at
    BY <1>2, <2>1 DEF Row
  <2>3. QED
    BY <1>1, <2>1, <2>2
<1>6. ASSUME NEW x \in Proc, Answers(x) \/ Resolves(x) \/ Moderates(x) PROVE lobby' = lobby
  BY <1>6, BeginsAlone
<1>7. ASSUME NEW x \in Proc, AcceptClaims(x) \/ AcceptCounts(x) \/ FailRereads(x) \/ BanCommits(x)
      PROVE  lobby' = lobby
  BY <1>7 DEF AcceptClaims, AcceptCounts, FailRereads, BanCommits
<1>8. ASSUME NEW x \in Proc, AcceptCommits(x) \/ AcceptFlips(x) PROVE lobby'[m].at = lobby[m].at
  <2>1. tx[x].pc \in Counted
    BY <1>8 DEF AcceptCommits, AcceptFlips, Counted
  <2>2. /\ tx[x].lobby \in Lobbies /\ Accepted(x) \in Row /\ Accepted(x).at = lobby[tx[x].lobby].at
        /\ Flipped(Accepted(x)).at = Accepted(x).at
    BY <2>1, AcceptedIs, FlippedIs
  <2>3. CASE AcceptCommits(x)
    BY <1>1, <2>2, <2>3 DEF AcceptCommits
  <2>4. CASE AcceptFlips(x)
    BY <1>1, <2>2, <2>4 DEF AcceptFlips
  <2>5. QED
    BY <1>8, <2>3, <2>4
<1>9. ASSUME NEW x \in Proc, ResolverFlips(x) PROVE lobby'[m].at = lobby[m].at
  <2>1. tx[x].pc = "vote" /\ lobby' = [lobby EXCEPT ![tx[x].lobby] = Flipped(lobby[tx[x].lobby])]
    BY <1>9 DEF ResolverFlips
  <2>2. tx[x].lobby \in Lobbies /\ Flipped(lobby[tx[x].lobby]).at = lobby[tx[x].lobby].at
    BY <2>1, AboutAGame, FlippedIs
  <2>3. QED
    BY <1>1, <2>1, <2>2
<1>10. ASSUME NEW x \in Proc, FailClaims(x) PROVE lobby'[m].at = lobby[m].at
  <2> DEFINE k == tx[x].lobby
  <2>1. tx[x].pc = "fail" /\ (lobby' = lobby \/ lobby' = [lobby EXCEPT ![k] = [lobby[k] EXCEPT !.lock = x]])
    BY <1>10 DEF FailClaims
  <2>2. k \in Lobbies /\ [lobby[k] EXCEPT !.lock = x].at = lobby[k].at
    BY <2>1, AboutAGame DEF Row
  <2>3. QED
    BY <1>1, <2>1, <2>2
<1>11. ASSUME NEW x \in Proc, FailCommits(x) PROVE lobby'[m].at = lobby[m].at
  <2> DEFINE k == tx[x].lobby
             row == [lobby[k] EXCEPT !.status = "CANCELLED", !.lock = None, !.due = FALSE]
  <2>1. tx[x].pc = "requeue" /\ lobby' = [lobby EXCEPT ![k] = row]
    BY <1>11 DEF FailCommits
  <2>2. k \in Lobbies /\ row.at = lobby[k].at
    BY <2>1, AboutAGame DEF Row
  <2>3. QED
    BY <1>1, <2>1, <2>2
<1>12. QED
  BY <1>3, <1>4, <1>5, <1>6, <1>7, <1>8, <1>9, <1>10, <1>11 DEF Next, Proceeds

\* Bans only grow.
LEMMA BansStay == ASSUME QueueInv, Next PROVE banned \subseteq banned'
<1>1. CASE Queues \/ Plays \/ \E l \in 1 .. MaxLobbies : ClockRunsOut(l)
  BY <1>1 DEF Queues, Join, Leave, Heartbeat, GoesAway, QueueIdles, Form, Expires, Plays, TeamsLock,
     GameOver, ResultIn, Abandoned, Moves, ClockRunsOut
<1>2. ASSUME NEW x \in Proc, Answers(x) \/ Resolves(x) \/ Moderates(x) PROVE banned' = banned
  BY <1>2, BeginsAlone
<1>3. ASSUME NEW x \in Proc, Proceeds(x) PROVE banned \subseteq banned'
  BY <1>3 DEF Proceeds, AcceptClaims, AcceptCounts, AcceptCommits, AcceptFlips, ResolverFlips, FailClaims,
     FailRereads, FailCommits, BanCommits
<1>4. QED
  BY <1>1, <1>2, <1>3 DEF Next

\* What the re-read of a failing check is.
LEMMA RereadIs ==
  ASSUME QueueInv, NEW x \in Proc, FailRereads(x)
  PROVE  /\ tx[x].pc = "held" /\ UNCHANGED <<lobby, banned, told>>
         /\ tx'[x].op = tx[x].op /\ tx'[x].player = tx[x].player /\ tx'[x].lobby = tx[x].lobby
         /\ tx'[x].back = GoBack(x)
         /\ tx[x].op # "cancel" => tx'[x].fresh = lobby[tx[x].lobby].accepted
<1> DEFINE fresh == IF tx[x].op = "cancel" THEN {} ELSE lobby[tx[x].lobby].accepted
<1>1. /\ tx \in [Proc -> Request] /\ tx[x].pc = "held" /\ UNCHANGED <<lobby, banned, told>>
      /\ tx' = [tx EXCEPT ![x] = [@ EXCEPT !.pc = "requeue", !.back = GoBack(x), !.fresh = fresh]]
  BY DEF FailRereads, QueueInv, Typed
<1>2. QED
  BY <1>1 DEF Request

LEMMA NextPutsBack ==
  ASSUME QueueAssumption, QueueInv, Next, NEW x \in Proc, PutsBack(x)
  PROVE  PutsBack(x)'
<1>1. SUFFICES ASSUME tx'[x].pc = "requeue" PROVE PutsBack(x)'
  BY DEF PutsBack
<1>2. CASE FailRereads(x)
  BY <1>2, RereadIs DEF PutsBack, GoBack, Roster
<1>3. CASE tx'[x] = tx[x]
  <2>1. lobby'[tx[x].lobby].at = lobby[tx[x].lobby].at
    BY <1>1, <1>3, AboutAGame, PlacesStay
  <2>2. QED
    BY <1>1, <1>3, <2>1, BansStay DEF PutsBack, Roster
<1>4. QED
  BY <1>1, <1>2, <1>3, ReadsOrWaits

\* A request that is about to put players back does so next, and nothing else.
LEMMA CommitsOrWaits ==
  ASSUME QueueInv, Next, NEW x \in Proc, tx[x].pc = "requeue", tx'[x].pc # "requeue"
  PROVE  FailCommits(x)
<1>1. tx \in [Proc -> Request]
  BY DEF QueueInv, Typed
<1>2. ~(Queues \/ Plays \/ \E l \in 1 .. MaxLobbies : ClockRunsOut(l))
  BY DEF Queues, Join, Leave, Heartbeat, GoesAway, QueueIdles, Form, Expires, Plays, TeamsLock,
     GameOver, ResultIn, Abandoned, Moves, ClockRunsOut
<1>3. PICK y \in Proc : Answers(y) \/ Resolves(y) \/ Moderates(y) \/ Proceeds(y)
  BY <1>2 DEF Next
<1>4. y = x
  <2>1. SUFFICES ASSUME y # x PROVE tx'[x] = tx[x]
    OBVIOUS
  <2>2. CASE Answers(y) \/ Resolves(y) \/ Moderates(y)
    BY <2>1, <2>2, BeginsAlone
  <2>3. CASE Proceeds(y)
    BY <1>1, <2>1, <2>3 DEF Proceeds, AcceptClaims, AcceptCounts, AcceptCommits, AcceptFlips,
       ResolverFlips, FailClaims, FailRereads, FailCommits, BanCommits, Ends
  <2>4. QED
    BY <1>3, <2>2, <2>3
<1>5. ~(Answers(x) \/ Resolves(x) \/ Moderates(x))
  BY BeginsAlone
<1>6. QED
  BY <1>3, <1>4, <1>5 DEF Proceeds, AcceptClaims, AcceptCounts, AcceptCommits, AcceptFlips,
     ResolverFlips, FailClaims, FailRereads, BanCommits

LEMMA InTimeIsKept ==
  ASSUME QueueAssumption, QueueInv, \A x \in Proc : PutsBack(x), Next
  PROVE  AnsweredInTimeIsKept
<1>1. ASSUME NEW x \in Proc, tx[x].pc = "held", tx'[x].pc = "requeue", tx[x].op # "cancel",
             NEW p \in Player, <<tx[x].lobby, p>> \in told
      PROVE  p \in tx'[x].fresh
  <2>1. FailRereads(x)
    BY <1>1, ReadsOrWaits
  <2>2. tx[x].lobby \in 1 .. MaxLobbies
    BY <1>1, AboutAGame, LobbiesAre DEF QueueInv, Typed, QueueAssumption
  <2>3. QED
    BY <1>1, <2>1, <2>2, RereadIs DEF QueueInv, AcceptedAreIn
<1>2. ASSUME NEW x \in Proc, tx[x].pc = "requeue", tx'[x].pc # "requeue",
             NEW p \in Roster(tx[x].lobby) \ banned,
             (tx[x].op = "decline" /\ p # tx[x].player) \/ (tx[x].op = "resolve" /\ p \in tx[x].fresh)
      PROVE  queue'[p] = lobby[tx[x].lobby].at[p]
  <2>1. FailCommits(x)
    BY <1>2, CommitsOrWaits
  <2>2. p \in tx[x].back /\ p \in Player
    BY <1>2 DEF PutsBack, Roster
  <2>3. queue'[p] = Place(x, p)
    BY <2>1, <2>2 DEF FailCommits
  <2>4. Place(x, p) = lobby[tx[x].lobby].at[p]
    BY <1>2 DEF Place
  <2>5. QED
    BY <2>3, <2>4
<1>3. QED
  BY <1>1, <1>2 DEF AnsweredInTimeIsKept

\* Whatever crosses failReadyCheck, an accept inside its transaction too: a decline
\* costs nobody but the decliner their place, and the clock none of those whose accept
\* was answered when the transaction read again who accepted.
THEOREM AnswersInTimeAreKept ==
  ASSUME QueueAssumption, IsFiniteSet(Player) PROVE Spec => [][AnsweredInTimeIsKept]_vars
<1> DEFINE Inv == \A x \in Proc : PutsBack(x)
<1>1. Init => Inv
  BY DEF Init, PutsBack, NoTx
<1>2. QueueInv /\ Inv /\ [Next]_vars => Inv'
  <2>1. SUFFICES ASSUME Inv, UNCHANGED vars PROVE Inv'
    BY NextPutsBack
  <2>2. QED
    BY <2>1 DEF vars, PutsBack, Roster
<1>3. QueueInv /\ Inv /\ [Next]_vars => [AnsweredInTimeIsKept]_vars
  BY InTimeIsKept
<1>4. QED
  BY <1>1, <1>2, <1>3, QueueInvariant, PTL DEF Spec

-----------------------------------------------------------------------------
(* The queue the players see.                                              *)

\* The games as the players see them, and a game by its status.
Stage == [l \in Lobbies |-> StageOf(l)]
Yes   == [l \in Lobbies |-> lobby[l].accepted]
Shown(status) == IF status = "READY_CHECK" THEN "asked" ELSE IF status \in Active THEN "on" ELSE "closed"

LEMMA ShownIs == \A l \in Lobbies : StageOf(l) = Shown(lobby[l].status)
BY DEF StageOf, Shown, Active

LEMMA YesIs == Yes = [l \in Lobbies |-> Yes[l]] /\ \A l \in Lobbies : Yes[l] = lobby[l].accepted
BY DEF Yes

\* What happens in a game there is.
LEMMA InAGame ==
  ASSUME NEW n \in Lobbies
  PROVE  /\ Abstract!Starts(n) \/ Abstract!Closes(n) => Abstract!Next
         /\ \A p \in Player : Abstract!SaysYes(n, p) => Abstract!Next
<1>1. DOMAIN [l \in Lobbies |-> StageOf(l)] = Lobbies
  OBVIOUS
<1>2. QED
  BY <1>1 DEF Abstract!Next

\* Who is in a live game is there, anyone else in the queue or out.
Placed == \A p \in Player :
  /\ \A l \in Live : p \in Roster(l) => Whereabouts[p] = l
  /\ (\A l \in Live : p \notin Roster(l)) => Whereabouts[p] = IF queue[p] > 0 THEN 0 ELSE -1

LEMMA WhereIs == ASSUME QueueAssumption PROVE QueueInv => Placed
<1>1. SUFFICES ASSUME QueueInv, NEW p \in Player
               PROVE  /\ \A l \in Live : p \in Roster(l) => Whereabouts[p] = l
                      /\ (\A l \in Live : p \notin Roster(l)) => Whereabouts[p] = IF queue[p] > 0 THEN 0 ELSE -1
  BY DEF Placed
<1>2. ASSUME NEW l \in Live, p \in Roster(l) PROVE Whereabouts[p] = l
  <2>1. LobbyOf(p) = {l}
    BY <1>1, <1>2 DEF QueueInv, InOneGame, LobbyOf
  <2>2. l \in Nat
    BY <1>1, LobbiesAre DEF QueueInv, Live
  <2>3. Min({l}) \in {l}
    <3>1. {l} \in SUBSET Nat /\ {l} # {}
      BY <2>2
    <3>2. QED
      BY <3>1, MinIs
  <2>4. QED
    BY <2>1, <2>3 DEF Whereabouts
<1>3. ASSUME \A l \in Live : p \notin Roster(l)
      PROVE  Whereabouts[p] = IF queue[p] > 0 THEN 0 ELSE -1
  BY <1>3 DEF Whereabouts, LobbyOf
<1>4. QED
  BY <1>2, <1>3

\* Whereabouts is a function of the players.
LEMMA WhereTyped ==
  Whereabouts = [p \in Player |-> Whereabouts[p]] /\ Whereabouts' = [p \in Player |-> Whereabouts'[p]]
BY DEF Whereabouts

\* The game a player sees is the one they are in, and its members its ten.
LEMMA SeenAs ==
  ASSUME QueueAssumption, QueueInv
  PROVE  /\ Abstract!InQueue = Queued /\ Abstract!Running = Live
         /\ \A l \in Live : Abstract!Members(l) = Roster(l)
         /\ \A p \in Player : LobbyOf(p) = {} => Whereabouts[p] \notin Lobbies
         /\ DOMAIN Stage = Lobbies /\ DOMAIN Yes = Lobbies
         /\ \A l \in Lobbies : /\ Stage[l] = StageOf(l) /\ Yes[l] = lobby[l].accepted
                               /\ Stage[l] = "closed" <=> l \notin Live
                               /\ Stage[l] = "asked" <=> lobby[l].status = "READY_CHECK"
<1>1. Placed /\ Lobbies = 1 .. Len(lobby) /\ Len(lobby) \in Nat /\ Live \subseteq Lobbies
  BY WhereIs, LobbiesAre DEF QueueInv, Live
<1>2. /\ DOMAIN Stage = Lobbies /\ DOMAIN Yes = Lobbies
      /\ \A l \in Lobbies : Stage[l] = StageOf(l) /\ Yes[l] = lobby[l].accepted
  BY DEF Stage, Yes
<1>3. \A l \in Lobbies : /\ StageOf(l) = "closed" <=> l \notin Live
                         /\ StageOf(l) = "asked" <=> lobby[l].status = "READY_CHECK"
  BY DEF StageOf, Live, Active
<1>4. Abstract!Running = Live
  BY <1>1, <1>2, <1>3 DEF Abstract!Running, Stage
<1>5. ASSUME NEW p \in Player, NEW l \in Live PROVE Whereabouts[p] = l <=> p \in Roster(l)
  BY <1>1 DEF Placed
<1>6. \A l \in Live : Abstract!Members(l) = Roster(l)
  BY <1>5 DEF Abstract!Members, Roster
<1>7. ASSUME NEW p \in Player PROVE Whereabouts[p] = 0 <=> queue[p] > 0
  <2>1. CASE \E l \in Live : p \in Roster(l)
    <3>1. PICK l \in Live : p \in Roster(l)
      BY <2>1
    <3>2. Whereabouts[p] = l /\ l # 0
      BY <1>1, <3>1 DEF Placed
    <3>3. queue[p] = 0
      BY <3>1 DEF QueueInv, InOneGame
    <3>4. QED
      BY <3>2, <3>3
  <2>2. CASE \A l \in Live : p \notin Roster(l)
    BY <1>1, <2>2 DEF Placed
  <2>3. QED
    BY <2>1, <2>2
<1>8. Abstract!InQueue = Queued
  BY <1>7 DEF Abstract!InQueue, Abstract!InLine, Queued
<1>9. ASSUME NEW p \in Player, LobbyOf(p) = {} PROVE Whereabouts[p] \notin Lobbies
  <2>1. Whereabouts[p] = IF queue[p] > 0 THEN 0 ELSE -1
    BY <1>1, <1>9 DEF Placed, LobbyOf
  <2>2. QED
    BY <1>1, <2>1
<1>10. QED
  BY <1>2, <1>3, <1>4, <1>6, <1>8, <1>9

\* What the queue is to those in no live game.
LEMMA QueueSeen ==
  ASSUME QueueAssumption, QueueInv, QueueInv', UNCHANGED lobby
  PROVE  /\ Stage' = Stage /\ Yes' = Yes
         /\ \A p \in Player : /\ LobbyOf(p) # {} => Whereabouts'[p] = Whereabouts[p] /\ queue[p] = 0
                              /\ LobbyOf(p) = {} => /\ Whereabouts[p] = IF queue[p] > 0 THEN 0 ELSE -1
                                                    /\ Whereabouts'[p] = IF queue'[p] > 0 THEN 0 ELSE -1
<1>1. Placed
  BY WhereIs
<1>2. Placed'
  BY WhereIs, PTL
<1>3. Live' = Live /\ \A l \in Live : Roster(l)' = Roster(l)
  BY DEF Live, Lobbies, Roster
<1>4. Stage' = Stage /\ Yes' = Yes
  BY DEF Stage, Yes, StageOf, Lobbies
<1>5. ASSUME NEW p \in Player, LobbyOf(p) # {}
      PROVE  Whereabouts'[p] = Whereabouts[p] /\ queue[p] = 0
  <2>1. PICK l \in Live : p \in Roster(l)
    BY <1>5 DEF LobbyOf
  <2>2. queue[p] = 0
    BY <2>1 DEF QueueInv, InOneGame
  <2>3. Whereabouts[p] = l /\ Whereabouts'[p] = l
    BY <1>1, <1>2, <1>3, <2>1 DEF Placed
  <2>4. QED
    BY <2>2, <2>3
<1>6. ASSUME NEW p \in Player, LobbyOf(p) = {}
      PROVE  /\ Whereabouts[p] = IF queue[p] > 0 THEN 0 ELSE -1
             /\ Whereabouts'[p] = IF queue'[p] > 0 THEN 0 ELSE -1
  <2>1. \A l \in Live : p \notin Roster(l)
    BY <1>6 DEF LobbyOf
  <2>2. QED
    BY <1>1, <1>2, <1>3, <2>1 DEF Placed
<1>7. QED
  BY <1>4, <1>5, <1>6

\* Some of the queue go: nobody else's place changes.
LEMMA SomeExit ==
  ASSUME QueueAssumption, QueueInv, QueueInv', UNCHANGED lobby,
         NEW ps \in SUBSET Queued, \A p \in ps : queue'[p] = 0,
         \A p \in Player \ ps : queue'[p] = queue[p]
  PROVE  Abstract!Exit(ps)
<1>1. ps \subseteq Abstract!InQueue
  BY SeenAs
<1>2. ASSUME NEW p \in Player
      PROVE  Whereabouts'[p] = IF p \in ps THEN -1 ELSE Whereabouts[p]
  BY QueueSeen DEF Queued
<1>3. Whereabouts' = Abstract!Move(ps, {})
  <2>1. Whereabouts' = [p \in Player |-> IF p \in ps THEN -1 ELSE Whereabouts[p]]
    BY <1>2, WhereTyped
  <2>2. QED
    BY <2>1 DEF Abstract!Move, Abstract!Out
<1>4. Stage' = Stage /\ Yes' = Yes
  BY QueueSeen
<1>5. QED
  BY <1>1, <1>3, <1>4 DEF Abstract!Exit, Stage, Yes

\* Nothing the players see.
Still == UNCHANGED <<Whereabouts, Stage, Yes>>

LEMMA NothingSeen ==
  ASSUME QueueAssumption, QueueInv, QueueInv', UNCHANGED <<lobby, queue>>
  PROVE  Still
<1>1. \A p \in Player : Whereabouts'[p] = Whereabouts[p]
  BY QueueSeen
<1>2. Whereabouts' = Whereabouts
  BY <1>1, WhereTyped
<1>3. QED
  BY <1>2, QueueSeen DEF Still

-----------------------------------------------------------------------------
(* Each step keeps pace *)

LEMMA QueuesKeepPace ==
  ASSUME QueueAssumption, QueueInv, QueueInv', NEW p \in Player,
         Join(p) \/ Leave(p) \/ Heartbeat(p) \/ GoesAway(p)
  PROVE  Still \/ Abstract!Next
<1> DEFINE gone == IF idle THEN Abstract!InQueue ELSE {}
<1>1. /\ queue \in [Player -> Nat] /\ tickets \in Nat
  BY DEF QueueInv, Typed
<1>2. Abstract!InQueue = Queued /\ gone \in {{}, Abstract!InQueue}
  BY SeenAs
<1>3. CASE Heartbeat(p) \/ GoesAway(p) \/ (Join(p) /\ Waiting[p] > 0)
  BY <1>3, NothingSeen DEF Heartbeat, GoesAway, Join
<1>4. CASE Join(p) /\ ~(Waiting[p] > 0)
  <2>1. /\ queue' = [Waiting EXCEPT ![p] = tickets + 1] /\ UNCHANGED lobby /\ LobbyOf(p) = {}
    BY <1>4 DEF Join, MayJoin
  <2>2. Whereabouts[p] \notin DOMAIN Stage
    BY <2>1, SeenAs
  <2>3. ASSUME NEW q \in Player
        PROVE  Whereabouts'[q] = IF q \in gone \ {p} THEN -1 ELSE IF q = p THEN 0 ELSE Whereabouts[q]
    <3>1. queue'[q] = IF q = p THEN tickets + 1 ELSE IF idle THEN 0 ELSE queue[q]
      BY <1>1, <2>1 DEF Waiting
    <3>2. q \in gone <=> idle /\ queue[q] > 0
      BY <1>2 DEF Queued
    <3>3. CASE LobbyOf(q) # {}
      BY <2>1, <3>2, <3>3, QueueSeen
    <3>4. CASE LobbyOf(q) = {}
      BY <1>1, <2>1, <3>1, <3>2, <3>4, QueueSeen
    <3>5. QED
      BY <3>3, <3>4
  <2>4. Whereabouts' = Abstract!Move(gone \ {p}, {p})
    <3> HIDE DEF gone
    <3>1. Whereabouts' = [q \in Player |-> IF q \in gone \ {p} THEN -1 ELSE IF q \in {p} THEN 0 ELSE Whereabouts[q]]
      BY <2>3, WhereTyped
    <3>2. QED
      BY <3>1 DEF Abstract!Move, Abstract!Out, Abstract!InLine
  <2>5. Stage' = Stage /\ Yes' = Yes
    BY <2>1, QueueSeen
  <2> HIDE DEF gone
  <2>6. Abstract!Enter(p)
    BY <1>2, <2>2, <2>4, <2>5 DEF Abstract!Enter, Stage, Yes
  <2>7. QED
    BY <2>6 DEF Abstract!Next
<1>5. CASE Leave(p)
  <2> DEFINE ps == IF idle THEN Queued ELSE {p}
  <2>1. queue' = [Waiting EXCEPT ![p] = 0] /\ UNCHANGED lobby /\ queue[p] > 0
    BY <1>5 DEF Leave
  <2>2. ps \in SUBSET Queued /\ p \in ps /\ ps \in SUBSET Player
    BY <2>1 DEF Queued
  <2>3. \A q \in Player : queue'[q] = IF q \in ps THEN 0 ELSE queue[q]
    BY <1>1, <2>1 DEF Waiting, Queued
  <2> HIDE DEF ps
  <2>4. Abstract!Exit(ps)
    BY <2>1, <2>2, <2>3, SomeExit
  <2>5. QED
    BY <2>2, <2>4 DEF Abstract!Next
<1>6. QED
  BY <1>3, <1>4, <1>5

LEMMA ExpiresKeepsPace ==
  ASSUME QueueAssumption, QueueInv, QueueInv', QueueIdles \/ Expires
  PROVE  Still \/ Abstract!Next
<1>1. CASE QueueIdles
  BY <1>1, NothingSeen DEF QueueIdles
<1>2. CASE Expires
  <2>1. queue' = [p \in Player |-> 0] /\ UNCHANGED lobby /\ queue \in [Player -> Nat]
    BY <1>2 DEF Expires, Waiting, QueueInv, Typed
  <2>2. Queued \in SUBSET Queued /\ Queued \in SUBSET Player
    BY DEF Queued
  <2>3. (\A p \in Queued : queue'[p] = 0) /\ \A p \in Player \ Queued : queue'[p] = queue[p]
    BY <2>1 DEF Queued
  <2>4. Abstract!Exit(Queued)
    BY <2>1, <2>2, <2>3, SomeExit
  <2>5. QED
    BY <2>2, <2>4 DEF Abstract!Next
<1>3. QED
  BY <1>1, <1>2

LEMMA BanKeepsPace ==
  ASSUME QueueAssumption, QueueInv, QueueInv', NEW x \in Proc, BanCommits(x)
  PROVE  Still \/ Abstract!Next
<1> DEFINE p == tx[x].player
           ps == IF idle THEN Queued ELSE Queued \cap {p}
<1>1. UNCHANGED lobby /\ p \in Player /\ queue \in [Player -> Nat]
  BY DEF BanCommits, QueueInv, Typed, Fits
<1>2. CASE ~BanStands(x)
  BY <1>1, <1>2, NothingSeen DEF BanCommits
<1>3. CASE BanStands(x)
  <2>1. queue' = [Waiting EXCEPT ![p] = 0]
    BY <1>3 DEF BanCommits
  <2>2. ps \in SUBSET Queued /\ ps \in SUBSET Player
    BY DEF Queued
  <2>3. (\A q \in ps : queue'[q] = 0) /\ \A q \in Player \ ps : queue'[q] = queue[q]
    BY <1>1, <2>1 DEF Waiting, Queued
  <2> HIDE DEF ps
  <2>4. Abstract!Exit(ps)
    BY <1>1, <2>2, <2>3, SomeExit
  <2>5. QED
    BY <2>2, <2>4 DEF Abstract!Next
<1>4. QED
  BY <1>2, <1>3

\* A row that changes, and the places of those who stay where they are.
LEMMA RowSeen ==
  ASSUME QueueInv, NEW l \in Lobbies, NEW row \in Row, row.at = lobby[l].at,
         lobby' = [lobby EXCEPT ![l] = row]
  PROVE  /\ lobby'[l] = row /\ \A m \in Lobbies : m # l => lobby'[m] = lobby[m]
         /\ Stage' = [Stage EXCEPT ![l] = Shown(row.status)] /\ Yes' = [Yes EXCEPT ![l] = row.accepted]
         /\ Lobbies' = Lobbies /\ \A m \in Lobbies : Roster(m)' = Roster(m)
         /\ row.status \in Active => Live' = Live \cup {l}
         /\ row.status \notin Active => Live' = Live \ {l}
<1>1. /\ Lobbies' = Lobbies /\ lobby'[l] = row /\ \A m \in Lobbies : m # l => lobby'[m] = lobby[m]
      /\ \A m \in Lobbies : Roster(m)' = Roster(m)
  BY RowChanges DEF QueueInv
<1>2. Stage = [m \in Lobbies |-> Shown(lobby[m].status)]
  BY ShownIs DEF Stage
<1>3. Stage' = [Stage EXCEPT ![l] = Shown(row.status)]
  <2>1. Stage' = [m \in Lobbies |-> Shown(lobby'[m].status)]
    BY <1>1 DEF Stage, StageOf, Shown, Active
  <2>2. QED
    BY <1>1, <1>2, <2>1
<1>4. Yes' = [Yes EXCEPT ![l] = row.accepted]
  <2>1. Yes' = [m \in Lobbies |-> lobby'[m].accepted]
    BY <1>1 DEF Yes
  <2>2. QED
    BY <1>1, <2>1, YesIs
<1>5. /\ row.status \in Active => Live' = Live \cup {l}
      /\ row.status \notin Active => Live' = Live \ {l}
  BY <1>1 DEF Live
<1>6. QED
  BY <1>1, <1>3, <1>4, <1>5

\* The same ten in the same games: nobody moved.
LEMMA SamePlaces ==
  ASSUME QueueAssumption, QueueInv, QueueInv', UNCHANGED queue, Live' = Live,
         \A l \in Live : Roster(l)' = Roster(l)
  PROVE  Whereabouts' = Whereabouts
<1>1. Placed
  BY WhereIs
<1>2. Placed'
  BY WhereIs, PTL
<1>3. ASSUME NEW p \in Player PROVE Whereabouts'[p] = Whereabouts[p]
  <2>1. CASE \E l \in Live : p \in Roster(l)
    BY <1>1, <1>2, <2>1 DEF Placed
  <2>2. CASE \A l \in Live : p \notin Roster(l)
    BY <1>1, <1>2, <2>2 DEF Placed
  <2>3. QED
    BY <2>1, <2>2
<1>4. QED
  BY <1>3, WhereTyped

\* A row changes in what the players do not see.
LEMMA RowStill ==
  ASSUME QueueAssumption, QueueInv, QueueInv', UNCHANGED queue,
         NEW l \in Lobbies, NEW row \in Row, row.at = lobby[l].at, lobby' = [lobby EXCEPT ![l] = row],
         row.accepted = lobby[l].accepted, Shown(row.status) = Shown(lobby[l].status)
  PROVE  Still
<1>1. /\ lobby'[l] = row
      /\ Stage' = [Stage EXCEPT ![l] = Shown(row.status)] /\ Yes' = [Yes EXCEPT ![l] = row.accepted]
      /\ \A m \in Lobbies : Roster(m)' = Roster(m)
      /\ row.status \in Active => Live' = Live \cup {l}
      /\ row.status \notin Active => Live' = Live \ {l}
  BY RowSeen
<1>2. Stage' = Stage /\ Yes' = Yes
  <2>1. Stage[l] = Shown(row.status) /\ Yes[l] = row.accepted
    BY ShownIs DEF Stage, Yes
  <2>2. /\ [Stage EXCEPT ![l] = Stage[l]] = Stage /\ [Yes EXCEPT ![l] = Yes[l]] = Yes
    BY DEF Stage, Yes
  <2>3. QED
    BY <1>1, <2>1, <2>2
<1>3. row.status \in Active <=> lobby[l].status \in Active
  BY DEF Shown, Active
<1>4. Live' = Live
  BY <1>1, <1>3 DEF Live
<1>5. \A m \in Live : Roster(m)' = Roster(m)
  BY <1>1 DEF Live
<1>6. QED
  BY <1>2, <1>4, <1>5, SamePlaces DEF Still

\* A vote starts.
LEMMA VoteStarts ==
  ASSUME QueueAssumption, QueueInv, QueueInv', UNCHANGED queue,
         NEW l \in Lobbies, NEW row \in Row, row.at = lobby[l].at, lobby' = [lobby EXCEPT ![l] = row],
         lobby[l].status = "READY_CHECK", row.status \in {"READY_CHECK", "CAPTAIN_VOTE"}
  PROVE  /\ l \in Live /\ Stage[l] = "asked" /\ Whereabouts' = Whereabouts
         /\ Stage' = IF row.status = "READY_CHECK" THEN Stage ELSE [Stage EXCEPT ![l] = "on"]
         /\ Yes' = [Yes EXCEPT ![l] = row.accepted]
<1>1. /\ lobby'[l] = row
      /\ Stage' = [Stage EXCEPT ![l] = Shown(row.status)] /\ Yes' = [Yes EXCEPT ![l] = row.accepted]
      /\ \A m \in Lobbies : Roster(m)' = Roster(m)
      /\ row.status \in Active => Live' = Live \cup {l}
  BY RowSeen
<1>2. l \in Live /\ Live' = Live
  BY <1>1 DEF Live, Active
<1>3. Whereabouts' = Whereabouts
  <2>1. \A m \in Live : Roster(m)' = Roster(m)
    BY <1>1 DEF Live
  <2>2. QED
    BY <1>2, <2>1, SamePlaces
<1>4. Stage[l] = "asked"
  BY DEF Stage, StageOf
<1>5. Shown(row.status) = IF row.status = "READY_CHECK" THEN "asked" ELSE "on"
  BY DEF Shown, Active
<1>6. Stage' = IF row.status = "READY_CHECK" THEN Stage ELSE [Stage EXCEPT ![l] = "on"]
  BY <1>1, <1>4, <1>5 DEF Stage
<1>7. QED
  BY <1>1, <1>2, <1>3, <1>4, <1>6

LEMMA AcceptKeepsPace ==
  ASSUME QueueAssumption, QueueInv, QueueInv', TurnsInv, NEW x \in Proc, AcceptCommits(x) \/ AcceptFlips(x)
  PROVE  Still \/ Abstract!Next
<1> DEFINE l == tx[x].lobby
           p == tx[x].player
           row == IF tx[x].pc = "flip" THEN Flipped(Accepted(x)) ELSE Accepted(x)
<1>1. /\ tx[x].pc \in {"commit", "flip"} /\ lobby' = [lobby EXCEPT ![l] = row] /\ UNCHANGED queue
  BY DEF AcceptCommits, AcceptFlips
<1>2. /\ tx[x].pc \in Counted /\ (tx[x].pc = "flip" => Pending(l) \subseteq {p})
  BY <1>1 DEF Counted, QueueInv, Fits
<1>3. /\ l \in Lobbies /\ Accepted(x) \in Row
      /\ Accepted(x).at = lobby[l].at /\ Accepted(x).status = lobby[l].status
      /\ lobby[l].accepted \subseteq Accepted(x).accepted /\ Accepted(x).accepted \subseteq Roster(l)
      /\ Accepted(x).accepted \subseteq lobby[l].accepted \cup {p} /\ p \in Accepted(x).accepted
  BY <1>2, AcceptedIs
<1>4. /\ row \in Row /\ row.at = lobby[l].at /\ row.accepted = Accepted(x).accepted
      /\ row.status = IF tx[x].pc = "flip" /\ lobby[l].status = "READY_CHECK" THEN "CAPTAIN_VOTE"
                      ELSE lobby[l].status
  BY <1>3, FlippedIs
<1> HIDE DEF row
<1>5. /\ row.accepted = lobby[l].accepted \cup {p} /\ p \in Roster(l) /\ Roster(l) \subseteq Player
      /\ tx[x].pc = "flip" => row.accepted = Roster(l)
  BY <1>2, <1>3, <1>4, LobbiesAre DEF QueueInv, Pending
<1>6. CASE Writes(x)
  <2>1. lobby[l].status = "READY_CHECK"
    BY <1>6 DEF TurnsInv, WritesAreNew
  <2>2. row.status \in {"READY_CHECK", "CAPTAIN_VOTE"} /\ (row.status = "CAPTAIN_VOTE" => tx[x].pc = "flip")
    BY <1>4, <2>1
  <2>3. /\ l \in Live /\ Stage[l] = "asked" /\ Whereabouts' = Whereabouts
        /\ Stage' = IF row.status = "READY_CHECK" THEN Stage ELSE [Stage EXCEPT ![l] = "on"]
        /\ Yes' = [Yes EXCEPT ![l] = row.accepted]
    BY <1>1, <1>3, <1>4, <2>1, <2>2, VoteStarts
  <2>4. /\ Abstract!Members(l) = Roster(l) /\ DOMAIN Stage = Lobbies /\ DOMAIN Yes = Lobbies
        /\ Yes[l] = lobby[l].accepted
    BY <1>3, <2>3, SeenAs
  <2>5. Yes' = [Yes EXCEPT ![l] = @ \cup {p}] /\ (row.status # "READY_CHECK" => Yes'[l] = Abstract!Members(l))
    BY <1>3, <1>5, <2>2, <2>3, <2>4
  <2>6. PICK n \in Lobbies, q \in Player : n = l /\ q = p
    BY <1>3, <1>5
  <2>7. Abstract!SaysYes(n, q)
    BY <1>5, <2>3, <2>4, <2>5, <2>6 DEF Abstract!SaysYes, Stage, Yes
  <2>8. QED
    BY <2>7, InAGame
<1>7. CASE ~Writes(x)
  <2>1. p \in lobby[l].accepted
    BY <1>2, <1>7 DEF QueueInv, Fits, Writes
  <2>2. row.accepted = lobby[l].accepted
    BY <1>5, <2>1
  <2>3. CASE row.status = lobby[l].status
    BY <1>1, <1>3, <1>4, <2>2, <2>3, RowStill
  <2>4. CASE row.status # lobby[l].status
    <3>1. tx[x].pc = "flip" /\ lobby[l].status = "READY_CHECK" /\ row.status = "CAPTAIN_VOTE"
      BY <1>4, <2>4
    <3>2. /\ l \in Live /\ Stage[l] = "asked" /\ Whereabouts' = Whereabouts
          /\ Stage' = [Stage EXCEPT ![l] = "on"] /\ Yes' = [Yes EXCEPT ![l] = row.accepted]
      BY <1>1, <1>3, <1>4, <3>1, VoteStarts
    <3>3. /\ Abstract!Members(l) = Roster(l) /\ DOMAIN Stage = Lobbies /\ DOMAIN Yes = Lobbies
          /\ Yes[l] = lobby[l].accepted
      BY <1>3, <3>2, SeenAs
    <3>4. Yes' = Yes /\ Yes[l] = Abstract!Members(l)
      BY <1>5, <2>2, <3>1, <3>2, <3>3 DEF Yes
    <3>5. Abstract!Starts(l)
      BY <3>2, <3>4 DEF Abstract!Starts, Stage, Yes
    <3>6. QED
      BY <1>3, <3>5, InAGame
  <2>5. QED
    BY <2>3, <2>4
<1>8. QED
  BY <1>6, <1>7

LEMMA ResolverKeepsPace ==
  ASSUME QueueAssumption, QueueInv, QueueInv', NEW x \in Proc, ResolverFlips(x)
  PROVE  Still \/ Abstract!Next
<1> DEFINE l == tx[x].lobby
           row == Flipped(lobby[l])
<1>1. tx[x].pc = "vote" /\ lobby' = [lobby EXCEPT ![l] = row] /\ UNCHANGED queue
  BY DEF ResolverFlips
<1>2. /\ l \in Lobbies /\ lobby[l] \in Row /\ Pending(l) = {} /\ lobby[l].accepted \subseteq Roster(l)
  BY <1>1, AboutAGame DEF Fits
<1>3. /\ row \in Row /\ row.at = lobby[l].at /\ row.accepted = lobby[l].accepted
      /\ row.status = IF lobby[l].status = "READY_CHECK" THEN "CAPTAIN_VOTE" ELSE lobby[l].status
  BY <1>2, FlippedIs
<1> HIDE DEF row
<1>4. CASE lobby[l].status # "READY_CHECK"
  BY <1>1, <1>2, <1>3, <1>4, RowStill
<1>5. CASE lobby[l].status = "READY_CHECK"
  <2>1. row.status = "CAPTAIN_VOTE"
    BY <1>3, <1>5
  <2>2. /\ l \in Live /\ Stage[l] = "asked" /\ Whereabouts' = Whereabouts
        /\ Stage' = [Stage EXCEPT ![l] = "on"] /\ Yes' = [Yes EXCEPT ![l] = row.accepted]
    BY <1>1, <1>2, <1>3, <1>5, <2>1, VoteStarts
  <2>3. /\ Abstract!Members(l) = Roster(l) /\ DOMAIN Stage = Lobbies /\ DOMAIN Yes = Lobbies
        /\ Yes[l] = lobby[l].accepted
    BY <1>2, <2>2, SeenAs
  <2>4. Yes' = Yes /\ Yes[l] = Abstract!Members(l)
    <3>1. Yes' = Yes
      BY <1>2, <1>3, <2>2, YesIs
    <3>2. Roster(l) \subseteq lobby[l].accepted
      BY <1>2 DEF Pending
    <3>3. Roster(l) = lobby[l].accepted
      BY <1>2, <3>2
    <3>4. QED
      BY <2>3, <3>1, <3>3
  <2>5. Abstract!Starts(l)
    BY <2>2, <2>4 DEF Abstract!Starts, Stage, Yes
  <2>6. QED
    BY <1>2, <2>5, InAGame
<1>6. QED
  BY <1>4, <1>5

\* A game ends: its ten are out, or back in the queue.
LEMMA GameCloses ==
  ASSUME QueueAssumption, QueueInv, QueueInv',
         NEW l \in Lobbies, NEW row \in Row, row.at = lobby[l].at, lobby' = [lobby EXCEPT ![l] = row],
         row.accepted = lobby[l].accepted, l \in Live, row.status \notin Active,
         NEW back \in SUBSET Roster(l), NEW gone \in {{}, Queued},
         \A p \in Player : queue'[p] > 0 <=> p \in back \/ (queue[p] > 0 /\ p \notin gone)
  PROVE  Abstract!Next
<1>1. Placed
  BY WhereIs
<1>2. Placed'
  BY WhereIs, PTL
<1>3. /\ Stage' = [Stage EXCEPT ![l] = Shown(row.status)] /\ Yes' = [Yes EXCEPT ![l] = row.accepted]
      /\ Live' = Live \ {l} /\ \A m \in Lobbies : Roster(m)' = Roster(m)
  BY RowSeen
<1>4. /\ Abstract!InQueue = Queued /\ Abstract!Members(l) = Roster(l) /\ Stage[l] # "closed"
      /\ Live \subseteq Lobbies
  BY SeenAs DEF Live
<1>5. Stage' = [Stage EXCEPT ![l] = "closed"] /\ Yes' = Yes
  <2>1. Shown(row.status) = "closed"
    BY DEF Shown, Active
  <2>2. Yes' = Yes
    BY <1>3, YesIs
  <2>3. QED
    BY <1>3, <2>1, <2>2
<1>6. ASSUME NEW p \in Player
      PROVE  Whereabouts'[p] = IF p \in (Roster(l) \ back) \cup gone THEN -1
                               ELSE IF p \in back THEN 0 ELSE Whereabouts[p]
  <2>1. queue[p] > 0 => \A m \in Live : p \notin Roster(m)
    BY DEF QueueInv, InOneGame
  <2>2. p \in gone => queue[p] > 0
    BY DEF Queued
  <2>3. CASE p \in Roster(l)
    <3>1. \A m \in Live : p \in Roster(m) => m = l
      BY <2>3 DEF QueueInv, InOneGame
    <3>2. \A m \in Live' : p \notin Roster(m)'
      BY <1>3, <1>4, <3>1
    <3>3. Whereabouts'[p] = IF queue'[p] > 0 THEN 0 ELSE -1
      BY <1>2, <3>2 DEF Placed
    <3>4. QED
      BY <2>1, <2>2, <2>3, <3>3
  <2>4. CASE p \notin Roster(l) /\ \E m \in Live : p \in Roster(m)
    <3>1. PICK m \in Live : p \in Roster(m)
      BY <2>4
    <3>2. m \in Live' /\ p \in Roster(m)' /\ p \notin back /\ p \notin gone
      BY <1>3, <1>4, <2>1, <2>2, <2>4, <3>1
    <3>3. Whereabouts[p] = m /\ Whereabouts'[p] = m
      BY <1>1, <1>2, <3>1, <3>2 DEF Placed
    <3>4. QED
      BY <2>4, <3>2, <3>3
  <2>5. CASE \A m \in Live : p \notin Roster(m)
    <3>1. \A m \in Live' : p \notin Roster(m)'
      BY <1>3, <1>4, <2>5
    <3>2. p \notin back /\ p \notin Roster(l)
      BY <2>5
    <3>3. /\ Whereabouts[p] = IF queue[p] > 0 THEN 0 ELSE -1
          /\ Whereabouts'[p] = IF queue'[p] > 0 THEN 0 ELSE -1
      BY <1>1, <1>2, <2>5, <3>1 DEF Placed
    <3>4. queue'[p] > 0 <=> queue[p] > 0 /\ p \notin gone
      BY <3>2
    <3>5. QED
      BY <2>2, <3>2, <3>3, <3>4
  <2>6. QED
    BY <2>3, <2>4, <2>5
<1>7. Whereabouts' = Abstract!Move((Abstract!Members(l) \ back) \cup gone, back)
  <2>1. Whereabouts' = [p \in Player |-> IF p \in (Roster(l) \ back) \cup gone THEN -1
                                         ELSE IF p \in back THEN 0 ELSE Whereabouts[p]]
    BY <1>6, WhereTyped
  <2>2. QED
    BY <1>4, <2>1 DEF Abstract!Move, Abstract!Out, Abstract!InLine
<1>8. Abstract!Closes(l)
  <2>1. back \in SUBSET Abstract!Members(l) /\ gone \in {{}, Abstract!InQueue}
    BY <1>4
  <2>2. QED
    BY <1>4, <1>5, <1>7, <2>1 DEF Abstract!Closes, Stage, Yes
<1>9. QED
  BY <1>8, InAGame

LEMMA FailKeepsPace ==
  ASSUME QueueAssumption, IsFiniteSet(Player), QueueInv, QueueInv', NEW x \in Proc, FailCommits(x)
  PROVE  Abstract!Next
<1> DEFINE l == tx[x].lobby
           back == tx[x].back
           gone == IF idle THEN Queued ELSE {}
           row == [lobby[l] EXCEPT !.status = "CANCELLED", !.lock = None, !.due = FALSE]
<1>1. /\ l \in Live /\ back \in SUBSET Roster(l) /\ tx[x].pc = "requeue"
      /\ queue' = [p \in Player |-> IF p \in back THEN Place(x, p) ELSE Waiting[p]]
      /\ lobby' = [lobby EXCEPT ![l] = row] /\ queue \in [Player -> Nat]
  BY FailsIs DEF FailCommits, QueueInv, Typed
<1>2. l \in Lobbies /\ lobby[l] \in Row
  BY <1>1, LobbiesAre DEF QueueInv, Live
<1>3. /\ row \in Row /\ row.at = lobby[l].at /\ row.accepted = lobby[l].accepted
      /\ row.status \notin Active
  BY <1>2 DEF Row, Statuses, Terminal, Active
<1>4. ASSUME NEW p \in Player
      PROVE  queue'[p] > 0 <=> p \in back \/ (queue[p] > 0 /\ p \notin gone)
  <2>1. CASE p \in back
    <3>1. Place(x, p) > 0
      BY <1>1, <2>1, PlaceIs
    <3>2. QED
      BY <1>1, <2>1, <3>1
  <2>2. CASE p \notin back
    BY <1>1, <2>2 DEF Waiting, Queued
  <2>3. QED
    BY <2>1, <2>2
<1>5. gone \in {{}, Queued}
  OBVIOUS
<1> HIDE DEF row, gone
<1>6. QED
  BY <1>1, <1>2, <1>3, <1>4, <1>5, GameCloses

\* The rest of a game's life.
LEMMA PlaysKeepPace ==
  ASSUME QueueAssumption, QueueInv, QueueInv', NEW l \in 1 .. MaxLobbies,
         TeamsLock(l) \/ GameOver(l) \/ ResultIn(l) \/ Abandoned(l)
  PROVE  Still \/ Abstract!Next
<1>1. PICK to \in Statuses :
        /\ l \in Lobbies /\ lobby' = [lobby EXCEPT ![l] = [lobby[l] EXCEPT !.status = to]]
        /\ UNCHANGED queue
        /\ \/ lobby[l].status = "CAPTAIN_VOTE" /\ to = "READY"
           \/ lobby[l].status \in {"READY", "AWAITING_RESULT"} /\ to \notin Active
  <2>1. CASE TeamsLock(l)
    BY <2>1 DEF TeamsLock, Moves, Statuses, Active, Terminal
  <2>2. CASE GameOver(l)
    BY <2>2 DEF GameOver, Moves, Statuses, Active, Terminal
  <2>3. CASE ResultIn(l)
    BY <2>3 DEF ResultIn, Moves, Recordable, Statuses, Active, Terminal
  <2>4. CASE Abandoned(l)
    BY <2>4 DEF Abandoned, Moves, Statuses, Active, Terminal
  <2>5. QED
    BY <2>1, <2>2, <2>3, <2>4
<1> DEFINE row == [lobby[l] EXCEPT !.status = to]
<1>2. lobby[l] \in Row
  BY <1>1, LobbiesAre DEF QueueInv
<1>3. row \in Row /\ row.at = lobby[l].at /\ row.accepted = lobby[l].accepted /\ row.status = to
  BY <1>2 DEF Row
<1>4. lobby' = [lobby EXCEPT ![l] = row]
  BY <1>1
<1> HIDE DEF row
<1>5. CASE lobby[l].status = "CAPTAIN_VOTE" \/ lobby[l].status = "AWAITING_RESULT"
  <2>1. Shown(row.status) = Shown(lobby[l].status)
    BY <1>1, <1>3, <1>5 DEF Shown, Active
  <2>2. QED
    BY <1>1, <1>3, <1>4, <2>1, RowStill
<1>6. CASE lobby[l].status = "READY" /\ to \notin Active
  <2>1. l \in Live
    BY <1>1, <1>6 DEF Live, Active
  <2>2. PICK back \in SUBSET Roster(l), gone \in {{}, Queued} : back = {} /\ gone = {}
    OBVIOUS
  <2>3. \A p \in Player : queue'[p] > 0 <=> p \in back \/ (queue[p] > 0 /\ p \notin gone)
    BY <1>1, <2>2
  <2>4. QED
    BY <1>1, <1>3, <1>4, <1>6, <2>1, <2>2, <2>3, GameCloses
<1>7. QED
  BY <1>1, <1>5, <1>6

LEMMA RowsKeepPace ==
  ASSUME QueueAssumption, QueueInv, QueueInv',
         \/ \E x \in Proc : FailClaims(x)
         \/ \E l \in 1 .. MaxLobbies : ClockRunsOut(l)
  PROVE  Still
<1>1. ASSUME NEW l \in 1 .. MaxLobbies, ClockRunsOut(l) PROVE Still
  <2> DEFINE row == [lobby[l] EXCEPT !.due = TRUE]
  <2>1. l \in Lobbies /\ lobby' = [lobby EXCEPT ![l] = row] /\ UNCHANGED queue
    BY <1>1 DEF ClockRunsOut
  <2>2. lobby[l] \in Row
    BY <2>1, LobbiesAre DEF QueueInv
  <2>3. row \in Row /\ row.at = lobby[l].at /\ row.accepted = lobby[l].accepted /\ row.status = lobby[l].status
    BY <2>2 DEF Row
  <2> HIDE DEF row
  <2>4. QED
    BY <2>1, <2>3, RowStill
<1>2. ASSUME NEW x \in Proc, FailClaims(x) PROVE Still
  <2> DEFINE l == tx[x].lobby
             row == [lobby[l] EXCEPT !.lock = x]
  <2>1. tx[x].pc = "fail" /\ UNCHANGED queue
    BY <1>2 DEF FailClaims
  <2>2. l \in Lobbies /\ lobby[l] \in Row
    BY <2>1, AboutAGame
  <2>3. row \in Row /\ row.at = lobby[l].at /\ row.accepted = lobby[l].accepted /\ row.status = lobby[l].status
    BY <2>2 DEF Row
  <2>4. CASE UNCHANGED lobby
    BY <2>1, <2>4, NothingSeen
  <2>5. CASE lobby' = [lobby EXCEPT ![l] = row]
    <3> HIDE DEF row
    <3>1. QED
      BY <2>1, <2>2, <2>3, <2>5, RowStill
  <2>6. QED
    BY <1>2, <2>4, <2>5 DEF FailClaims
<1>3. QED
  BY <1>1, <1>2

\* A sequence grows by one.
LEMMA Appended ==
  ASSUME NEW V, NEW n \in Nat, NEW s \in [1 .. n -> V], NEW e \in V
  PROVE  Append(s, e) = [i \in 1 .. n + 1 |-> IF i = n + 1 THEN e ELSE s[i]] /\ Len(s) = n
<1>1. s \in Seq(V) /\ Len(s) = n
  BY SeqDef
<1>2. Append(s, e) \in Seq(V) /\ Len(Append(s, e)) = n + 1
  BY <1>1, AppendProperties
<1>3. Append(s, e) \in [1 .. n + 1 -> V]
  BY <1>2, LenProperties
<1>4. \A i \in 1 .. n + 1 : Append(s, e)[i] = IF i = n + 1 THEN e ELSE s[i]
  BY <1>1, AppendProperties
<1>5. QED
  BY <1>1, <1>3, <1>4

\* As many games run as hold a slot, and a lobby forms only for a free one.
LEMMA RoomForOne ==
  ASSUME QueueAssumption, QueueInv, Form
  PROVE  Cardinality(Live) < MaxLiveGames
<1> DEFINE s == Min(FreeSlots)
           Rest == (1 .. MaxLiveGames) \ {s}
<1>1. s \in FreeSlots /\ MaxLiveGames \in Nat
  BY FormTakes DEF QueueAssumption
<1>2. s \in 1 .. MaxLiveGames /\ \A l \in Live : lobby[l].slot # s
  BY <1>1 DEF FreeSlots
<1>3. IsFiniteSet(1 .. MaxLiveGames) /\ Cardinality(1 .. MaxLiveGames) = MaxLiveGames
  BY <1>1, FS_Interval
<1> HIDE DEF s
<1>4. IsFiniteSet(Rest) /\ Cardinality(Rest) = MaxLiveGames - 1
  BY <1>2, <1>3, FS_RemoveElement
<1>5. \A l \in Live : lobby[l].slot \in Rest
  BY <1>2, LobbiesAre DEF QueueInv, Live, Row
<1>6. IsFiniteSet(Live)
  <2>1. Lobbies = 1 .. Len(lobby) /\ Len(lobby) \in Nat
    BY LobbiesAre DEF QueueInv
  <2>2. IsFiniteSet(Lobbies)
    BY <2>1, FS_Interval
  <2>3. QED
    BY <2>2, FS_Subset DEF Live
<1>7. Cardinality(Live) \in Nat
  BY <1>6, FS_CardinalityType
<1>8. ASSUME Cardinality(Live) >= MaxLiveGames PROVE FALSE
  <2>1. Cardinality(Rest) < Cardinality(Live)
    BY <1>1, <1>4, <1>7, <1>8
  <2> DEFINE f == [l \in Live |-> lobby[l].slot]
  <2>2. f \in [Live -> Rest]
    BY <1>5
  <2> HIDE DEF Rest
  <2>3. \A l \in Live : f[l] = lobby[l].slot
    OBVIOUS
  <2> HIDE DEF f
  <2>4. \E l, m \in Live : l # m /\ f[l] = f[m]
    BY <1>4, <1>6, <2>1, <2>2, FS_PigeonHole
  <2>5. QED
    BY <2>3, <2>4 DEF QueueInv, SlotsAreDistinct
<1>9. QED
  BY <1>1, <1>7, <1>8

\* The abstract queue counts as this one does.
LEMMA SameCount == \A S : Abstract!Cardinality(S) = Cardinality(S)
BY DEF Abstract!Cardinality, Cardinality

LEMMA FormKeepsPace ==
  ASSUME QueueAssumption, QueueInv, QueueInv', Form
  PROVE  Abstract!Next
<1> DEFINE S == First(Waiting)
<1>1. /\ S \subseteq Queued /\ S \subseteq Player /\ Cardinality(S) = LobbySize
      /\ queue' = [p \in Player |-> IF p \in S THEN 0 ELSE queue[p]]
  BY FormTakes DEF Form
<1>2. PICK n \in Nat, row \in Row :
        /\ n = Len(lobby) + 1 /\ n \notin Lobbies /\ Lobbies' = Lobbies \cup {n}
        /\ lobby' = Append(lobby, row)
        /\ lobby'[n] = row /\ \A m \in Lobbies : lobby'[m] = lobby[m]
        /\ row.status = "READY_CHECK" /\ row.accepted = {}
        /\ row.at = [p \in Player |-> IF p \in First(Waiting) THEN queue[p] ELSE 0]
  BY FormAdds
<1>3. /\ Lobbies = 1 .. Len(lobby) /\ Len(lobby) \in Nat /\ queue \in [Player -> Nat]
  BY LobbiesAre DEF QueueInv, Typed
<1>4. Placed
  BY WhereIs
<1>5. Placed'
  BY WhereIs, PTL
<1> HIDE DEF S
<1>6. /\ Live' = Live \cup {n} /\ n \notin Live
      /\ \A m \in Live : Roster(m)' = Roster(m)
  BY <1>2 DEF Live, Roster, Active
<1>7. Roster(n)' = S
  BY <1>1, <1>2, <1>3 DEF Roster, Queued, S
<1>8. ASSUME NEW p \in Player
      PROVE  Whereabouts'[p] = IF p \in S THEN n ELSE Whereabouts[p]
  <2>1. CASE p \in S
    <3>1. n \in Live' /\ p \in Roster(n)'
      BY <1>6, <1>7, <2>1
    <3>2. QED
      BY <1>5, <2>1, <3>1 DEF Placed
  <2>2. CASE p \notin S /\ \E m \in Live : p \in Roster(m)
    <3>1. PICK m \in Live : p \in Roster(m)
      BY <2>2
    <3>2. m \in Live' /\ p \in Roster(m)'
      BY <1>6, <3>1
    <3>3. QED
      BY <1>4, <1>5, <2>2, <3>1, <3>2 DEF Placed
  <2>3. CASE p \notin S /\ \A m \in Live : p \notin Roster(m)
    <3>1. \A m \in Live' : p \notin Roster(m)'
      BY <1>6, <1>7, <2>3
    <3>2. queue'[p] = queue[p]
      BY <1>1, <2>3
    <3>3. QED
      BY <1>4, <1>5, <2>3, <3>1, <3>2 DEF Placed
  <2>4. QED
    BY <2>1, <2>2, <2>3
<1>9. Stage' = Append(Stage, "asked") /\ Len(Stage) = Len(lobby)
  <2> DEFINE V == {"asked", "on", "closed"}
  <2>1. Stage = [i \in 1 .. Len(lobby) |-> Shown(lobby[i].status)]
    BY <1>3, ShownIs DEF Stage
  <2>2. Stage \in [1 .. Len(lobby) -> V] /\ "asked" \in V
    BY <2>1 DEF Shown
  <2>3. /\ Append(Stage, "asked") = [i \in 1 .. Len(lobby) + 1 |-> IF i = Len(lobby) + 1 THEN "asked" ELSE Stage[i]]
        /\ Len(Stage) = Len(lobby)
    <3> HIDE DEF V
    <3>1. QED
      BY <1>3, <2>2, Appended
  <2>4. Stage' = [i \in Lobbies' |-> Shown(lobby'[i].status)]
    BY DEF Stage, StageOf, Shown, Active
  <2>5. \A i \in 1 .. Len(lobby) + 1 :
          Shown(lobby'[i].status) = IF i = Len(lobby) + 1 THEN "asked" ELSE Stage[i]
    <3>1. Shown("READY_CHECK") = "asked"
      BY DEF Shown
    <3>2. QED
      BY <1>2, <1>3, <2>1, <3>1
  <2>6. Lobbies' = 1 .. Len(lobby) + 1
    BY <1>2, <1>3
  <2>7. QED
    BY <2>3, <2>4, <2>5, <2>6
<1>10. Yes' = Append(Yes, {})
  <2> DEFINE V == SUBSET Player
             none == {}
  <2>1. Yes \in [1 .. Len(lobby) -> V] /\ none \in V
    BY <1>3, LobbiesAre DEF Yes, QueueInv, Row
  <2>2. lobby'[n].accepted = none
    BY <1>2
  <2> HIDE DEF V, none
  <2>3. Append(Yes, none) = [i \in 1 .. Len(lobby) + 1 |-> IF i = Len(lobby) + 1 THEN none ELSE Yes[i]]
    BY <1>3, <2>1, Appended
  <2>4. Yes' = [i \in Lobbies' |-> lobby'[i].accepted]
    BY DEF Yes
  <2>5. \A i \in 1 .. Len(lobby) + 1 :
          lobby'[i].accepted = IF i = Len(lobby) + 1 THEN none ELSE Yes[i]
    <3>1. \A i \in 1 .. Len(lobby) : lobby'[i] = lobby[i] /\ Yes[i] = lobby[i].accepted
      BY <1>2, <1>3, YesIs
    <3>2. QED
      BY <1>2, <1>3, <2>2, <3>1
  <2>6. Lobbies' = 1 .. Len(lobby) + 1
    BY <1>2, <1>3
  <2>7. Yes' = Append(Yes, none)
    BY <2>3, <2>4, <2>5, <2>6
  <2>8. QED
    BY <2>7 DEF none
<1>12. Whereabouts' = [p \in Player |-> IF p \in S THEN Len(Stage) + 1 ELSE Whereabouts[p]]
  <2>1. Len(Stage) + 1 = n
    BY <1>2, <1>9
  <2>2. QED
    BY <1>8, <2>1, WhereTyped
<1>13. Abstract!InQueue = Queued /\ Cardinality(Abstract!Running) < MaxLiveGames
  BY SeenAs, RoomForOne
<1>14. PICK ps \in SUBSET Player : ps = S
  BY <1>1
<1>15. Abstract!Found(ps)
  BY <1>1, <1>9, <1>10, <1>12, <1>13, <1>14, SameCount DEF Abstract!Found, Stage, Yes
<1>16. QED
  BY <1>15 DEF Abstract!Next

LEMMA NextKeepsPace ==
  ASSUME QueueAssumption, IsFiniteSet(Player), QueueInv, QueueInv', TurnsInv, Next
  PROVE  Still \/ Abstract!Next
<1>1. CASE Queues
  BY <1>1, QueuesKeepPace, ExpiresKeepsPace, FormKeepsPace DEF Queues
<1>2. CASE Plays
  BY <1>2, PlaysKeepPace DEF Plays
<1>3. CASE \E l \in 1 .. MaxLobbies : ClockRunsOut(l)
  BY <1>3, RowsKeepPace
<1>4. ASSUME NEW x \in Proc, Answers(x) \/ Resolves(x) \/ Moderates(x) PROVE Still
  <2>1. UNCHANGED <<lobby, queue>>
    BY <1>4 DEF Answers, Resolves, Moderates, AcceptReads, DeclineReads, ResolverReads, CancelReads, BanReads
  <2>2. QED
    BY <2>1, NothingSeen
<1>5. ASSUME NEW x \in Proc, Proceeds(x) PROVE Still \/ Abstract!Next
  <2>1. CASE AcceptClaims(x) \/ AcceptCounts(x) \/ FailRereads(x)
    <3>1. UNCHANGED <<lobby, queue>>
      BY <2>1 DEF AcceptClaims, AcceptCounts, FailRereads
    <3>2. QED
      BY <3>1, NothingSeen
  <2>2. CASE AcceptCommits(x) \/ AcceptFlips(x)
    BY <2>2, AcceptKeepsPace
  <2>3. CASE ResolverFlips(x) \/ FailClaims(x)
    BY <2>3, ResolverKeepsPace, RowsKeepPace
  <2>4. CASE FailCommits(x) \/ BanCommits(x)
    BY <2>4, FailKeepsPace, BanKeepsPace
  <2>5. QED
    BY <1>5, <2>1, <2>2, <2>3, <2>4 DEF Proceeds
<1>6. QED
  BY <1>1, <1>2, <1>3, <1>4, <1>5 DEF Next

LEMMA NothingYet == ASSUME QueueAssumption, Init PROVE Abstract!Init
<1>1. Lobbies = {} /\ \A p \in Player : Whereabouts[p] = -1
  BY DEF Init, Lobbies, Live, LobbyOf, Whereabouts
<1>2. Whereabouts = [p \in Player |-> -1]
  BY <1>1, WhereTyped
<1>3. [l \in Lobbies |-> StageOf(l)] = <<>> /\ [l \in Lobbies |-> lobby[l].accepted] = <<>>
  BY <1>1
<1>4. QED
  BY <1>2, <1>3 DEF Abstract!Init, Abstract!Out

(***************************************************************************)
(* The queue with its transactions implements the queue the players see:   *)
(* whatever requests and pollers cross, each of their steps is one the     *)
(* players may expect (a place gained or left, ten found, a yes, a start,  *)
(* an end that leaves nobody in the game) or one they do not notice.       *)
(***************************************************************************)
THEOREM QueueKeepsInhouse ==
  ASSUME QueueAssumption, IsFiniteSet(Player), ~Overlaps PROVE Spec => KeepsInhouse
<1>1. Init => Abstract!Init
  BY NothingYet
<1>2. QueueInv /\ TurnsInv /\ QueueInv' /\ [Next]_vars
        => [Abstract!Next]_<<Whereabouts, [l \in Lobbies |-> StageOf(l)], [l \in Lobbies |-> lobby[l].accepted]>>
  <2>1. ASSUME QueueInv, TurnsInv, QueueInv', Next PROVE Still \/ Abstract!Next
    BY <2>1, NextKeepsPace
  <2>2. ASSUME QueueInv, QueueInv', UNCHANGED vars PROVE Still
    BY <2>2, NothingSeen DEF vars
  <2>3. QED
    BY <2>1, <2>2 DEF Still, Stage, Yes
<1>3. Spec => [](QueueInv /\ TurnsInv)
  BY TurnsInvariant
<1>4. QED
  BY <1>1, <1>2, <1>3, PTL DEF Spec, KeepsInhouse, Abstract!Spec
=============================================================================
