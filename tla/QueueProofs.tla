----------------------------- MODULE QueueProofs -----------------------------
(***************************************************************************)
(* The inhouse queue and its ready check, for any number of players,       *)
(* requests, lobbies and slots.  The inductive invariant says what an open *)
(* transaction may rely on: a failing check holds its lobby's row until it *)
(* commits, whoever it puts back is still in that lobby and not banned, an *)
(* accept that wrote nothing was already in, and a ban that saw a game     *)
(* knows which one.                                                        *)
(***************************************************************************)
EXTENDS InhouseProperties, SumProofs, SequenceTheorems

Ops == {"none", "accept", "decline", "resolve", "cancel", "ban"}
Counted == {"count", "commit", "flip"}
Accepting == {"claim"} \cup Counted
Held == {"held", "requeue"}
Failing == {"fail"} \cup Held
Pcs == {"idle", "vote", "ban"} \cup Accepting \cup Failing
Seeing == [place : Nat, status : Active \cup {"none"}]
Request == [op : Ops, pc : Pcs, player : Player \cup {None}, lobby : Nat, wrote : BOOLEAN,
            seen : Seeing, back : SUBSET Player, fresh : SUBSET Player]
Row == [status : Statuses, slot : 1 .. MaxLiveGames, due : BOOLEAN, lock : Proc \cup {None},
        accepted : SUBSET Player, at : [Player -> Nat]]

Typed ==
  /\ queue \in [Player -> Nat] /\ here \subseteq Queued /\ idle \in BOOLEAN /\ tickets \in Nat
  /\ lobby \in Seq(Row) /\ Len(lobby) <= MaxLobbies
  /\ banned \subseteq Player /\ tx \in [Proc -> Request]
  /\ told \subseteq (1 .. MaxLobbies) \X Player
\* Every place was handed out.
PlacesGiven ==
  /\ \A p \in Player : queue[p] <= tickets
  /\ \A l \in Lobbies, p \in Player : lobby[l].at[p] <= tickets
\* A player is in one live game at most, and not in the queue beside it.
InOneGame ==
  /\ \A l, m \in Live : \A p \in Roster(l) \cap Roster(m) : l = m
  /\ \A l \in Live : \A p \in Roster(l) : queue[p] = 0
\* Who accepted is in the game, and so is whoever was told so.
AcceptedAreIn ==
  /\ \A l \in Lobbies : lobby[l].accepted \subseteq Roster(l)
  /\ \A l \in 1 .. MaxLobbies, p \in Player : <<l, p>> \in told => l \in Lobbies /\ p \in lobby[l].accepted
\* A locked row is one that its request is failing, and may.
LocksAreHeld ==
  \A l \in Lobbies : lobby[l].lock # None =>
    LET t == tx[lobby[l].lock] IN
    t.lobby = l /\ t.pc \in Held /\ lobby[l].status \in Cancellable(t.op)
\* What an open request relies on.
Fits(x) == LET t == tx[x]  l == tx[x].lobby  p == tx[x].player IN
  /\ l <= Len(lobby) /\ (t.pc \in Accepting \cup Failing \cup {"vote"} => l # 0)
  /\ t.pc \in Accepting => t.op = "accept" /\ p \in Roster(l)
  /\ t.pc \in Counted /\ ~t.wrote => p \in lobby[l].accepted
  /\ t.pc = "flip" => Pending(l) \subseteq {p}
  /\ t.pc = "vote" => Pending(l) = {}
  /\ t.pc \in Failing => t.op \in {"decline", "resolve", "cancel"}
  /\ t.pc \in Held => lobby[l].lock = x
  /\ t.pc = "requeue" => t.back \subseteq Roster(l) \ banned
  /\ t.pc = "ban" => /\ p \in Player
                     /\ IF l = 0 THEN t.seen.status = "none" ELSE t.seen.status \in Active /\ p \in Roster(l)

QueueInv ==
  /\ Typed /\ PlacesGiven /\ InOneGame /\ SlotsAreDistinct /\ BannedNeverQueued
  /\ AcceptedAreIn /\ LocksAreHeld /\ \A x \in Proc : Fits(x)

-----------------------------------------------------------------------------
(* The model's operators *)

LEMMA NoneApart == ASSUME QueueAssumption PROVE None \notin Player /\ None \notin Proc
BY DEF QueueAssumption

LEMMA LobbiesAre ==
  ASSUME Typed
  PROVE  /\ Lobbies = 1 .. Len(lobby) /\ Len(lobby) \in Nat
         /\ \A l \in Lobbies : lobby[l] \in Row /\ Roster(l) \subseteq Player
BY DEF Typed, Lobbies, Roster

LEMMA WaitingTyped ==
  ASSUME Typed
  PROVE  /\ Waiting \in [Player -> Nat]
         /\ \A p \in Player : Waiting[p] \in {0, queue[p]}
BY DEF Typed, Waiting

\* A request that ends relies on nothing.
LEMMA EndedFits ==
  ASSUME NEW x \in Proc, tx'[x] = NoTx, lobby' \in Seq(Row)
  PROVE  Fits(x)' /\ NoTx \in Request
BY DEF Fits, NoTx, Request, Seeing, Ops, Pcs, Accepting, Counted, Failing, Held

LEMMA EndsTyped ==
  ASSUME Typed, NEW x \in Proc, Ends(x)
  PROVE  /\ tx' \in [Proc -> Request] /\ tx'[x] = NoTx
         /\ \A y \in Proc : y # x => tx'[y] = tx[y]
<1>1. NoTx \in Request
  BY DEF NoTx, Request, Seeing, Ops, Pcs
<1>2. QED
  BY <1>1 DEF Typed, Ends

\* One row changes, and keeps its ten.
LEMMA RowChanges ==
  ASSUME Typed, NEW l \in Lobbies, NEW row \in Row, row.at = lobby[l].at,
         lobby' = [lobby EXCEPT ![l] = row]
  PROVE  /\ lobby' \in Seq(Row) /\ Len(lobby') = Len(lobby) /\ Lobbies' = Lobbies
         /\ lobby'[l] = row /\ \A m \in Lobbies : m # l => lobby'[m] = lobby[m]
         /\ \A m \in Lobbies : Roster(m)' = Roster(m)
<1>1. lobby \in Seq(Row) /\ l \in 1 .. Len(lobby)
  BY LobbiesAre DEF Typed
<1>2. /\ lobby' \in Seq(Row) /\ Len(lobby') = Len(lobby)
      /\ \A m \in 1 .. Len(lobby) : lobby'[m] = IF m = l THEN row ELSE lobby[m]
  BY <1>1, ExceptSeq
<1>3. Lobbies' = Lobbies
  BY <1>1, <1>2 DEF Lobbies
<1>4. lobby'[l] = row /\ \A m \in Lobbies : m # l => lobby'[m] = lobby[m]
  BY <1>1, <1>2 DEF Lobbies
<1>5. \A m \in Lobbies : Roster(m)' = Roster(m)
  BY <1>4 DEF Roster
<1>6. QED
  BY <1>2, <1>3, <1>4, <1>5

-----------------------------------------------------------------------------
(* What a step of each kind keeps *)

\* The queue moves: whoever gets a place may join.
LEMMA QueueMoves ==
  ASSUME QueueInv, UNCHANGED <<lobby, banned, tx, told>>,
         queue' \in [Player -> Nat], here' \subseteq Queued', idle' \in BOOLEAN,
         tickets' \in Nat, tickets <= tickets',
         \A p \in Player : /\ queue'[p] <= tickets'
                           /\ queue'[p] = 0 \/ queue'[p] = queue[p] \/ MayJoin(p)
  PROVE  QueueInv'
<1>1. Typed'
  BY DEF QueueInv, Typed
<1>2. PlacesGiven'
  <2>1. \A l \in Lobbies, p \in Player : lobby[l].at[p] \in Nat
    BY LobbiesAre DEF QueueInv, Row
  <2>2. QED
    BY <2>1 DEF QueueInv, Typed, PlacesGiven, Lobbies
<1>3. InOneGame'
  BY DEF QueueInv, InOneGame, Live, Lobbies, Roster, MayJoin, LobbyOf
<1>4. SlotsAreDistinct'
  BY DEF QueueInv, SlotsAreDistinct, Live, Lobbies
<1>5. BannedNeverQueued'
  BY DEF QueueInv, Typed, BannedNeverQueued, Queued, MayJoin
<1>6. (AcceptedAreIn /\ LocksAreHeld)'
  BY DEF QueueInv, AcceptedAreIn, LocksAreHeld, Lobbies, Roster
<1>7. \A x \in Proc : Fits(x)'
  BY DEF QueueInv, Fits, Pending, Roster
<1>8. QED
  BY <1>1, <1>2, <1>3, <1>4, <1>5, <1>6, <1>7 DEF QueueInv

\* An open request relies on its row, which keeps its ten, its accepts and, while
\* the request holds it, its lock; and on nobody it puts back being banned.
LEMMA FitsStays ==
  ASSUME QueueInv, NEW y \in Proc, tx'[y] = tx[y], Len(lobby') \in Nat, Len(lobby) <= Len(lobby'),
         tx[y].lobby \in Lobbies => LET l == tx[y].lobby IN
           /\ lobby'[l].at = lobby[l].at /\ lobby[l].accepted \subseteq lobby'[l].accepted
           /\ lobby'[l].lock = lobby[l].lock \/ tx[y].pc \notin Held,
         tx[y].pc = "requeue" => tx[y].back \cap banned' = {}
  PROVE  Fits(y)'
<1>1. Fits(y) /\ Len(lobby) \in Nat /\ Lobbies = 1 .. Len(lobby) /\ tx[y].lobby \in Nat
  BY LobbiesAre DEF QueueInv, Typed, Request
<1>2. CASE tx[y].lobby = 0
  BY <1>1, <1>2 DEF Fits, Accepting, Failing, Counted, Held
<1>3. CASE tx[y].lobby \in Lobbies
  BY <1>1, <1>3 DEF Fits, Pending, Roster
<1>4. QED
  BY <1>1, <1>2, <1>3 DEF Fits

\* One request moves.
LEMMA RequestMoves ==
  ASSUME QueueInv, NEW x \in Proc, UNCHANGED <<queue, here, idle, tickets, lobby, banned, told>>,
         tx' \in [Proc -> Request], \A y \in Proc : y # x => tx'[y] = tx[y],
         Fits(x)',
         tx[x].pc \in Held => tx'[x].pc \in Held /\ tx'[x].lobby = tx[x].lobby /\ tx'[x].op = tx[x].op
  PROVE  QueueInv'
<1>1. Typed'
  BY DEF QueueInv, Typed, Queued
<1>2. (PlacesGiven /\ InOneGame /\ SlotsAreDistinct /\ BannedNeverQueued /\ AcceptedAreIn)'
  BY DEF QueueInv, PlacesGiven, InOneGame, SlotsAreDistinct, BannedNeverQueued, AcceptedAreIn,
         Live, Lobbies, Roster, Queued
<1>3. LocksAreHeld'
  <2>1. \A l \in Lobbies : lobby[l].lock \in Proc \cup {None}
    BY LobbiesAre DEF QueueInv, Row
  <2>2. QED
    BY <2>1 DEF QueueInv, LocksAreHeld, Lobbies
<1>4. ASSUME NEW y \in Proc, y # x PROVE Fits(y)'
  <2>1. Len(lobby) \in Nat /\ tx'[y] = tx[y]
    BY <1>4 DEF QueueInv, Typed
  <2>2. tx[y].pc = "requeue" => tx[y].back \cap banned' = {}
    BY DEF QueueInv, Fits
  <2>3. QED
    BY <2>1, <2>2, FitsStays
<1>5. QED
  BY <1>1, <1>2, <1>3, <1>4 DEF QueueInv

\* One row changes: nobody's accept is lost, no closed game comes back, and a
\* locked row keeps its status.  At most one request ends with it.
LEMMA RowMoves ==
  ASSUME QueueAssumption, QueueInv, NEW l \in Lobbies, NEW row \in Row, lobby' = [lobby EXCEPT ![l] = row],
         row.at = lobby[l].at, row.slot = lobby[l].slot, row.lock = lobby[l].lock,
         lobby[l].accepted \subseteq row.accepted, row.accepted \subseteq Roster(l),
         row.status \in Active => lobby[l].status \in Active,
         row.status # lobby[l].status => Unlocked(l),
         UNCHANGED <<queue, here, idle, tickets, banned>>,
         \A e \in told' : e \in told \/ \E p \in row.accepted : e = <<l, p>>,
         UNCHANGED tx \/ \E x \in Proc : tx[x].pc \notin Held /\ Ends(x)
  PROVE  QueueInv'
<1>1. /\ lobby' \in Seq(Row) /\ Len(lobby') = Len(lobby) /\ Lobbies' = Lobbies
      /\ lobby'[l] = row /\ \A m \in Lobbies : m # l => lobby'[m] = lobby[m]
      /\ \A m \in Lobbies : Roster(m)' = Roster(m)
  BY RowChanges DEF QueueInv
<1>2. /\ Lobbies = 1 .. Len(lobby) /\ Len(lobby) \in Nat /\ Len(lobby) <= MaxLobbies
      /\ \A m \in Lobbies : lobby[m] \in Row /\ Roster(m) \subseteq Player
  BY LobbiesAre DEF QueueInv, Typed
<1>3. tx' \in [Proc -> Request] /\ \A y \in Proc : tx'[y] = tx[y] \/ (tx[y].pc \notin Held /\ tx'[y] = NoTx)
  BY EndsTyped DEF QueueInv, Typed
<1>4. Typed'
  <2>1. told' \subseteq (1 .. MaxLobbies) \X Player
    <3>1. l \in 1 .. MaxLobbies /\ row.accepted \subseteq Player
      BY <1>2 DEF QueueInv, Typed, QueueAssumption
    <3>2. QED
      BY <3>1 DEF QueueInv, Typed
  <2>2. QED
    BY <1>1, <1>3, <2>1 DEF QueueInv, Typed, Queued
<1>5. Live' \subseteq Live /\ \A m \in Lobbies : lobby'[m].slot = lobby[m].slot
  BY <1>1 DEF Live
<1>6. (PlacesGiven /\ BannedNeverQueued)'
  BY <1>1 DEF QueueInv, PlacesGiven, BannedNeverQueued, Queued
<1>7. InOneGame' /\ SlotsAreDistinct'
  BY <1>1, <1>5 DEF QueueInv, InOneGame, SlotsAreDistinct, Live
<1>8. AcceptedAreIn'
  <2>1. \A m \in Lobbies : lobby[m].accepted \subseteq lobby'[m].accepted /\ lobby'[m].accepted \subseteq Roster(m)
    BY <1>1 DEF QueueInv, AcceptedAreIn
  <2>2. QED
    BY <1>1, <2>1 DEF QueueInv, AcceptedAreIn
<1>9. LocksAreHeld'
  <2>1. SUFFICES ASSUME NEW m \in Lobbies, lobby'[m].lock # None
                 PROVE  LET t == tx'[lobby'[m].lock] IN
                        t.lobby = m /\ t.pc \in Held /\ lobby'[m].status \in Cancellable(t.op)
    BY <1>1 DEF LocksAreHeld
  <2>2. lobby'[m].lock = lobby[m].lock /\ lobby'[m].status = lobby[m].status
    BY <1>1, <2>1 DEF Unlocked
  <2>3. lobby[m].lock \in Proc
    BY <1>2, <2>1, <2>2 DEF Row
  <2>4. tx'[lobby[m].lock] = tx[lobby[m].lock]
    BY <1>3, <2>1, <2>2, <2>3 DEF QueueInv, LocksAreHeld
  <2>5. QED
    BY <2>1, <2>2, <2>4 DEF QueueInv, LocksAreHeld
<1>10. ASSUME NEW y \in Proc PROVE Fits(y)'
  <2>1. CASE tx'[y] = NoTx
    BY <1>1, <2>1, EndedFits
  <2>2. CASE tx'[y] = tx[y]
    <3>1. \A m \in Lobbies : /\ lobby'[m].at = lobby[m].at /\ lobby'[m].lock = lobby[m].lock
                             /\ lobby[m].accepted \subseteq lobby'[m].accepted
      BY <1>1
    <3>2. tx[y].pc = "requeue" => tx[y].back \cap banned' = {}
      BY DEF QueueInv, Fits
    <3>3. QED
      BY <1>1, <1>2, <2>2, <3>1, <3>2, FitsStays
  <2>3. QED
    BY <1>3, <2>1, <2>2
<1>11. QED
  BY <1>4, <1>6, <1>7, <1>8, <1>9, <1>10 DEF QueueInv

-----------------------------------------------------------------------------
(* The queue's steps *)

LEMMA QueueStepKeeps ==
  ASSUME QueueInv, NEW p \in Player, Join(p) \/ Leave(p) \/ Heartbeat(p) \/ GoesAway(p)
  PROVE  QueueInv'
<1>1. /\ queue \in [Player -> Nat] /\ here \subseteq Queued /\ idle \in BOOLEAN /\ tickets \in Nat
      /\ \A q \in Player : queue[q] <= tickets
  BY DEF QueueInv, Typed, PlacesGiven
<1>2. Waiting \in [Player -> Nat] /\ \A q \in Player : Waiting[q] \in {0, queue[q]}
  BY WaitingTyped DEF QueueInv
<1>3. CASE Join(p)
  <2>1. UNCHANGED <<lobby, banned, tx, told>> /\ MayJoin(p)
    BY <1>3 DEF Join
  <2>2. CASE Waiting[p] > 0
    <3>1. UNCHANGED <<queue, tickets, idle>> /\ here' = {q \in here : queue'[q] > 0} \cup {p}
      BY <1>3, <2>2 DEF Join
    <3>2. here' \subseteq Queued'
      BY <1>1, <1>2, <2>2, <3>1 DEF Queued
    <3>3. QED
      BY <1>1, <2>1, <3>1, <3>2, QueueMoves
  <2>3. CASE ~(Waiting[p] > 0)
    <3>1. /\ tickets' = tickets + 1 /\ queue' = [Waiting EXCEPT ![p] = tickets + 1]
          /\ idle' = FALSE /\ here' = {q \in here : queue'[q] > 0} \cup {p}
      BY <1>3, <2>3 DEF Join
    <3>2. /\ queue' \in [Player -> Nat] /\ queue'[p] = tickets + 1
          /\ \A q \in Player : q # p => queue'[q] \in {0, queue[q]}
      BY <1>1, <1>2, <3>1
    <3>3. here' \subseteq Queued'
      BY <1>1, <3>1, <3>2 DEF Queued
    <3>4. \A q \in Player : queue'[q] <= tickets' /\ (queue'[q] = 0 \/ queue'[q] = queue[q] \/ MayJoin(q))
      BY <1>1, <2>1, <3>1, <3>2
    <3>5. tickets' \in Nat /\ tickets <= tickets'
      BY <1>1, <3>1
    <3>6. idle' \in BOOLEAN
      BY <3>1
    <3>7. QED
      BY <2>1, <3>2, <3>3, <3>4, <3>5, <3>6, QueueMoves
  <2>4. QED
    BY <2>2, <2>3
<1>4. CASE Leave(p)
  <2>1. /\ queue' = [Waiting EXCEPT ![p] = 0] /\ here' = {q \in here : queue'[q] > 0}
        /\ idle' = FALSE /\ UNCHANGED <<tickets, lobby, banned, tx, told>>
    BY <1>4 DEF Leave
  <2>2. queue' \in [Player -> Nat] /\ \A q \in Player : queue'[q] \in {0, queue[q]}
    BY <1>2, <2>1
  <2>3. here' \subseteq Queued'
    BY <1>1, <2>1 DEF Queued
  <2>4. \A q \in Player : queue'[q] <= tickets' /\ (queue'[q] = 0 \/ queue'[q] = queue[q] \/ MayJoin(q))
    BY <1>1, <2>1, <2>2
  <2>5. idle' \in BOOLEAN /\ UNCHANGED <<lobby, banned, tx, told>>
    BY <2>1
  <2>6. tickets' \in Nat /\ tickets <= tickets'
    BY <1>1, <2>1
  <2>7. QED
    BY <2>2, <2>3, <2>4, <2>5, <2>6, QueueMoves
<1>5. CASE Heartbeat(p) \/ GoesAway(p)
  <2>1. here' \subseteq Queued' /\ UNCHANGED <<queue, idle, tickets, lobby, banned, tx, told>>
    BY <1>1, <1>5 DEF Heartbeat, GoesAway, Queued
  <2>2. QED
    BY <1>1, <2>1, QueueMoves
<1>6. QED
  BY <1>3, <1>4, <1>5

LEMMA IdlingKeeps == ASSUME QueueInv, QueueIdles \/ Expires PROVE QueueInv'
<1>1. /\ queue \in [Player -> Nat] /\ here \subseteq Queued /\ tickets \in Nat
      /\ \A q \in Player : queue[q] <= tickets
  BY DEF QueueInv, Typed, PlacesGiven
<1>2. Waiting \in [Player -> Nat] /\ \A q \in Player : Waiting[q] \in {0, queue[q]}
  BY WaitingTyped DEF QueueInv
<1>3. /\ queue' \in {queue, Waiting} /\ here' \in {here, {}} /\ idle' \in BOOLEAN
      /\ UNCHANGED <<tickets, lobby, banned, tx, told>> /\ (queue' = queue \/ here' = {})
  BY DEF QueueIdles, Expires
<1>4. here' \subseteq Queued'
  BY <1>1, <1>3 DEF Queued
<1>5. queue' \in [Player -> Nat] /\ \A q \in Player : queue'[q] \in {0, queue[q]}
  BY <1>1, <1>2, <1>3
<1>6. QED
  BY <1>1, <1>3, <1>4, <1>5, QueueMoves

\* The ten it takes were queued, and nowhere else; the slot it takes was free.
LEMMA FormTakes ==
  ASSUME QueueAssumption, QueueInv, Form
  PROVE  LET S == First(Waiting) IN
         /\ ~idle /\ S \subseteq Queued /\ S \subseteq Player
         /\ queue' = [p \in Player |-> IF p \in S THEN 0 ELSE queue[p]]
         /\ here' = here \ S /\ idle' = FALSE
         /\ Min(FreeSlots) \in FreeSlots
<1> DEFINE S == First(Waiting)
<1>1. S # {}
  BY FS_EmptySet DEF Form, QueueAssumption
<1>2. here \subseteq Queued /\ \A q \in Player : Waiting[q] \in {0, queue[q]}
  BY WaitingTyped DEF QueueInv, Typed
<1>3. S \subseteq here /\ \A p \in S : Waiting[p] > 0
  BY DEF First, Present
<1>4. S \subseteq Player
  BY <1>2, <1>3 DEF Queued
<1>5. ~idle
  <2>1. PICK p \in S : TRUE
    BY <1>1
  <2>2. p \in Player /\ Waiting[p] > 0
    BY <1>3, <1>4
  <2>3. QED
    BY <2>2 DEF Waiting
<1>6. Min(FreeSlots) \in FreeSlots
  <2>1. FreeSlots \in SUBSET Nat /\ FreeSlots \subseteq 1 .. MaxLiveGames /\ FreeSlots # {}
    BY DEF Form, FreeSlots
  <2>2. QED
    BY <2>1, MinIs
<1>7. /\ queue' = [p \in Player |-> IF p \in S THEN 0 ELSE queue[p]]
      /\ here' = here \ S /\ idle' = FALSE
  BY DEF Form
<1>8. QED
  BY <1>2, <1>3, <1>4, <1>5, <1>6, <1>7

\* The new game is the last one.
LEMMA FormAdds ==
  ASSUME QueueAssumption, QueueInv, Form
  PROVE  \E n \in Nat, row \in Row :
           /\ n = Len(lobby) + 1 /\ n \notin Lobbies /\ n <= MaxLobbies /\ Lobbies' = Lobbies \cup {n}
           /\ lobby' = Append(lobby, row) /\ lobby' \in Seq(Row) /\ Len(lobby') = n
           /\ lobby'[n] = row /\ \A m \in Lobbies : lobby'[m] = lobby[m]
           /\ row.status = "READY_CHECK" /\ row.slot \in FreeSlots /\ row.lock = None /\ row.accepted = {}
           /\ row.at = [p \in Player |-> IF p \in First(Waiting) THEN queue[p] ELSE 0]
<1> DEFINE S == First(Waiting)
           n == Len(lobby) + 1
           row == [status |-> "READY_CHECK", slot |-> Min(FreeSlots), due |-> FALSE, lock |-> None,
                   accepted |-> {}, at |-> [p \in Player |-> IF p \in S THEN queue[p] ELSE 0]]
<1>1. Min(FreeSlots) \in FreeSlots
  BY FormTakes
<1>2. lobby' = Append(lobby, row) /\ Len(lobby) < MaxLobbies
  BY DEF Form
<1> HIDE DEF S
<1>3. /\ queue \in [Player -> Nat] /\ lobby \in Seq(Row) /\ Len(lobby) \in Nat
      /\ Lobbies = 1 .. Len(lobby)
  BY LobbiesAre DEF QueueInv, Typed
<1>4. row \in Row
  <2>1. Min(FreeSlots) \in 1 .. MaxLiveGames
    BY <1>1 DEF FreeSlots
  <2>2. [p \in Player |-> IF p \in S THEN queue[p] ELSE 0] \in [Player -> Nat]
    BY <1>3
  <2>3. QED
    BY <2>1, <2>2 DEF Row, Statuses, Active
<1>5. /\ row.status = "READY_CHECK" /\ row.slot \in FreeSlots /\ row.lock = None /\ row.accepted = {}
      /\ row.at = [p \in Player |-> IF p \in S THEN queue[p] ELSE 0]
  BY <1>1
<1> HIDE DEF row
<1>6. /\ lobby' \in Seq(Row) /\ Len(lobby') = n /\ lobby'[n] = row
      /\ \A m \in Lobbies : lobby'[m] = lobby[m]
  BY <1>2, <1>3, <1>4, AppendProperties
<1>7. Lobbies' = Lobbies \cup {n} /\ n \notin Lobbies /\ n \in Nat /\ n <= MaxLobbies
  BY <1>2, <1>3, <1>4, <1>6, AppendProperties DEF Lobbies, QueueAssumption
<1>8. QED
  BY <1>2, <1>4, <1>5, <1>6, <1>7 DEF S

LEMMA FormKeeps == ASSUME QueueAssumption, QueueInv, Form PROVE QueueInv'
<1> DEFINE S == First(Waiting)
<1>1. /\ S \subseteq Queued /\ S \subseteq Player /\ here' = here \ S /\ idle' = FALSE
      /\ queue' = [p \in Player |-> IF p \in S THEN 0 ELSE queue[p]]
  BY FormTakes
<1>2. UNCHANGED <<tickets, banned, tx, told>>
  BY DEF Form
<1>3. /\ queue \in [Player -> Nat] /\ here \subseteq Queued /\ tickets \in Nat
      /\ Len(lobby) \in Nat /\ Lobbies = 1 .. Len(lobby)
      /\ \A m \in Lobbies : lobby[m] \in Row
      /\ \A q \in Player : queue[q] <= tickets
  BY LobbiesAre DEF QueueInv, Typed, PlacesGiven
<1>4. PICK n \in Nat, row \in Row :
        /\ n = Len(lobby) + 1 /\ n \notin Lobbies /\ n <= MaxLobbies /\ Lobbies' = Lobbies \cup {n}
        /\ lobby' = Append(lobby, row) /\ lobby' \in Seq(Row) /\ Len(lobby') = n
        /\ lobby'[n] = row /\ \A m \in Lobbies : lobby'[m] = lobby[m]
        /\ row.status = "READY_CHECK" /\ row.slot \in FreeSlots /\ row.lock = None /\ row.accepted = {}
        /\ row.at = [p \in Player |-> IF p \in S THEN queue[p] ELSE 0]
  BY FormAdds
<1> HIDE DEF S
<1>5. Live' = Live \cup {n}
  BY <1>4 DEF Live, Active
<1>6. Roster(n)' = S /\ \A m \in Lobbies : Roster(m)' = Roster(m)
  <2>1. Roster(n)' = S
    BY <1>1, <1>3, <1>4 DEF Roster, Queued
  <2>2. \A m \in Lobbies : Roster(m)' = Roster(m)
    BY <1>4 DEF Roster
  <2>3. QED
    BY <2>1, <2>2
<1>7. queue' \in [Player -> Nat] /\ \A p \in Player : queue'[p] \in {0, queue[p]} /\ (p \in S => queue'[p] = 0)
  BY <1>1, <1>3
<1>8. Typed'
  <2>1. here' \subseteq Queued'
    BY <1>1, <1>3 DEF Queued
  <2>2. Len(lobby') <= MaxLobbies
    BY <1>4
  <2>3. QED
    BY <1>1, <1>2, <1>4, <1>7, <2>1, <2>2 DEF QueueInv, Typed
<1>9. PlacesGiven'
  <2>1. \A p \in Player : queue'[p] <= tickets' /\ row.at[p] <= tickets'
    BY <1>2, <1>3, <1>4, <1>7
  <2>2. QED
    BY <1>2, <1>4, <2>1 DEF QueueInv, PlacesGiven
<1>10. InOneGame'
  <2>1. \A m \in Live : Roster(m) \cap S = {}
    BY <1>1, <1>3 DEF QueueInv, InOneGame, Queued, Live
  <2>2. Live \subseteq Lobbies
    BY DEF Live
  <2>3. ASSUME NEW l \in Live', NEW m \in Live', NEW p \in Roster(l)' \cap Roster(m)' PROVE l = m
    BY <1>5, <1>6, <2>1, <2>2, <2>3 DEF QueueInv, InOneGame
  <2>4. ASSUME NEW l \in Live', NEW p \in Roster(l)' PROVE queue'[p] = 0
    <3>1. p \in Player
      BY <2>4 DEF Roster
    <3>2. QED
      BY <1>5, <1>6, <1>7, <2>2, <2>4, <3>1 DEF QueueInv, InOneGame
  <2>5. QED
    BY <2>3, <2>4 DEF InOneGame
<1>11. SlotsAreDistinct'
  <2>1. \A m \in Live : lobby[m].slot # row.slot /\ m \in Lobbies
    BY <1>4 DEF FreeSlots, Live
  <2>2. lobby'[n].slot = row.slot /\ \A m \in Live : lobby'[m].slot = lobby[m].slot
    BY <1>4, <2>1
  <2>3. QED
    BY <1>5, <2>1, <2>2 DEF QueueInv, SlotsAreDistinct
<1>12. BannedNeverQueued'
  BY <1>2, <1>3, <1>7 DEF QueueInv, BannedNeverQueued, Queued
<1>13. AcceptedAreIn'
  <2>1. \A m \in Lobbies : lobby'[m].accepted \subseteq Roster(m)'
    <3>1. \A m \in Lobbies : lobby[m].accepted \subseteq Roster(m)
      BY DEF QueueInv, AcceptedAreIn
    <3>2. QED
      BY <1>4, <1>6, <3>1
  <2>2. lobby'[n].accepted \subseteq Roster(n)'
    BY <1>4
  <2>3. \A l \in 1 .. MaxLobbies, p \in Player :
          <<l, p>> \in told' => l \in Lobbies' /\ p \in lobby'[l].accepted
    BY <1>2, <1>4 DEF QueueInv, AcceptedAreIn
  <2>4. QED
    BY <1>4, <2>1, <2>2, <2>3 DEF AcceptedAreIn
<1>14. LocksAreHeld'
  <2>1. SUFFICES ASSUME NEW m \in Lobbies', lobby'[m].lock # None
                 PROVE  LET t == tx'[lobby'[m].lock] IN
                        t.lobby = m /\ t.pc \in Held /\ lobby'[m].status \in Cancellable(t.op)
    BY DEF LocksAreHeld
  <2>2. m \in Lobbies /\ lobby'[m] = lobby[m]
    BY <1>4, <2>1
  <2>3. QED
    BY <1>2, <2>1, <2>2 DEF QueueInv, LocksAreHeld
<1>15. ASSUME NEW y \in Proc PROVE Fits(y)'
  <2>1. tx[y].pc = "requeue" => tx[y].back \cap banned' = {}
    BY <1>2 DEF QueueInv, Fits
  <2>2. QED
    BY <1>2, <1>3, <1>4, <2>1, FitsStays
<1>16. QED
  BY <1>8, <1>9, <1>10, <1>11, <1>12, <1>13, <1>14, <1>15 DEF QueueInv

-----------------------------------------------------------------------------
(* The steps of a request that write no row *)

\* One that begins.
LEMMA BeginsKeeps ==
  ASSUME QueueInv, NEW x \in Proc, tx[x].pc = "idle",
         UNCHANGED <<queue, here, idle, tickets, lobby, banned, told>>,
         NEW t \in Request, tx' = [tx EXCEPT ![x] = t],
         t.lobby <= Len(lobby), t.wrote = FALSE,
         \/ t.pc \in {"claim", "fail", "vote"} /\ t.lobby # 0
         \/ t.pc = "ban",
         t.pc = "claim" => t.op = "accept" /\ t.player \in Roster(t.lobby),
         t.pc = "vote" => Pending(t.lobby) = {},
         t.pc = "fail" => t.op \in {"decline", "resolve", "cancel"},
         t.pc = "ban" => /\ t.player \in Player
                         /\ IF t.lobby = 0 THEN t.seen.status = "none"
                            ELSE t.seen.status \in Active /\ t.player \in Roster(t.lobby)
  PROVE  QueueInv'
<1>1. /\ tx' \in [Proc -> Request] /\ tx'[x] = t
      /\ \A y \in Proc : y # x => tx'[y] = tx[y]
  BY DEF QueueInv, Typed
<1>2. tx[x].pc \notin Held
  BY DEF Held
<1>3. Fits(x)'
  BY <1>1 DEF Fits, Accepting, Failing, Counted, Held, Pending, Roster
<1>4. QED
  BY <1>1, <1>2, <1>3, RequestMoves

\* As Begins begins it.
Fresh(op, pc, p, l) == [NoTx EXCEPT !.op = op, !.pc = pc, !.player = p, !.lobby = l]
LEMMA ReadsKeep ==
  ASSUME QueueInv, NEW x \in Proc, NEW l \in 1 .. MaxLobbies,
         \/ \E p \in Player : AcceptReads(x, p, l) \/ DeclineReads(x, p, l)
         \/ ResolverReads(x, l) \/ CancelReads(x, l)
  PROVE  QueueInv'
<1>1. Lobbies = 1 .. Len(lobby) /\ Len(lobby) \in Nat
  BY LobbiesAre DEF QueueInv
<1>2. ASSUME NEW p \in Player, AcceptReads(x, p, l) PROVE QueueInv'
  <2> DEFINE t == Fresh("accept", "claim", p, l)
  <2>0. l \in Nat /\ l \in Lobbies
    BY <1>2 DEF AcceptReads
  <2>1. /\ t \in Request /\ t.wrote = FALSE /\ t.lobby <= Len(lobby) /\ l # 0
        /\ t.op = "accept" /\ t.pc = "claim" /\ t.player = p /\ t.lobby = l
    <3>1. "accept" \in Ops /\ "claim" \in Pcs /\ p \in Player \cup {None}
      BY DEF Ops, Pcs, Accepting, Failing
    <3>2. /\ t \in Request /\ t.wrote = FALSE
          /\ t.op = "accept" /\ t.pc = "claim" /\ t.player = p /\ t.lobby = l
      BY <2>0, <3>1 DEF Fresh, NoTx, Request, Seeing
    <3>3. QED
      BY <1>1, <2>0, <3>2
  <2>2. /\ tx[x].pc = "idle" /\ l \in Lobbies /\ p \in Roster(l) /\ tx' = [tx EXCEPT ![x] = t]
        /\ UNCHANGED <<queue, here, idle, tickets, lobby, banned, told>>
    BY <1>2 DEF AcceptReads, Begins, Fresh
  <2> HIDE DEF t
  <2>3. QED
    BY <1>1, <2>1, <2>2, BeginsKeeps
<1>3. ASSUME NEW p \in Player, DeclineReads(x, p, l) PROVE QueueInv'
  <2> DEFINE t == Fresh("decline", "fail", p, l)
  <2>0. l \in Nat /\ l \in Lobbies
    BY <1>3 DEF DeclineReads
  <2>1. /\ t \in Request /\ t.wrote = FALSE /\ t.lobby <= Len(lobby) /\ l # 0
        /\ t.op = "decline" /\ t.pc = "fail" /\ t.player = p /\ t.lobby = l
    <3>1. "decline" \in Ops /\ "fail" \in Pcs /\ p \in Player \cup {None}
      BY DEF Ops, Pcs, Accepting, Failing
    <3>2. /\ t \in Request /\ t.wrote = FALSE
          /\ t.op = "decline" /\ t.pc = "fail" /\ t.player = p /\ t.lobby = l
      BY <2>0, <3>1 DEF Fresh, NoTx, Request, Seeing
    <3>3. QED
      BY <1>1, <2>0, <3>2
  <2>2. /\ tx[x].pc = "idle" /\ l \in Lobbies /\ tx' = [tx EXCEPT ![x] = t]
        /\ UNCHANGED <<queue, here, idle, tickets, lobby, banned, told>>
    BY <1>3 DEF DeclineReads, Begins, Fresh
  <2> HIDE DEF t
  <2>3. QED
    BY <1>1, <2>1, <2>2, BeginsKeeps
<1>4. CASE ResolverReads(x, l)
  <2> DEFINE t == Fresh("resolve", Verdict(l), None, l)
  <2>0. l \in Nat /\ l \in Lobbies
    BY <1>4 DEF ResolverReads
  <2>1. Verdict(l) \in {"vote", "fail"} /\ (Verdict(l) = "vote" => Pending(l) = {})
    BY <1>4 DEF ResolverReads, Verdict
  <2>2. /\ t \in Request /\ t.wrote = FALSE /\ t.lobby <= Len(lobby) /\ l # 0
        /\ t.op = "resolve" /\ t.pc = Verdict(l) /\ t.player = None /\ t.lobby = l
    <3>1. "resolve" \in Ops /\ Verdict(l) \in Pcs /\ None \in Player \cup {None}
      BY <2>1 DEF Ops, Pcs, Accepting, Failing
    <3>2. /\ t \in Request /\ t.wrote = FALSE
          /\ t.op = "resolve" /\ t.pc = Verdict(l) /\ t.player = None /\ t.lobby = l
      BY <2>0, <3>1 DEF Fresh, NoTx, Request, Seeing
    <3>3. QED
      BY <1>1, <2>0, <3>2
  <2>3. /\ tx[x].pc = "idle" /\ l \in Lobbies /\ tx' = [tx EXCEPT ![x] = t]
        /\ UNCHANGED <<queue, here, idle, tickets, lobby, banned, told>>
    BY <1>4 DEF ResolverReads, Begins, Fresh
  <2> HIDE DEF t
  <2>4. QED
    BY <1>1, <2>1, <2>2, <2>3, BeginsKeeps
<1>5. CASE CancelReads(x, l)
  <2> DEFINE t == Fresh("cancel", "fail", None, l)
  <2>0. l \in Nat /\ l \in Lobbies
    BY <1>5 DEF CancelReads, Live
  <2>1. /\ t \in Request /\ t.wrote = FALSE /\ t.lobby <= Len(lobby) /\ l # 0
        /\ t.op = "cancel" /\ t.pc = "fail" /\ t.player = None /\ t.lobby = l
    <3>1. "cancel" \in Ops /\ "fail" \in Pcs /\ None \in Player \cup {None}
      BY DEF Ops, Pcs, Accepting, Failing
    <3>2. /\ t \in Request /\ t.wrote = FALSE
          /\ t.op = "cancel" /\ t.pc = "fail" /\ t.player = None /\ t.lobby = l
      BY <2>0, <3>1 DEF Fresh, NoTx, Request, Seeing
    <3>3. QED
      BY <1>1, <2>0, <3>2
  <2>2. /\ tx[x].pc = "idle" /\ l \in Lobbies /\ tx' = [tx EXCEPT ![x] = t]
        /\ UNCHANGED <<queue, here, idle, tickets, lobby, banned, told>>
    BY <1>5 DEF CancelReads, Begins, Fresh, Live
  <2> HIDE DEF t
  <2>3. QED
    BY <1>1, <2>1, <2>2, BeginsKeeps
<1>6. QED
  BY <1>2, <1>3, <1>4, <1>5

\* The game a player is seen in is one they are in.
LEMMA SeenWell ==
  ASSUME QueueInv, NEW p \in Player
  PROVE  /\ LiveLobbyOf(p) \in Nat /\ LiveLobbyOf(p) <= Len(lobby) /\ SeenBy(p) \in Seeing
         /\ IF LobbyOf(p) = {} THEN LiveLobbyOf(p) = 0 /\ SeenBy(p).status = "none"
            ELSE /\ LiveLobbyOf(p) \in LobbyOf(p) /\ LiveLobbyOf(p) # 0
                 /\ SeenBy(p).status \in Active
<1>1. /\ Lobbies = 1 .. Len(lobby) /\ Len(lobby) \in Nat /\ queue[p] \in Nat
      /\ LobbyOf(p) \subseteq Lobbies
  BY LobbiesAre DEF QueueInv, Typed, LobbyOf, Live
<1>2. CASE LobbyOf(p) = {}
  BY <1>1, <1>2 DEF LiveLobbyOf, SeenBy, Seeing
<1>3. CASE LobbyOf(p) # {}
  <2>1. LobbyOf(p) \in SUBSET Nat
    BY <1>1
  <2>2. LiveLobbyOf(p) \in LobbyOf(p)
    BY <1>3, <2>1, MinIs DEF LiveLobbyOf
  <2>3. lobby[LiveLobbyOf(p)].status \in Active
    BY <2>2 DEF LobbyOf, Live
  <2>4. QED
    BY <1>1, <1>3, <2>2, <2>3 DEF SeenBy, Seeing
<1>4. QED
  BY <1>2, <1>3

LEMMA BanReadsKeeps ==
  ASSUME QueueInv, NEW x \in Proc, NEW p \in Player, BanReads(x, p)
  PROVE  QueueInv'
<1> DEFINE t == [NoTx EXCEPT !.op = "ban", !.pc = "ban", !.player = p,
                             !.lobby = LiveLobbyOf(p), !.seen = SeenBy(p)]
<1>1. /\ LiveLobbyOf(p) \in Nat /\ LiveLobbyOf(p) <= Len(lobby) /\ SeenBy(p) \in Seeing
      /\ IF LiveLobbyOf(p) = 0 THEN SeenBy(p).status = "none"
         ELSE SeenBy(p).status \in Active /\ p \in Roster(LiveLobbyOf(p))
  BY SeenWell DEF LobbyOf
<1>2. /\ t \in Request /\ t.wrote = FALSE /\ t.seen = SeenBy(p)
      /\ t.op = "ban" /\ t.pc = "ban" /\ t.player = p /\ t.lobby = LiveLobbyOf(p)
  BY <1>1 DEF NoTx, Request, Ops, Pcs
<1>3. /\ tx[x].pc = "idle" /\ tx' = [tx EXCEPT ![x] = t]
      /\ UNCHANGED <<queue, here, idle, tickets, lobby, banned, told>>
  BY DEF BanReads
<1> HIDE DEF t
<1>4. QED
  BY <1>1, <1>2, <1>3, BeginsKeeps

\* An accept's claim and count, a claim that came too late, and the reading of who
\* goes back.
LEMMA ClaimKeeps ==
  ASSUME QueueInv, NEW x \in Proc, AcceptClaims(x)
  PROVE  QueueInv'
<1> DEFINE l == tx[x].lobby
           p == tx[x].player
<1>1. /\ tx[x] \in Request /\ tx[x].pc = "claim" /\ tx[x].op = "accept" /\ Fits(x)
      /\ UNCHANGED <<queue, here, idle, tickets, lobby, banned, told>>
  BY DEF AcceptClaims, QueueInv, Typed
<1>2. tx[x].pc \notin Held
  BY <1>1 DEF Held
<1>3. CASE lobby[l].status = "READY_CHECK"
  <2> DEFINE t == [tx[x] EXCEPT !.pc = "count", !.wrote = p \notin lobby[l].accepted]
  <2>1. tx' = [tx EXCEPT ![x] = t]
    BY <1>3 DEF AcceptClaims
  <2>2. t \in Request
    <3>1. (p \notin lobby[l].accepted) \in BOOLEAN /\ "count" \in Pcs
      BY DEF Pcs, Accepting, Counted
    <3>2. QED
      BY <1>1, <3>1, Zenon DEF Request
  <2>3. /\ t.pc = "count" /\ t.wrote = (p \notin lobby[l].accepted)
        /\ t.op = "accept" /\ t.player = p /\ t.lobby = l
    BY <1>1 DEF Request
  <2> HIDE DEF t
  <2>4. tx' \in [Proc -> Request] /\ tx'[x] = t /\ \A y \in Proc : y # x => tx'[y] = tx[y]
    BY <2>1, <2>2 DEF QueueInv, Typed
  <2>5. Fits(x)'
    BY <1>1, <2>3, <2>4 DEF Fits, Accepting, Counted, Failing, Held, Roster
  <2>6. QED
    BY <1>1, <1>2, <2>4, <2>5, RequestMoves
<1>4. CASE lobby[l].status # "READY_CHECK"
  <2>1. Ends(x)
    BY <1>4 DEF AcceptClaims
  <2>2. QED
    BY <1>1, <1>2, <2>1, EndsTyped, EndedFits, RequestMoves DEF QueueInv, Typed
<1>5. QED
  BY <1>3, <1>4

LEMMA CountKeeps ==
  ASSUME QueueInv, NEW x \in Proc, AcceptCounts(x)
  PROVE  QueueInv'
<1> DEFINE l == tx[x].lobby
           pc == IF Pending(l) \subseteq {tx[x].player} THEN "flip" ELSE "commit"
           t == [tx[x] EXCEPT !.pc = pc]
<1>1. /\ tx[x] \in Request /\ tx[x].pc = "count" /\ tx[x].op = "accept" /\ Fits(x)
      /\ UNCHANGED <<queue, here, idle, tickets, lobby, banned, told>>
      /\ tx' = [tx EXCEPT ![x] = t]
  BY DEF AcceptCounts, QueueInv, Typed
<1>2. pc \in Pcs
  BY DEF Pcs, Accepting, Counted
<1>3. pc = "flip" => Pending(l) \subseteq {tx[x].player}
  OBVIOUS
<1>4. pc \in {"flip", "commit"}
  OBVIOUS
<1> HIDE DEF pc
<1>5. t \in Request
  BY <1>1, <1>2, Zenon DEF Request
<1>6. /\ t.pc = pc /\ t.wrote = tx[x].wrote /\ t.op = "accept"
      /\ t.player = tx[x].player /\ t.lobby = l
  BY <1>1 DEF Request
<1> HIDE DEF t
<1>7. tx' \in [Proc -> Request] /\ tx'[x] = t /\ \A y \in Proc : y # x => tx'[y] = tx[y]
  BY <1>1, <1>5 DEF QueueInv, Typed
<1>8. Fits(x)'
  BY <1>1, <1>3, <1>4, <1>6, <1>7 DEF Fits, Accepting, Counted, Failing, Held, Pending, Roster
<1>9. QED
  BY <1>1, <1>7, <1>8, RequestMoves DEF Held

LEMMA RereadKeeps ==
  ASSUME QueueInv, NEW x \in Proc, FailRereads(x)
  PROVE  QueueInv'
<1> DEFINE l == tx[x].lobby
           fresh == IF tx[x].op = "cancel" THEN {} ELSE lobby[l].accepted
           t == [tx[x] EXCEPT !.pc = "requeue", !.back = GoBack(x), !.fresh = fresh]
<1>1. /\ tx[x] \in Request /\ tx[x].pc = "held" /\ Fits(x)
      /\ UNCHANGED <<queue, here, idle, tickets, lobby, banned, told>>
      /\ tx' = [tx EXCEPT ![x] = t]
  BY DEF FailRereads, QueueInv, Typed
<1>2. l \in Lobbies /\ Roster(l) \subseteq Player /\ lobby[l].accepted \subseteq Roster(l)
  BY <1>1, LobbiesAre DEF QueueInv, AcceptedAreIn, Fits, Failing, Held, Request
<1>3. GoBack(x) \subseteq Roster(l) \ banned /\ GoBack(x) \in SUBSET Player
  BY <1>2 DEF GoBack
<1>4. fresh \in SUBSET Player /\ "requeue" \in Pcs
  BY <1>2 DEF Pcs, Failing, Held
<1> HIDE DEF fresh
<1>5. t \in Request
  BY <1>1, <1>3, <1>4, Zenon DEF Request
<1>6. /\ t.pc = "requeue" /\ t.back = GoBack(x) /\ t.op = tx[x].op
      /\ t.player = tx[x].player /\ t.lobby = l
  BY <1>1 DEF Request
<1> HIDE DEF t
<1>7. tx' \in [Proc -> Request] /\ tx'[x] = t /\ \A y \in Proc : y # x => tx'[y] = tx[y]
  BY <1>1, <1>5 DEF QueueInv, Typed
<1>8. Fits(x)'
  BY <1>1, <1>3, <1>6, <1>7 DEF Fits, Accepting, Counted, Failing, Held, Roster
<1>9. QED
  BY <1>1, <1>6, <1>7, <1>8, RequestMoves DEF Held

-----------------------------------------------------------------------------
(* The steps that change one row *)

LEMMA RowTyped ==
  ASSUME NEW row \in Row
  PROVE  /\ \A s \in Statuses : [row EXCEPT !.status = s] \in Row
         /\ \A q \in SUBSET Player : [row EXCEPT !.accepted = q] \in Row
         /\ \A s \in Statuses, d \in BOOLEAN : [row EXCEPT !.status = s, !.due = d] \in Row
         /\ \A d \in BOOLEAN : [row EXCEPT !.due = d] \in Row
         /\ \A k \in Proc \cup {None} : [row EXCEPT !.lock = k] \in Row
BY Zenon DEF Row

\* A vote starts, or the row stays.
LEMMA FlippedIs ==
  ASSUME NEW row \in Row
  PROVE  /\ Flipped(row) \in Row
         /\ Flipped(row).at = row.at /\ Flipped(row).slot = row.slot /\ Flipped(row).lock = row.lock
         /\ Flipped(row).accepted = row.accepted
         /\ Flipped(row).status = IF row.status = "READY_CHECK" THEN "CAPTAIN_VOTE" ELSE row.status
<1>1. "CAPTAIN_VOTE" \in Statuses /\ FALSE \in BOOLEAN
  BY DEF Statuses, Active
<1>2. Flipped(row) \in Row
  BY <1>1, RowTyped DEF Flipped
<1>3. QED
  BY <1>2 DEF Flipped, Row

\* The row with an accept in it.
LEMMA AcceptedIs ==
  ASSUME QueueInv, NEW x \in Proc, tx[x].pc \in Counted
  PROVE  LET l == tx[x].lobby IN
         /\ l \in Lobbies /\ Accepted(x) \in Row
         /\ Accepted(x).at = lobby[l].at /\ Accepted(x).slot = lobby[l].slot
         /\ Accepted(x).lock = lobby[l].lock /\ Accepted(x).status = lobby[l].status
         /\ lobby[l].accepted \subseteq Accepted(x).accepted
         /\ Accepted(x).accepted \subseteq Roster(l)
         /\ Accepted(x).accepted \subseteq lobby[l].accepted \cup {tx[x].player}
         /\ tx[x].player \in Accepted(x).accepted
<1> DEFINE l == tx[x].lobby
           p == tx[x].player
           q == IF tx[x].wrote THEN lobby[l].accepted \cup {p} ELSE lobby[l].accepted
<1>1. tx[x] \in Request /\ Fits(x) /\ Lobbies = 1 .. Len(lobby) /\ Len(lobby) \in Nat
  BY LobbiesAre DEF QueueInv, Typed
<1>2. l \in Lobbies /\ p \in Roster(l)
  BY <1>1 DEF Fits, Request, Accepting
<1>3. lobby[l] \in Row /\ Roster(l) \subseteq Player /\ lobby[l].accepted \subseteq Roster(l)
  BY <1>2, LobbiesAre DEF QueueInv, AcceptedAreIn
<1>4. /\ q \in SUBSET Player /\ lobby[l].accepted \subseteq q /\ q \subseteq Roster(l)
      /\ q \subseteq lobby[l].accepted \cup {p} /\ p \in q
  BY <1>1, <1>2, <1>3 DEF Fits
<1>5. Accepted(x) = [lobby[l] EXCEPT !.accepted = q]
  BY DEF Accepted
<1> HIDE DEF q
<1>6. Accepted(x) \in Row
  BY <1>3, <1>4, <1>5, RowTyped
<1>7. /\ Accepted(x).at = lobby[l].at /\ Accepted(x).slot = lobby[l].slot
      /\ Accepted(x).lock = lobby[l].lock /\ Accepted(x).status = lobby[l].status
      /\ Accepted(x).accepted = q
  BY <1>3, <1>5 DEF Row
<1>8. QED
  BY <1>2, <1>4, <1>6, <1>7

LEMMA AcceptKeeps ==
  ASSUME QueueAssumption, QueueInv, NEW x \in Proc, AcceptCommits(x) \/ AcceptFlips(x)
  PROVE  QueueInv'
<1> DEFINE l == tx[x].lobby
           row == IF tx[x].pc = "flip" THEN Flipped(Accepted(x)) ELSE Accepted(x)
<1>1. /\ tx[x].pc \in {"commit", "flip"} /\ (tx[x].pc = "flip" => Unlocked(l))
      /\ lobby' = [lobby EXCEPT ![l] = row]
      /\ told' = told \cup {<<l, tx[x].player>>} /\ Ends(x)
      /\ UNCHANGED <<queue, here, idle, tickets, banned>>
  BY DEF AcceptCommits, AcceptFlips
<1>2. /\ l \in Lobbies /\ Accepted(x) \in Row
      /\ Accepted(x).at = lobby[l].at /\ Accepted(x).slot = lobby[l].slot
      /\ Accepted(x).lock = lobby[l].lock /\ Accepted(x).status = lobby[l].status
      /\ lobby[l].accepted \subseteq Accepted(x).accepted
      /\ Accepted(x).accepted \subseteq Roster(l)
      /\ tx[x].player \in Accepted(x).accepted
  BY <1>1, AcceptedIs DEF Counted
<1>3. /\ row \in Row /\ row.at = lobby[l].at /\ row.slot = lobby[l].slot
      /\ row.lock = lobby[l].lock
      /\ lobby[l].accepted \subseteq row.accepted /\ row.accepted \subseteq Roster(l)
      /\ tx[x].player \in row.accepted
      /\ row.status = lobby[l].status
         \/ (tx[x].pc = "flip" /\ lobby[l].status = "READY_CHECK")
  BY <1>2, FlippedIs
<1> HIDE DEF row
<1>4. /\ row.status \in Active => lobby[l].status \in Active
      /\ row.status # lobby[l].status => Unlocked(l)
  BY <1>1, <1>3 DEF Active
<1>5. \A e \in told' : e \in told \/ \E p \in row.accepted : e = <<l, p>>
  BY <1>1, <1>3
<1>6. \E y \in Proc : tx[y].pc \notin Held /\ Ends(y)
  BY <1>1 DEF Held
<1>7. QED
  BY <1>1, <1>2, <1>3, <1>4, <1>5, <1>6, RowMoves

LEMMA ResolverFlipsKeeps ==
  ASSUME QueueAssumption, QueueInv, NEW x \in Proc, ResolverFlips(x)
  PROVE  QueueInv'
<1> DEFINE l == tx[x].lobby
           row == Flipped(lobby[l])
<1>1. /\ tx[x].pc = "vote" /\ Unlocked(l) /\ Ends(x)
      /\ lobby' = [lobby EXCEPT ![l] = row]
      /\ UNCHANGED <<queue, here, idle, tickets, banned, told>>
  BY DEF ResolverFlips
<1>2. l \in Lobbies
  BY <1>1, LobbiesAre DEF QueueInv, Typed, Fits, Request
<1>3. lobby[l] \in Row /\ lobby[l].accepted \subseteq Roster(l)
  BY <1>2, LobbiesAre DEF QueueInv, AcceptedAreIn
<1>4. /\ row \in Row /\ row.at = lobby[l].at /\ row.slot = lobby[l].slot
      /\ row.lock = lobby[l].lock /\ row.accepted = lobby[l].accepted
      /\ row.status = lobby[l].status \/ lobby[l].status = "READY_CHECK"
  BY <1>3, FlippedIs
<1> HIDE DEF row
<1>5. /\ row.status \in Active => lobby[l].status \in Active
      /\ row.status # lobby[l].status => Unlocked(l)
  BY <1>1, <1>4 DEF Active
<1>6. \E y \in Proc : tx[y].pc \notin Held /\ Ends(y)
  BY <1>1 DEF Held
<1>7. QED
  BY <1>1, <1>2, <1>3, <1>4, <1>5, <1>6, RowMoves

LEMMA PlaysKeep ==
  ASSUME QueueAssumption, QueueInv, NEW l \in 1 .. MaxLobbies,
         TeamsLock(l) \/ GameOver(l) \/ ResultIn(l) \/ Abandoned(l)
  PROVE  QueueInv'
<1>1. PICK to \in Statuses :
        /\ l \in Lobbies /\ Unlocked(l) /\ (to \in Active => lobby[l].status \in Active)
        /\ lobby' = [lobby EXCEPT ![l] = [lobby[l] EXCEPT !.status = to]]
        /\ UNCHANGED <<queue, here, idle, tickets, banned, tx, told>>
  <2>1. CASE TeamsLock(l)
    BY <2>1 DEF TeamsLock, Moves, Active, Statuses
  <2>2. CASE GameOver(l)
    BY <2>2 DEF GameOver, Moves, Active, Statuses
  <2>3. CASE ResultIn(l)
    BY <2>3 DEF ResultIn, Moves, Active, Statuses, Terminal
  <2>4. CASE Abandoned(l)
    BY <2>4 DEF Abandoned, Moves, Active, Statuses, Terminal
  <2>5. QED
    BY <2>1, <2>2, <2>3, <2>4
<1> DEFINE row == [lobby[l] EXCEPT !.status = to]
<1>2. lobby[l] \in Row /\ lobby[l].accepted \subseteq Roster(l)
  BY <1>1, LobbiesAre DEF QueueInv, AcceptedAreIn
<1>3. row \in Row
  BY <1>2, RowTyped
<1>4. /\ row.at = lobby[l].at /\ row.slot = lobby[l].slot
      /\ row.lock = lobby[l].lock /\ row.accepted = lobby[l].accepted /\ row.status = to
  BY <1>2 DEF Row
<1>5. lobby' = [lobby EXCEPT ![l] = row]
  BY <1>1
<1> HIDE DEF row
<1>6. QED
  BY <1>1, <1>2, <1>3, <1>4, <1>5, RowMoves

LEMMA ClockKeeps ==
  ASSUME QueueAssumption, QueueInv, NEW l \in 1 .. MaxLobbies, ClockRunsOut(l)
  PROVE  QueueInv'
<1> DEFINE row == [lobby[l] EXCEPT !.due = TRUE]
<1>1. /\ l \in Lobbies /\ lobby' = [lobby EXCEPT ![l] = row]
      /\ UNCHANGED <<queue, here, idle, tickets, banned, tx, told>>
  BY DEF ClockRunsOut
<1>2. lobby[l] \in Row /\ lobby[l].accepted \subseteq Roster(l)
  BY <1>1, LobbiesAre DEF QueueInv, AcceptedAreIn
<1>3. row \in Row
  BY <1>2, RowTyped
<1>4. /\ row.at = lobby[l].at /\ row.slot = lobby[l].slot /\ row.status = lobby[l].status
      /\ row.lock = lobby[l].lock /\ row.accepted = lobby[l].accepted
  BY <1>2 DEF Row
<1> HIDE DEF row
<1>5. QED
  BY <1>1, <1>2, <1>3, <1>4, RowMoves

-----------------------------------------------------------------------------
(* A check fails, or a game is cancelled *)

LEMMA FailClaimsKeeps ==
  ASSUME QueueAssumption, QueueInv, NEW x \in Proc, FailClaims(x)
  PROVE  QueueInv'
<1> DEFINE l == tx[x].lobby
           row == [lobby[l] EXCEPT !.lock = x]
           t == [tx[x] EXCEPT !.pc = "held"]
<1>1. /\ tx[x].pc = "fail" /\ Unlocked(l) /\ tx[x] \in Request /\ Fits(x)
      /\ UNCHANGED <<queue, here, idle, tickets, banned, told>>
  BY DEF FailClaims, QueueInv, Typed
<1>2. l \in Lobbies /\ Lobbies = 1 .. Len(lobby) /\ Len(lobby) \in Nat /\ lobby[l] \in Row
  BY <1>1, LobbiesAre DEF QueueInv, Fits, Request, Failing
<1>3. CASE lobby[l].status \notin Cancellable(tx[x].op)
  <2>1. Ends(x) /\ UNCHANGED lobby /\ tx[x].pc \notin Held
    BY <1>1, <1>3 DEF FailClaims, Held
  <2>2. tx' \in [Proc -> Request] /\ \A y \in Proc : y # x => tx'[y] = tx[y]
    BY <2>1, EndsTyped DEF QueueInv
  <2>3. Fits(x)'
    BY <2>1, EndsTyped, EndedFits DEF QueueInv, Typed
  <2>4. QED
    BY <1>1, <2>1, <2>2, <2>3, RequestMoves
<1>4. CASE lobby[l].status \in Cancellable(tx[x].op)
  <2>1. lobby' = [lobby EXCEPT ![l] = row] /\ tx' = [tx EXCEPT ![x] = t]
    BY <1>4 DEF FailClaims
  <2>2. row \in Row
    BY <1>2, RowTyped
  <2>3. /\ row.status = lobby[l].status /\ row.at = lobby[l].at /\ row.slot = lobby[l].slot
        /\ row.accepted = lobby[l].accepted /\ row.lock = x
    BY <1>2 DEF Row
  <2>4. t \in Request
    <3>1. "held" \in Pcs
      BY DEF Pcs, Failing, Held
    <3>2. QED
      BY <1>1, <3>1, Zenon DEF Request
  <2>5. t.pc = "held" /\ t.op = tx[x].op /\ t.lobby = l /\ t.player = tx[x].player
    BY <1>1 DEF Request
  <2> HIDE DEF row, t
  <2>6. /\ lobby' \in Seq(Row) /\ Len(lobby') = Len(lobby) /\ Lobbies' = Lobbies
        /\ lobby'[l] = row /\ \A m \in Lobbies : m # l => lobby'[m] = lobby[m]
        /\ \A m \in Lobbies : Roster(m)' = Roster(m)
    BY <1>2, <2>1, <2>2, <2>3, RowChanges DEF QueueInv
  <2>7. /\ tx' \in [Proc -> Request] /\ tx'[x] = t
        /\ \A y \in Proc : y # x => tx'[y] = tx[y]
    BY <2>1, <2>4 DEF QueueInv, Typed
  <2>8. Live' = Live /\ \A m \in Lobbies : lobby'[m].slot = lobby[m].slot
    BY <2>3, <2>6 DEF Live
  <2>9. Typed'
    BY <1>1, <2>6, <2>7 DEF QueueInv, Typed, Queued
  <2>10. (PlacesGiven /\ BannedNeverQueued)'
    BY <1>1, <2>3, <2>6 DEF QueueInv, PlacesGiven, BannedNeverQueued, Queued
  <2>11. InOneGame' /\ SlotsAreDistinct'
    BY <1>1, <2>6, <2>8 DEF QueueInv, InOneGame, SlotsAreDistinct, Live
  <2>12. AcceptedAreIn'
    BY <1>1, <2>3, <2>6 DEF QueueInv, AcceptedAreIn
  <2>13. LocksAreHeld'
    <3>1. SUFFICES ASSUME NEW m \in Lobbies, lobby'[m].lock # None
                   PROVE  LET u == tx'[lobby'[m].lock] IN
                          u.lobby = m /\ u.pc \in Held /\ lobby'[m].status \in Cancellable(u.op)
      BY <2>6 DEF LocksAreHeld
    <3>2. CASE m = l
      BY <1>4, <2>3, <2>5, <2>6, <2>7, <3>2 DEF Held
    <3>3. CASE m # l
      <4>1. lobby'[m] = lobby[m] /\ lobby[m].lock \in Proc
        BY <2>6, <3>1, <3>3, LobbiesAre DEF QueueInv, Row
      <4>2. lobby[m].lock # x
        BY <3>1, <3>3, <4>1 DEF QueueInv, LocksAreHeld
      <4>3. QED
        BY <2>7, <3>1, <4>1, <4>2 DEF QueueInv, LocksAreHeld
    <3>4. QED
      BY <3>2, <3>3
  <2>14. ASSUME NEW y \in Proc, y # x PROVE Fits(y)'
    <3>1. tx[y].pc = "requeue" => tx[y].back \cap banned' = {}
      BY <1>1 DEF QueueInv, Fits
    <3>2. tx[y].pc \in Held => tx[y].lobby # l
      BY <1>1, NoneApart DEF QueueInv, Fits, Unlocked
    <3>3. tx[y].lobby \in Lobbies => LET m == tx[y].lobby IN
             /\ lobby'[m].at = lobby[m].at /\ lobby[m].accepted \subseteq lobby'[m].accepted
             /\ lobby'[m].lock = lobby[m].lock \/ tx[y].pc \notin Held
      BY <2>3, <2>6, <3>2
    <3>4. QED
      BY <1>2, <2>6, <2>7, <2>14, <3>1, <3>3, FitsStays
  <2>15. Fits(x)'
    BY <1>1, <1>2, <2>3, <2>5, <2>6, <2>7 DEF Fits, Accepting, Counted, Failing, Held
  <2>16. QED
    BY <2>9, <2>10, <2>11, <2>12, <2>13, <2>14, <2>15 DEF QueueInv
<1>5. QED
  BY <1>3, <1>4

\* A place behind all others, with the ones before it of those who come along.
LEMMA PlaceIs ==
  ASSUME QueueAssumption, IsFiniteSet(Player), QueueInv, NEW x \in Proc, tx[x].pc = "requeue",
         NEW p \in tx[x].back
  PROVE  /\ Place(x, p) \in Nat /\ Place(x, p) > 0
         /\ Cardinality(tx[x].back) \in Nat
         /\ Place(x, p) <= IF tx[x].op = "cancel" THEN tickets + Cardinality(tx[x].back) ELSE tickets
<1> DEFINE l == tx[x].lobby
           back == tx[x].back
           before == {q \in back : lobby[l].at[q] < lobby[l].at[p]}
<1>1. /\ tx[x] \in Request /\ Fits(x) /\ tickets \in Nat /\ Lobbies = 1 .. Len(lobby)
      /\ Len(lobby) \in Nat
  BY LobbiesAre DEF QueueInv, Typed
<1>2. l \in Lobbies /\ back \subseteq Roster(l)
  BY <1>1 DEF Fits, Request, Failing, Held
<1>3. lobby[l] \in Row /\ Roster(l) \subseteq Player
  BY <1>2, LobbiesAre DEF QueueInv
<1>4. p \in Player /\ lobby[l].at[p] \in Nat /\ lobby[l].at[p] > 0 /\ lobby[l].at[p] <= tickets
  BY <1>2, <1>3 DEF Roster, Row, QueueInv, PlacesGiven
<1>5. Waiting[p] \in Nat /\ Waiting[p] <= tickets
  <2>1. Waiting[p] \in {0, queue[p]}
    BY <1>4, WaitingTyped DEF QueueInv
  <2>2. queue[p] \in Nat /\ queue[p] <= tickets
    BY <1>4 DEF QueueInv, Typed, PlacesGiven
  <2>3. QED
    BY <1>1, <2>1, <2>2
<1>6. /\ Cardinality(back) \in Nat /\ Cardinality(before) \in Nat
      /\ Cardinality(before) + 1 <= Cardinality(back)
  <2>1. IsFiniteSet(back)
    BY <1>2, <1>3, FS_Subset
  <2>2. /\ IsFiniteSet(back \ {p}) /\ Cardinality(back) \in Nat
        /\ Cardinality(back \ {p}) = Cardinality(back) - 1
    BY <2>1, FS_RemoveElement, FS_CardinalityType
  <2>3. before \subseteq back \ {p}
    BY <1>4
  <2>4. Cardinality(before) <= Cardinality(back \ {p}) /\ Cardinality(before) \in Nat
    BY <2>2, <2>3, FS_Subset, FS_CardinalityType
  <2> HIDE DEF before, back
  <2>5. QED
    BY <2>2, <2>4
<1>7. PlaceLast(x, p) = tickets + 1 + Cardinality(before)
  BY DEF PlaceLast
<1> HIDE DEF before
<1>8. CASE tx[x].op = "cancel"
  BY <1>1, <1>5, <1>6, <1>7, <1>8 DEF Place
<1>9. CASE tx[x].op # "cancel"
  BY <1>4, <1>6, <1>9 DEF Place
<1>10. QED
  BY <1>8, <1>9

LEMMA FailCommitsKeeps ==
  ASSUME QueueAssumption, IsFiniteSet(Player), QueueInv, NEW x \in Proc, FailCommits(x)
  PROVE  QueueInv'
<1> DEFINE l == tx[x].lobby
           back == tx[x].back
           row == [lobby[l] EXCEPT !.status = "CANCELLED", !.lock = None, !.due = FALSE]
<1>1. /\ tx[x].pc = "requeue" /\ Ends(x) /\ UNCHANGED <<banned, told>>
      /\ queue' = [p \in Player |-> IF p \in back THEN Place(x, p) ELSE Waiting[p]]
      /\ here' = ({p \in here : queue'[p] > 0} \ back) \cup (back \cap tx[x].fresh)
      /\ idle' = FALSE /\ lobby' = [lobby EXCEPT ![l] = row]
      /\ tickets' = IF tx[x].op = "cancel" THEN tickets + Cardinality(back) ELSE tickets
  BY DEF FailCommits
<1>2. /\ tx[x] \in Request /\ Fits(x) /\ tickets \in Nat /\ Lobbies = 1 .. Len(lobby)
      /\ Len(lobby) \in Nat /\ here \subseteq Queued /\ queue \in [Player -> Nat]
      /\ \A p \in Player : queue[p] <= tickets
  BY LobbiesAre DEF QueueInv, Typed, PlacesGiven
<1>3. /\ l \in Lobbies /\ back \subseteq Roster(l) \ banned /\ lobby[l].lock = x
      /\ tx[x].op \in {"decline", "resolve", "cancel"}
  BY <1>1, <1>2 DEF Fits, Request, Failing, Held
<1>4. lobby[l] \in Row /\ Roster(l) \subseteq Player /\ back \subseteq Player
  BY <1>3, LobbiesAre DEF QueueInv
<1>5. l \in Live
  <2>1. lobby[l].status \in Cancellable(tx[x].op)
    BY <1>3, NoneApart DEF QueueInv, LocksAreHeld
  <2>2. QED
    BY <1>3, <2>1 DEF Live, Cancellable, Active
<1>6. row \in Row
  <2>1. /\ "CANCELLED" \in Statuses /\ None \in Proc \cup {None} /\ FALSE \in BOOLEAN
    BY DEF Statuses, Terminal
  <2>2. QED
    BY <1>4, <2>1, Zenon DEF Row
<1>7. /\ row.status = "CANCELLED" /\ row.lock = None /\ row.at = lobby[l].at
      /\ row.accepted = lobby[l].accepted /\ row.slot = lobby[l].slot
  BY <1>4 DEF Row
<1> HIDE DEF row
<1>8. /\ lobby' \in Seq(Row) /\ Len(lobby') = Len(lobby) /\ Lobbies' = Lobbies
      /\ lobby'[l] = row /\ \A m \in Lobbies : m # l => lobby'[m] = lobby[m]
      /\ \A m \in Lobbies : Roster(m)' = Roster(m)
  BY <1>1, <1>3, <1>6, <1>7, RowChanges DEF QueueInv
<1>9. /\ tx' \in [Proc -> Request] /\ tx'[x] = NoTx
      /\ \A y \in Proc : y # x => tx'[y] = tx[y]
  BY <1>1, EndsTyped DEF QueueInv
<1>10. Live' = Live \ {l} /\ \A m \in Lobbies : lobby'[m].slot = lobby[m].slot
  BY <1>3, <1>7, <1>8 DEF Live, Active
<1>11. /\ Waiting \in [Player -> Nat] /\ \A p \in Player : Waiting[p] \in {0, queue[p]}
  BY WaitingTyped DEF QueueInv
<1>12. /\ tickets' \in Nat /\ tickets <= tickets'
       /\ \A p \in back : Place(x, p) \in Nat /\ Place(x, p) > 0 /\ Place(x, p) <= tickets'
  <2>1. \A p \in back : /\ Place(x, p) \in Nat /\ Place(x, p) > 0
                        /\ Place(x, p) <= IF tx[x].op = "cancel" THEN tickets + Cardinality(back) ELSE tickets
    BY <1>1, PlaceIs
  <2>2. Cardinality(back) \in Nat
    BY <1>4, FS_Subset, FS_CardinalityType
  <2>3. tickets' \in Nat /\ tickets <= tickets'
    BY <1>1, <1>2, <2>2
  <2>4. QED
    BY <1>1, <2>1, <2>3
<1>13. /\ queue' \in [Player -> Nat]
       /\ \A p \in Player : /\ p \in back => queue'[p] > 0
                            /\ p \notin back => queue'[p] \in {0, queue[p]}
                            /\ queue'[p] <= tickets'
  BY <1>1, <1>2, <1>11, <1>12
<1>14. Typed'
  <2>1. here' \subseteq Queued'
    BY <1>1, <1>2, <1>4, <1>13 DEF Queued
  <2>2. idle' \in BOOLEAN
    BY <1>1
  <2>3. QED
    BY <1>1, <1>8, <1>9, <1>12, <1>13, <2>1, <2>2 DEF QueueInv, Typed
<1>15. PlacesGiven'
  <2>1. \A m \in Lobbies, p \in Player : lobby'[m].at = lobby[m].at /\ lobby[m].at[p] \in Nat
    BY <1>7, <1>8, LobbiesAre DEF QueueInv, Row
  <2>2. \A m \in Lobbies, p \in Player : lobby'[m].at[p] <= tickets'
    BY <1>2, <1>12, <2>1 DEF QueueInv, PlacesGiven
  <2>3. QED
    BY <1>8, <1>13, <2>2 DEF PlacesGiven
<1>16. InOneGame' /\ SlotsAreDistinct'
  <2>1. \A m \in Live' : m \in Live /\ m # l /\ m \in Lobbies
    BY <1>10 DEF Live
  <2>2. \A m \in Live' : Roster(m)' \cap back = {}
    BY <1>3, <1>5, <1>8, <2>1 DEF QueueInv, InOneGame
  <2>3. ASSUME NEW m \in Live', NEW p \in Roster(m)' PROVE queue'[p] = 0
    <3>1. p \in Player /\ p \notin back /\ queue[p] = 0
      BY <1>8, <2>1, <2>2, <2>3 DEF QueueInv, InOneGame, Roster
    <3>2. QED
      BY <1>13, <3>1
  <2>4. \A k, m \in Live' : \A p \in Roster(k)' \cap Roster(m)' : k = m
    BY <1>8, <2>1 DEF QueueInv, InOneGame
  <2>5. SlotsAreDistinct'
    BY <1>10, <2>1 DEF QueueInv, SlotsAreDistinct
  <2>6. QED
    BY <2>3, <2>4, <2>5 DEF InOneGame
<1>17. BannedNeverQueued'
  <2>1. \A p \in banned : p \in Player /\ queue[p] = 0 /\ p \notin back
    BY <1>2, <1>3 DEF QueueInv, Typed, BannedNeverQueued, Queued
  <2>2. QED
    BY <1>1, <1>13, <2>1 DEF BannedNeverQueued, Queued
<1>18. AcceptedAreIn'
  BY <1>1, <1>7, <1>8 DEF QueueInv, AcceptedAreIn
<1>19. LocksAreHeld'
  <2>1. SUFFICES ASSUME NEW m \in Lobbies, lobby'[m].lock # None
                 PROVE  LET u == tx'[lobby'[m].lock] IN
                        u.lobby = m /\ u.pc \in Held /\ lobby'[m].status \in Cancellable(u.op)
    BY <1>8 DEF LocksAreHeld
  <2>2. m # l
    BY <1>7, <1>8, <2>1
  <2>3. lobby'[m] = lobby[m] /\ lobby[m].lock \in Proc
    BY <1>8, <2>1, <2>2, LobbiesAre DEF QueueInv, Row
  <2>4. lobby[m].lock # x
    BY <2>1, <2>2, <2>3 DEF QueueInv, LocksAreHeld
  <2>5. QED
    BY <1>9, <2>1, <2>3, <2>4 DEF QueueInv, LocksAreHeld
<1>20. ASSUME NEW y \in Proc PROVE Fits(y)'
  <2>1. CASE y = x
    BY <1>8, <1>9, <2>1, EndedFits
  <2>2. CASE y # x
    <3>1. tx[y].pc = "requeue" => tx[y].back \cap banned' = {}
      BY <1>1 DEF QueueInv, Fits
    <3>2. tx[y].pc \in Held => tx[y].lobby # l
      BY <1>3, <2>2 DEF QueueInv, Fits
    <3>3. tx[y].lobby \in Lobbies => LET m == tx[y].lobby IN
             /\ lobby'[m].at = lobby[m].at /\ lobby[m].accepted \subseteq lobby'[m].accepted
             /\ lobby'[m].lock = lobby[m].lock \/ tx[y].pc \notin Held
      BY <1>7, <1>8, <3>2
    <3>4. QED
      BY <1>2, <1>8, <1>9, <2>2, <3>1, <3>3, FitsStays
  <2>3. QED
    BY <2>1, <2>2
<1>21. QED
  BY <1>14, <1>15, <1>16, <1>17, <1>18, <1>19, <1>20 DEF QueueInv

\* A ban whose snapshot stands comes into no failing check: it holds the game's
\* row itself, or there is no game.
LEMMA BanMeetsNoFailure ==
  ASSUME QueueAssumption, QueueInv, NEW x \in Proc, tx[x].pc = "ban", BanStands(x),
         tx[x].lobby # 0 => Unlocked(tx[x].lobby),
         NEW y \in Proc, tx[y].pc = "requeue"
  PROVE  tx[x].player \notin tx[y].back
<1> DEFINE p == tx[x].player
           l == tx[x].lobby
           m == tx[y].lobby
<1>1. SUFFICES ASSUME p \in tx[y].back PROVE FALSE
  OBVIOUS
<1>2. Fits(x) /\ Fits(y) /\ p \in Player /\ Lobbies = 1 .. Len(lobby) /\ Len(lobby) \in Nat
  BY LobbiesAre DEF QueueInv, Fits
<1>3. tx[x].lobby \in Nat /\ tx[y].lobby \in Nat
  BY DEF QueueInv, Typed, Request
<1>4. m \in Lobbies /\ lobby[m].lock = y /\ p \in Roster(m)
  BY <1>1, <1>2, <1>3 DEF Fits, Failing, Held
<1>5. m \in Live
  <2>1. lobby[m].status \in Cancellable(tx[y].op)
    BY <1>4, NoneApart DEF QueueInv, LocksAreHeld
  <2>2. QED
    BY <1>4, <2>1 DEF Live, Cancellable, Active
<1>6. CASE l = 0
  <2>1. SeenBy(p).status = "none"
    BY <1>2, <1>6 DEF Fits, BanStands
  <2>2. LobbyOf(p) # {}
    BY <1>4, <1>5 DEF LobbyOf
  <2>3. SeenBy(p).status \in Active
    BY <1>2, <2>2, SeenWell
  <2>4. QED
    BY <2>1, <2>3 DEF Active
<1>7. CASE l # 0
  <2>1. p \in Roster(l) /\ lobby[l].status \in Active /\ l \in Lobbies
    BY <1>2, <1>3, <1>7 DEF Fits, BanStands
  <2>2. l = m
    BY <1>4, <1>5, <2>1 DEF QueueInv, InOneGame, Live
  <2>3. QED
    BY <1>4, <1>7, <2>2, NoneApart DEF Unlocked
<1>8. QED
  BY <1>6, <1>7

LEMMA BanCommitsKeeps ==
  ASSUME QueueAssumption, QueueInv, NEW x \in Proc, BanCommits(x)
  PROVE  QueueInv'
<1> DEFINE p == tx[x].player
<1>1. /\ tx[x].pc = "ban" /\ (tx[x].lobby # 0 => Unlocked(tx[x].lobby)) /\ Ends(x)
      /\ UNCHANGED <<tickets, lobby, told>>
  BY DEF BanCommits
<1>2. /\ tx' \in [Proc -> Request] /\ tx'[x] = NoTx
      /\ \A y \in Proc : y # x => tx'[y] = tx[y]
  BY <1>1, EndsTyped DEF QueueInv
<1>3. Fits(x)'
  BY <1>1, <1>2, EndedFits DEF QueueInv, Typed
<1>4. CASE ~BanStands(x)
  <2>1. UNCHANGED <<queue, here, idle, banned>>
    BY <1>4 DEF BanCommits
  <2>2. tx[x].pc \notin Held
    BY <1>1 DEF Held
  <2>3. QED
    BY <1>1, <1>2, <1>3, <2>1, <2>2, RequestMoves
<1>5. CASE BanStands(x)
  <2>1. /\ banned' = banned \cup {p} /\ queue' = [Waiting EXCEPT ![p] = 0]
        /\ here' = {q \in here : queue'[q] > 0} /\ idle' = FALSE
    BY <1>5 DEF BanCommits
  <2>2. /\ p \in Player /\ tickets \in Nat /\ here \subseteq Queued /\ banned \subseteq Player
        /\ \A q \in Player : queue[q] <= tickets
    BY <1>1 DEF QueueInv, Fits, Typed, PlacesGiven
  <2>3. /\ queue' \in [Player -> Nat] /\ queue'[p] = 0
        /\ \A q \in Player : queue'[q] \in {0, queue[q]}
    BY <2>1, <2>2, WaitingTyped DEF QueueInv
  <2>4. Typed'
    <3>1. here' \subseteq Queued'
      BY <2>1, <2>2 DEF Queued
    <3>2. idle' \in BOOLEAN
      BY <2>1
    <3>3. banned' \subseteq Player
      BY <2>1, <2>2
    <3>4. QED
      BY <1>1, <1>2, <2>3, <3>1, <3>2, <3>3 DEF QueueInv, Typed
  <2>5. PlacesGiven'
    BY <1>1, <2>2, <2>3 DEF QueueInv, PlacesGiven, Lobbies
  <2>6. InOneGame'
    <3>1. \A l \in Live : \A q \in Roster(l) : q \in Player /\ queue[q] = 0
      BY DEF QueueInv, InOneGame, Roster
    <3>2. \A l \in Live : \A q \in Roster(l) : queue'[q] = 0
      BY <2>3, <3>1
    <3>3. Live' = Live /\ \A l \in Live : Roster(l)' = Roster(l)
      BY <1>1 DEF Live, Lobbies, Roster
    <3>4. QED
      BY <3>2, <3>3 DEF QueueInv, InOneGame
  <2>7. SlotsAreDistinct'
    BY <1>1 DEF QueueInv, SlotsAreDistinct, Live, Lobbies
  <2>8. BannedNeverQueued'
    <3>1. \A q \in banned' : q \in Player /\ (q = p \/ queue[q] = 0)
      BY <2>1, <2>2 DEF QueueInv, Typed, BannedNeverQueued, Queued
    <3>2. QED
      BY <2>3, <3>1 DEF BannedNeverQueued, Queued
  <2>9. (AcceptedAreIn /\ LocksAreHeld)'
    <3>1. AcceptedAreIn'
      BY <1>1 DEF QueueInv, AcceptedAreIn, Lobbies, Roster
    <3>2. \A l \in Lobbies : lobby[l].lock # None => lobby[l].lock \in Proc /\ lobby[l].lock # x
      BY <1>1, LobbiesAre DEF QueueInv, LocksAreHeld, Held, Row
    <3>3. LocksAreHeld'
      BY <1>1, <1>2, <3>2 DEF QueueInv, LocksAreHeld, Lobbies
    <3>4. QED
      BY <3>1, <3>3
  <2>10. ASSUME NEW y \in Proc, y # x PROVE Fits(y)'
    <3>1. tx[y].pc = "requeue" => p \notin tx[y].back
      BY <1>1, <1>5, BanMeetsNoFailure
    <3>2. tx[y].pc = "requeue" => tx[y].back \cap banned' = {}
      BY <2>1, <3>1 DEF QueueInv, Fits
    <3>3. Len(lobby') \in Nat /\ Len(lobby) <= Len(lobby')
      BY <1>1, LobbiesAre DEF QueueInv
    <3>4. QED
      BY <1>1, <1>2, <2>10, <3>2, <3>3, FitsStays
  <2>11. QED
    BY <1>3, <2>4, <2>5, <2>6, <2>7, <2>8, <2>9, <2>10 DEF QueueInv
<1>6. QED
  BY <1>4, <1>5

-----------------------------------------------------------------------------
LEMMA InitKeeps == ASSUME QueueAssumption, Init PROVE QueueInv
<1>1. NoTx \in Request
  BY DEF NoTx, Request, Seeing, Ops, Pcs
<1>2. Lobbies = {} /\ Queued = {} /\ Live = {} /\ Len(lobby) = 0 /\ lobby \in Seq(Row)
  BY DEF Init, Lobbies, Queued, Live
<1>3. Typed
  <2>1. queue \in [Player -> Nat] /\ here \subseteq Queued /\ tickets \in Nat /\ banned \subseteq Player
    BY DEF Init
  <2>2. idle \in BOOLEAN /\ told \subseteq (1 .. MaxLobbies) \X Player
    BY DEF Init
  <2>3. tx \in [Proc -> Request]
    BY <1>1 DEF Init
  <2>4. Len(lobby) <= MaxLobbies
    BY <1>2 DEF QueueAssumption
  <2>5. QED
    BY <1>2, <2>1, <2>2, <2>3, <2>4 DEF Typed
<1>4. PlacesGiven /\ InOneGame /\ SlotsAreDistinct /\ BannedNeverQueued /\ AcceptedAreIn /\ LocksAreHeld
  BY <1>2 DEF Init, PlacesGiven, InOneGame, SlotsAreDistinct, BannedNeverQueued, AcceptedAreIn, LocksAreHeld
<1>5. \A x \in Proc : Fits(x)
  BY <1>2 DEF Init, NoTx, Fits, Accepting, Failing, Counted, Held
<1>6. QED
  BY <1>3, <1>4, <1>5 DEF QueueInv

LEMMA NextKeeps ==
  ASSUME QueueAssumption, IsFiniteSet(Player), QueueInv, Next
  PROVE  QueueInv'
<1>1. CASE Queues
  BY <1>1, QueueStepKeeps, IdlingKeeps, FormKeeps DEF Queues
<1>2. CASE Plays
  BY <1>2, PlaysKeep DEF Plays
<1>3. CASE \E l \in 1 .. MaxLobbies : ClockRunsOut(l)
  BY <1>3, ClockKeeps
<1>4. ASSUME NEW x \in Proc, Answers(x) \/ Resolves(x) \/ Moderates(x) PROVE QueueInv'
  BY <1>4, ReadsKeep, BanReadsKeeps DEF Answers, Resolves, Moderates
<1>5. ASSUME NEW x \in Proc, Proceeds(x) PROVE QueueInv'
  BY <1>5, ClaimKeeps, CountKeeps, AcceptKeeps, ResolverFlipsKeeps, FailClaimsKeeps, RereadKeeps,
     FailCommitsKeeps, BanCommitsKeeps DEF Proceeds
<1>6. QED
  BY <1>1, <1>2, <1>3, <1>4, <1>5 DEF Next

\* The inductive invariant holds always: a player is in one live game or in the
\* queue, and every open request may still rely on what it read.
THEOREM QueueInvariant ==
  ASSUME QueueAssumption, IsFiniteSet(Player) PROVE Spec => []QueueInv
<1>1. Init => QueueInv
  BY InitKeeps
<1>2. QueueInv /\ [Next]_vars => QueueInv'
  <2> SUFFICES ASSUME QueueInv, UNCHANGED vars PROVE QueueInv'
    BY NextKeeps
  <2>1. Typed'
    BY DEF vars, QueueInv, Typed, Queued
  <2>2. PlacesGiven' /\ InOneGame' /\ SlotsAreDistinct'
    <3>1. UNCHANGED <<queue, tickets, lobby>>
      BY DEF vars
    <3>2. PlacesGiven'
      BY <3>1 DEF QueueInv, PlacesGiven, Lobbies
    <3>3. Live' = Live /\ \A l \in Lobbies : Roster(l)' = Roster(l)
      BY <3>1 DEF Live, Lobbies, Roster
    <3>4. InOneGame' /\ SlotsAreDistinct'
      BY <3>1, <3>3 DEF QueueInv, InOneGame, SlotsAreDistinct, Live
    <3>5. QED
      BY <3>2, <3>4
  <2>3. BannedNeverQueued' /\ AcceptedAreIn' /\ LocksAreHeld'
    <3>1. UNCHANGED <<queue, lobby, banned, tx, told>>
      BY DEF vars
    <3>2. BannedNeverQueued'
      BY <3>1 DEF QueueInv, BannedNeverQueued, Queued
    <3>3. AcceptedAreIn'
      BY <3>1 DEF QueueInv, AcceptedAreIn, Lobbies, Roster
    <3>4. LocksAreHeld'
      BY <3>1 DEF QueueInv, LocksAreHeld, Lobbies
    <3>5. QED
      BY <3>2, <3>3, <3>4
  <2>4. ASSUME NEW x \in Proc PROVE Fits(x)'
    <3>1. Fits(x)
      BY DEF QueueInv
    <3>2. UNCHANGED <<tx, lobby, banned>>
      BY DEF vars
    <3>3. Len(lobby) \in Nat
      BY DEF QueueInv, Typed
    <3>4. tx[x].pc = "requeue" => tx[x].back \cap banned' = {}
      BY <3>1, <3>2 DEF Fits
    <3>5. QED
      BY <3>2, <3>3, <3>4, FitsStays
  <2>5. QED
    BY <2>1, <2>2, <2>3, <2>4 DEF QueueInv
<1>3. QED
  BY <1>1, <1>2, PTL DEF Spec

\* Each player is in one place, live games hold distinct slots, and no banned
\* player is queued, whatever calls of joinQueue, formOneLobby, acceptMatch,
\* failReadyCheck, cancelLobby and banInhousePlayer cross.
THEOREM QueueStaysSound ==
  ASSUME QueueAssumption, IsFiniteSet(Player) PROVE Spec => []QueueIsSound
<1>1. QueueInv => QueueIsSound
  <2>1. SUFFICES ASSUME QueueInv PROVE QueueIsSound
    OBVIOUS
  <2>2. /\ Lobbies = 1 .. Len(lobby) /\ Len(lobby) \in Nat
        /\ \A l \in Lobbies : lobby[l] \in Row
    BY <2>1, LobbiesAre DEF QueueInv
  <2>3. TypeOK
    <3>1. \A l \in Lobbies : /\ lobby[l].status \in Statuses /\ lobby[l].slot \in 1 .. MaxLiveGames
                             /\ lobby[l].due \in BOOLEAN /\ lobby[l].lock \in Proc \cup {None}
                             /\ lobby[l].accepted \subseteq Roster(l)
      BY <2>1, <2>2 DEF Row, QueueInv, AcceptedAreIn
    <3>2. \A x \in Proc :
            /\ tx[x].pc \in {"idle", "claim", "count", "commit", "flip", "vote", "fail", "held", "requeue", "ban"}
            /\ tx[x].lobby \in 0 .. Len(lobby) /\ tx[x].player \in Player \cup {None}
      <4>1. SUFFICES ASSUME NEW x \in Proc
                     PROVE  /\ tx[x].pc \in Pcs /\ tx[x].lobby \in Nat /\ tx[x].lobby <= Len(lobby)
                            /\ tx[x].player \in Player \cup {None}
        BY <2>2 DEF Pcs, Accepting, Counted, Failing, Held
      <4>2. QED
        BY <2>1 DEF QueueInv, Typed, Request, Fits
    <3>3. QED
      BY <2>1, <3>1, <3>2 DEF QueueInv, Typed, PlacesGiven, TypeOK
  <2>4. NobodyTwice
    <3>1. SUFFICES ASSUME NEW p \in Player, LobbyOf(p) # {}
                   PROVE  Cardinality(LobbyOf(p)) = 1 /\ queue[p] = 0
      BY DEF NobodyTwice
    <3>2. PICK l \in LobbyOf(p) : TRUE
      BY <3>1
    <3>3. LobbyOf(p) = {l} /\ queue[p] = 0
      BY <2>1, <3>2 DEF QueueInv, InOneGame, LobbyOf
    <3>4. QED
      BY <3>3, FS_Singleton
  <2>5. QED
    BY <2>1, <2>3, <2>4 DEF QueueInv, QueueIsSound
<1>2. QED
  BY <1>1, QueueInvariant, PTL
=============================================================================
