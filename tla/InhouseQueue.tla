---------------------------- MODULE InhouseQueue ----------------------------
(***************************************************************************)
(* The inhouse queue and the ready check: players join and leave, ten      *)
(* present ones are taken into a lobby, all ten must accept, and a check   *)
(* that fails (a decline, the clock, an admin's cancel) puts back the ones *)
(* who keep their place.  Requests and pollers run at once.                *)
(*                                                                         *)
(* joinQueue, formOneLobby and banInhousePlayer are SERIALIZABLE.  The     *)
(* others run READ COMMITTED: every statement is a step that reads what is *)
(* committed, an UPDATE of a row waits for the transaction that wrote it,  *)
(* and the writes of a transaction appear together when it commits.        *)
(***************************************************************************)
EXTENDS Integers, Sequences, FiniteSets, FiniteSetsExt

CONSTANTS Player, Proc,  \* Proc: the requests in flight at once
          LobbySize, MaxLiveGames,
          MaxLobbies,    \* horizon: lobbies formed
          MaxTickets,    \* horizon: places handed out in the queue
          Overlaps,      \* an accept may fall inside a failing transaction
          None

QueueAssumption ==
  /\ LobbySize \in Nat \ {0} /\ MaxLiveGames \in Nat \ {0}
  /\ MaxLobbies \in Nat /\ MaxTickets \in Nat /\ Overlaps \in BOOLEAN
  /\ None \notin Player \cup Proc

VARIABLES
  queue,    \* InhouseQueueEntry: each player's place by joinedAt, 0 if not queued
  here,     \* the queued players seen recently
  idle,     \* the shared idle deadline has passed
  tickets,  \* places handed out
  lobby,    \* InhouseLobby and its players, in order of creation
  banned,   \* players with a running ban
  tx,       \* the transaction each request has open
  told      \* accepts answered ok

vars == <<queue, here, idle, tickets, lobby, banned, tx, told>>

Active   == {"READY_CHECK", "CAPTAIN_VOTE", "READY"}
Terminal == {"COMPLETED", "CANCELLED"}
Lobbies  == DOMAIN lobby
Live     == {l \in Lobbies : lobby[l].status \in Active}
Roster(l)  == {p \in Player : lobby[l].at[p] > 0}
LobbyOf(p) == {l \in Live : p \in Roster(l)}
Pending(l) == Roster(l) \ lobby[l].accepted
Unlocked(l) == lobby[l].lock = None
Queued   == {p \in Player : queue[p] > 0}

NoTx == [op |-> "none", pc |-> "idle", player |-> None, lobby |-> 0, wrote |-> FALSE,
         seen |-> [place |-> 0, status |-> "none"], back |-> {}, fresh |-> {}]
Begins(x, op, pc, p, l) ==
  tx' = [tx EXCEPT ![x] = [NoTx EXCEPT !.op = op, !.pc = pc, !.player = p, !.lobby = l]]
Ends(x) == tx' = [tx EXCEPT ![x] = NoTx]

-----------------------------------------------------------------------------
(* The queue *)

\* A queue whose shared deadline passed is cleared whole before any change.
Waiting == IF idle THEN [p \in Player |-> 0] ELSE queue
Present(q) == {p \in here : q[p] > 0}

\* Mutant: only games past their ready check are asked about.
MayJoinChecked(p) == p \notin banned /\ \A l \in LobbyOf(p) : lobby[l].status = "READY_CHECK"
MayJoin(p) == p \notin banned /\ LobbyOf(p) = {}
Join(p) ==
  /\ MayJoin(p)
  /\ IF Waiting[p] > 0
     THEN UNCHANGED <<queue, tickets, idle>>
     ELSE /\ tickets < MaxTickets /\ tickets' = tickets + 1
          /\ queue' = [Waiting EXCEPT ![p] = tickets + 1] /\ idle' = FALSE
  /\ here' = {q \in here : queue'[q] > 0} \cup {p}
  /\ UNCHANGED <<lobby, banned, tx, told>>

\* leaveQueue, and removeFromQueue on their behalf (called by someone who is not
\* queued it can only expire the queue: Expires).
Leave(p) ==
  /\ queue[p] > 0
  /\ queue' = [Waiting EXCEPT ![p] = 0] /\ idle' = FALSE
  /\ here' = {q \in here : queue'[q] > 0}
  /\ UNCHANGED <<tickets, lobby, banned, tx, told>>

Heartbeat(p) == /\ queue[p] > 0 /\ p \notin here /\ here' = here \cup {p}
                /\ UNCHANGED <<queue, idle, tickets, lobby, banned, tx, told>>
GoesAway(p)  == /\ p \in here /\ here' = here \ {p}
                /\ UNCHANGED <<queue, idle, tickets, lobby, banned, tx, told>>
QueueIdles   == /\ Queued # {} /\ ~idle /\ idle' = TRUE
                /\ UNCHANGED <<queue, here, tickets, lobby, banned, tx, told>>

\* The present players who have waited longest.
First(q) == LET P == Present(q) IN
  {p \in P : Cardinality({o \in P : q[o] < q[p]}) < LobbySize}
FreeSlots == 1 .. MaxLiveGames \ {lobby[l].slot : l \in Live}

Form ==
  LET S == First(Waiting) IN
  /\ FreeSlots # {} /\ Len(lobby) < MaxLobbies
  /\ Cardinality(S) = LobbySize
  /\ lobby' = Append(lobby,
       [status |-> "READY_CHECK", slot |-> Min(FreeSlots), due |-> FALSE, lock |-> None,
        accepted |-> {}, at |-> [p \in Player |-> IF p \in S THEN queue[p] ELSE 0]])
  /\ queue' = [p \in Player |-> IF p \in S THEN 0 ELSE queue[p]] /\ here' = here \ S
  /\ idle' = FALSE
  /\ UNCHANGED <<tickets, banned, tx, told>>
\* The reset commits though no lobby forms.
Expires == /\ idle /\ queue' = Waiting /\ here' = {} /\ idle' = FALSE
           /\ UNCHANGED <<tickets, lobby, banned, tx, told>>

-----------------------------------------------------------------------------
(* The ready check *)

AcceptReads(x, p, l) ==
  /\ tx[x].pc = "idle" /\ l \in Lobbies
  /\ lobby[l].status = "READY_CHECK" /\ p \in Roster(l)
  /\ Begins(x, "accept", "claim", p, l)
  /\ UNCHANGED <<queue, here, idle, tickets, lobby, banned, told>>

\* The player's row is claimed where its lobby, as committed, is still in the
\* check.  Another open accept of the same player holds the row.
AcceptClaims(x) ==
  LET l == tx[x].lobby  p == tx[x].player IN
  /\ tx[x].op = "accept" /\ tx[x].pc = "claim"
  /\ ~\E y \in Proc \ {x} : tx[y].op = "accept" /\ tx[y].wrote /\ tx[y].player = p
  /\ Overlaps \/ Unlocked(l)
  /\ IF lobby[l].status = "READY_CHECK"
     THEN tx' = [tx EXCEPT ![x] = [@ EXCEPT !.pc = "count", !.wrote = p \notin lobby[l].accepted]]
     ELSE Ends(x)
  /\ UNCHANGED <<queue, here, idle, tickets, lobby, banned, told>>

Accepted(x) == LET l == tx[x].lobby  p == tx[x].player IN
  [lobby[l] EXCEPT !.accepted = IF tx[x].wrote THEN @ \cup {p} ELSE @]
\* The others' accepts count only if they are committed: two last accepts can
\* each see the other pending.
AcceptCounts(x) ==
  LET l == tx[x].lobby IN
  /\ tx[x].op = "accept" /\ tx[x].pc = "count"
  /\ tx' = [tx EXCEPT ![x].pc = IF Pending(l) \subseteq {tx[x].player} THEN "flip" ELSE "commit"]
  /\ UNCHANGED <<queue, here, idle, tickets, lobby, banned, told>>
AcceptCommits(x) ==
  /\ tx[x].op = "accept" /\ tx[x].pc = "commit"
  /\ lobby' = [lobby EXCEPT ![tx[x].lobby] = Accepted(x)]
  /\ told' = told \cup {<<tx[x].lobby, tx[x].player>>} /\ Ends(x)
  /\ UNCHANGED <<queue, here, idle, tickets, banned>>

\* startCaptainVote
Flipped(row) == IF row.status = "READY_CHECK"
                THEN [row EXCEPT !.status = "CAPTAIN_VOTE", !.due = FALSE] ELSE row
AcceptFlips(x) ==
  LET l == tx[x].lobby IN
  /\ tx[x].op = "accept" /\ tx[x].pc = "flip" /\ Unlocked(l)
  /\ lobby' = [lobby EXCEPT ![l] = Flipped(Accepted(x))]
  /\ told' = told \cup {<<l, tx[x].player>>} /\ Ends(x)
  /\ UNCHANGED <<queue, here, idle, tickets, banned>>

DeclineReads(x, p, l) ==
  /\ tx[x].pc = "idle" /\ l \in Lobbies
  /\ lobby[l].status = "READY_CHECK" /\ p \in Roster(l)
  /\ Begins(x, "decline", "fail", p, l)
  /\ UNCHANGED <<queue, here, idle, tickets, lobby, banned, told>>

\* A poller's resolver: everybody accepted, or the clock ran out.
Verdict(l) == IF Pending(l) = {} THEN "vote" ELSE IF lobby[l].due THEN "fail" ELSE "wait"
ResolverReads(x, l) ==
  /\ tx[x].pc = "idle" /\ l \in Lobbies
  /\ lobby[l].status = "READY_CHECK" /\ Verdict(l) # "wait"
  /\ Begins(x, "resolve", Verdict(l), None, l)
  /\ UNCHANGED <<queue, here, idle, tickets, lobby, banned, told>>
ResolverFlips(x) ==
  LET l == tx[x].lobby IN
  /\ tx[x].op = "resolve" /\ tx[x].pc = "vote" /\ Unlocked(l)
  /\ lobby' = [lobby EXCEPT ![l] = Flipped(lobby[l])] /\ Ends(x)
  /\ UNCHANGED <<queue, here, idle, tickets, banned, told>>

\* An admin's cancelLobby, in any live phase.
CancelReads(x, l) ==
  /\ tx[x].pc = "idle" /\ l \in Live /\ tickets < MaxTickets
  /\ Begins(x, "cancel", "fail", None, l)
  /\ UNCHANGED <<queue, here, idle, tickets, lobby, banned, told>>

\* Mutant: a game marked over can be cancelled too.
CancellableAny(op) == Active \cup {"AWAITING_RESULT"}
Cancellable(op) == IF op = "cancel" THEN Active ELSE {"READY_CHECK"}
\* The CANCELLED claim takes the lobby's row.
FailClaims(x) ==
  LET l == tx[x].lobby IN
  /\ tx[x].pc = "fail" /\ Unlocked(l)
  /\ Overlaps \/ ~\E y \in Proc : tx[y].lobby = l /\ tx[y].pc \in {"count", "commit", "flip"}
  /\ IF lobby[l].status \in Cancellable(tx[x].op)
     THEN /\ lobby' = [lobby EXCEPT ![l].lock = x] /\ tx' = [tx EXCEPT ![x].pc = "held"]
     ELSE Ends(x) /\ UNCHANGED lobby
  /\ UNCHANGED <<queue, here, idle, tickets, banned, told>>

\* Who goes back: read after the claim.  A cancel puts everyone back, a decline
\* everyone else, the clock those who accepted; a banned player goes nowhere.
GoBack(x) == LET l == tx[x].lobby IN
  (CASE tx[x].op = "cancel"  -> Roster(l)
     [] tx[x].op = "decline" -> Roster(l) \ {tx[x].player}
     [] OTHER                -> lobby[l].accepted) \ banned
FailRereads(x) ==
  /\ tx[x].pc = "held"
  /\ tx' = [tx EXCEPT ![x] = [@ EXCEPT !.pc = "requeue", !.back = GoBack(x),
       !.fresh = IF tx[x].op = "cancel" THEN {} ELSE lobby[tx[x].lobby].accepted]]
  /\ UNCHANGED <<queue, here, idle, tickets, lobby, banned, told>>

\* A cancel appends the ten in their old order; a failed check gives each
\* player the very place they had.
\* Mutant: everyone rejoins at the end.
PlaceLast(x, p) == LET l == tx[x].lobby IN
  tickets + 1 + Cardinality({q \in tx[x].back : lobby[l].at[q] < lobby[l].at[p]})
Place(x, p) == LET l == tx[x].lobby IN
  IF tx[x].op = "cancel"
  THEN IF Waiting[p] > 0 THEN Waiting[p] ELSE PlaceLast(x, p)
  ELSE lobby[l].at[p]
\* The queue rows and the cancelled lobby appear together.
FailCommits(x) ==
  LET l == tx[x].lobby  back == tx[x].back IN
  /\ tx[x].pc = "requeue"
  /\ queue' = [p \in Player |-> IF p \in back THEN Place(x, p) ELSE Waiting[p]]
  /\ here' = ({p \in here : queue'[p] > 0} \ back) \cup (back \cap tx[x].fresh)
  /\ idle' = FALSE
  /\ tickets' = IF tx[x].op = "cancel" THEN tickets + Cardinality(back) ELSE tickets
  /\ lobby' = [lobby EXCEPT ![l] = [@ EXCEPT !.status = "CANCELLED", !.lock = None, !.due = FALSE]]
  /\ Ends(x) /\ UNCHANGED <<banned, told>>

ClockRunsOut(l) ==
  /\ l \in Lobbies /\ lobby[l].status = "READY_CHECK" /\ ~lobby[l].due
  /\ lobby' = [lobby EXCEPT ![l].due = TRUE]
  /\ UNCHANGED <<queue, here, idle, tickets, banned, tx, told>>

-----------------------------------------------------------------------------
(* Bans *)

LiveLobbyOf(p) == IF LobbyOf(p) = {} THEN 0 ELSE Min(LobbyOf(p))
SeenBy(p) == [place |-> queue[p],
              status |-> IF LobbyOf(p) = {} THEN "none" ELSE lobby[LiveLobbyOf(p)].status]
\* A SERIALIZABLE transaction: what it read, it saw at its beginning.
BanReads(x, p) ==
  /\ tx[x].pc = "idle" /\ p \notin banned
  /\ tx' = [tx EXCEPT ![x] = [NoTx EXCEPT !.op = "ban", !.pc = "ban", !.player = p,
                                          !.lobby = LiveLobbyOf(p), !.seen = SeenBy(p)]]
  /\ UNCHANGED <<queue, here, idle, tickets, lobby, banned, told>>
\* It writes the row of a game the player is in, as a lock: a rival that wrote
\* it since aborts it, and the retry reads anew.
BanStands(x) == LET l == tx[x].lobby  p == tx[x].player IN
  IF l # 0 THEN lobby[l].status = tx[x].seen.status ELSE SeenBy(p) = tx[x].seen
BanCommits(x) ==
  LET l == tx[x].lobby  p == tx[x].player IN
  /\ tx[x].pc = "ban" /\ (l # 0 => Unlocked(l))
  /\ IF BanStands(x)
     THEN /\ banned' = banned \cup {p}
          /\ queue' = [Waiting EXCEPT ![p] = 0]
          /\ here' = {q \in here : queue'[q] > 0} /\ idle' = FALSE
     ELSE UNCHANGED <<queue, here, idle, banned>>
  /\ Ends(x)
  /\ UNCHANGED <<tickets, lobby, told>>

-----------------------------------------------------------------------------
(* The rest of the lobby's life, each a guarded claim on its status.  The     *)
(* vote and the draft are one phase here, and so are READY and IN_PROGRESS.   *)

Moves(l, from, to) ==
  /\ l \in Lobbies /\ lobby[l].status \in from /\ Unlocked(l)
  /\ lobby' = [lobby EXCEPT ![l].status = to]
  /\ UNCHANGED <<queue, here, idle, tickets, banned, tx, told>>
Recordable == {"READY", "AWAITING_RESULT"}
TeamsLock(l)  == Moves(l, {"CAPTAIN_VOTE"}, "READY")
GameOver(l)   == Moves(l, {"READY"}, "AWAITING_RESULT")
ResultIn(l)   == Moves(l, Recordable, "COMPLETED")
Abandoned(l)  == Moves(l, {"READY", "AWAITING_RESULT"}, "CANCELLED")

-----------------------------------------------------------------------------
Init ==
  /\ queue = [p \in Player |-> 0] /\ here = {} /\ idle = FALSE /\ tickets = 0
  /\ lobby = <<>> /\ banned = {} /\ tx = [x \in Proc |-> NoTx] /\ told = {}

Queues  == (\E p \in Player : Join(p) \/ Leave(p) \/ Heartbeat(p) \/ GoesAway(p))
           \/ QueueIdles \/ Form \/ Expires
Answers(x) == \E p \in Player, l \in 1 .. MaxLobbies : AcceptReads(x, p, l) \/ DeclineReads(x, p, l)
Resolves(x) == \E l \in 1 .. MaxLobbies : ResolverReads(x, l)
Proceeds(x) == AcceptClaims(x) \/ AcceptCounts(x) \/ AcceptCommits(x) \/ AcceptFlips(x) \/ ResolverFlips(x)
               \/ FailClaims(x) \/ FailRereads(x) \/ FailCommits(x) \/ BanCommits(x)
Moderates(x) == (\E l \in 1 .. MaxLobbies : CancelReads(x, l)) \/ (\E p \in Player : BanReads(x, p))
Plays   == \E l \in 1 .. MaxLobbies : TeamsLock(l) \/ GameOver(l) \/ ResultIn(l) \/ Abandoned(l)
Next == \/ Queues \/ Plays \/ (\E l \in 1 .. MaxLobbies : ClockRunsOut(l))
        \/ \E x \in Proc : Answers(x) \/ Resolves(x) \/ Proceeds(x) \/ Moderates(x)
Spec == Init /\ [][Next]_vars
=============================================================================
