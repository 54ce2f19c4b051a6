------------------------------- MODULE Duels -------------------------------
(***************************************************************************)
(* The 1v1 mid inhouse: a queue, pairs that must both accept, a lobby the  *)
(* bot hosts and launches, a result from OpenDota.  Every change of a duel *)
(* is a claim on the state it judged; players, admins, the bot's panel and *)
(* the one-minute worker race for them.                                    *)
(*                                                                         *)
(* Joins and the sweep are serializable transactions, one step each.  A    *)
(* close that requeues is READ COMMITTED: Lock claims the duel's row and   *)
(* reads the bans, Requeue commits.  Dota, OpenDota and 5v5 games are      *)
(* external.  Ages stand for the clocks, stamps for the times compared.    *)
(***************************************************************************)
EXTENDS Integers, FiniteSets, Sequences

CONSTANTS Users,
          Procs, Worker,   \* handlers in flight; one of them is the worker's
          MaxDuels,
          MaxNow,          \* bound on pairings and launches
          Grace,           \* how many of them START_GRACE_SECONDS may span
          MaxAge,          \* how many of a duel's three clocks may run out
          Hosts,           \* whether the bot can be asked for a lobby
          Panel,           \* handlers that read the bot for someone looking on
          MaxMoves,        \* bound on bans, 5v5 games and players going away
          MaxLost,         \* bound on bot releases lost
          None

DuelsAssumption ==
  /\ {MaxDuels, MaxNow, Grace, MaxAge, MaxMoves, MaxLost} \subseteq Nat /\ MaxAge <= 3 /\ Worker \in Procs /\ Hosts \in BOOLEAN /\ None \notin Users

VARIABLES now,
          queue,     \* [Users -> row or None]: joined, present, fresh (not expired)
          in5v5, banned,
          duels,     \* InhouseDuel rows, oldest first
          age,       \* 0 accept open, 1 accept over, 2 setup over, 3 given up on
          games,     \* Dota games by id: the duels' own and one arranged elsewhere
          lobby,     \* the bot's job for each duel
          releases,  \* releases on their way to the bot
          jobs, moves, lost
vars == <<now, queue, in5v5, banned, duels, age, games, lobby, releases, jobs, moves, lost>>

Ids == 1..MaxDuels
Elsewhere == MaxDuels + 1
GameIds == Ids \union {Elsewhere}
Live == {"ACCEPTING", "READY", "PLAYING"}
TakesResult == {"READY", "PLAYING", "AWAITING_RESULT"}
Open == Live \union TakesResult

-----------------------------------------------------------------------------
(* The queue                                                               *)

InLive(u) == \E d \in DOMAIN duels : u \in duels[d].players /\ duels[d].status \in Live
Busy(u) == u \in in5v5 \/ InLive(u)
Row(stamp) == [joined |-> stamp, present |-> TRUE, fresh |-> TRUE]

pairableDuelWaiters(but) ==
  {u \in Users \ {but} : queue[u] # None /\ ~Busy(u) /\ queue[u].present /\ queue[u].fresh}

Oldest(us) == CHOOSE u \in us : \A v \in us : queue[u].joined <= queue[v].joined

Stamp == now < MaxNow /\ now' = now + 1

ClaimedRows(us, first) == us

claimPair(first, second) ==
  /\ Len(duels) < MaxDuels
  /\ Stamp
  /\ queue' = [u \in Users |-> IF u \in ClaimedRows({first, second}, first) THEN None ELSE queue[u]]
  /\ duels' = Append(duels, [status |-> "ACCEPTING", players |-> {first, second}, accepts |-> {},
                             created |-> now, started |-> FALSE, botMatch |-> FALSE, match |-> None])

joinDuelQueue(u) ==
  /\ u \notin banned /\ ~Busy(u)
  /\ \/ pairableDuelWaiters(u) # {} /\ claimPair(u, Oldest(pairableDuelWaiters(u)))
     \/ /\ pairableDuelWaiters(u) = {}
        /\ IF queue[u] # None /\ queue[u].fresh
           THEN queue' = [queue EXCEPT ![u].present = TRUE]
           ELSE queue' = [queue EXCEPT ![u] = Row(now)]
        /\ UNCHANGED <<now, duels>>
  /\ UNCHANGED <<in5v5, banned, age, games, lobby, releases, jobs, moves, lost>>

\* Leaving, or an administrator taking a player out.
leaveDuelQueue(u) ==
  /\ queue[u] # None
  /\ queue' = [queue EXCEPT ![u] = None]
  /\ UNCHANGED <<now, in5v5, banned, duels, age, games, lobby, releases, jobs, moves, lost>>

TwoWait(us) == Cardinality(us) >= 2

pairDuelQueue ==
  /\ TwoWait(pairableDuelWaiters(None))
  /\ LET first == Oldest(pairableDuelWaiters(None)) IN claimPair(first, Oldest(pairableDuelWaiters(first)))
  /\ UNCHANGED <<in5v5, banned, age, games, lobby, releases, jobs, moves, lost>>

expireDuelQueue(u) ==
  /\ queue[u] # None /\ ~queue[u].fresh
  /\ queue' = [queue EXCEPT ![u] = None]
  /\ UNCHANGED <<now, in5v5, banned, duels, age, games, lobby, releases, jobs, moves, lost>>

-----------------------------------------------------------------------------
(* Claims on a duel's row wait while a close holds its lock.               *)

Closing(d) == \E p \in Procs : jobs[p] # None /\ jobs[p].kind = "close" /\ jobs[p].duel = d
Claims(d, statuses) == d \in DOMAIN duels /\ ~Closing(d) /\ duels[d].status \in statuses

Set(d, new) == duels' = [duels EXCEPT ![d] = new]
Cancelled(d) == [duels[d] EXCEPT !.status = "CANCELLED"]
Done(p) == jobs' = [jobs EXCEPT ![p] = None]
Frees(d) == releases' = releases \union {d}

\* A claim with its publish and, when the game or the setup ended, the bot's release.
EndsDuel(d, new) ==
  /\ Set(d, new) /\ Frees(d)
  /\ UNCHANGED <<now, queue, in5v5, banned, age, games, lobby, moves, lost>>

BeginAccept(p, u, d) ==
  /\ jobs[p] = None /\ p # Worker
  /\ duels[d].status = "ACCEPTING" /\ u \in duels[d].players \ duels[d].accepts /\ age[d] = 0
  /\ jobs' = [jobs EXCEPT ![p] = [kind |-> "accept", duel |-> d, user |-> u]]
  /\ UNCHANGED <<now, queue, in5v5, banned, duels, age, games, lobby, releases, moves, lost>>

acceptDuel(p) ==
  /\ jobs[p] # None /\ jobs[p].kind = "accept"
  /\ Claims(jobs[p].duel, {"ACCEPTING"}) /\ jobs[p].user \notin duels[jobs[p].duel].accepts
  /\ duels' = [duels EXCEPT ![jobs[p].duel].accepts = @ \union {jobs[p].user}]
  /\ jobs' = [jobs EXCEPT ![p] = [kind |-> "promote", duel |-> jobs[p].duel]]
  /\ UNCHANGED <<now, queue, in5v5, banned, age, games, lobby, releases, moves, lost>>

\* The second accept, or the worker for one whose promote never ran.
promoteAcceptedDuel(p, d) ==
  /\ Claims(d, {"ACCEPTING"}) /\ duels[d].accepts = duels[d].players
  /\ Set(d, [duels[d] EXCEPT !.status = "READY"])
  /\ jobs' = [jobs EXCEPT ![p] = [kind |-> "create", duel |-> d]]
  /\ UNCHANGED <<now, queue, in5v5, banned, age, games, lobby, releases, moves, lost>>

duelRequeueAfterAccept(accepts, players, by) == IF by = None THEN accepts ELSE players \ {by}

Lock(p, d, by, accepts) ==
  /\ jobs' = [jobs EXCEPT ![p] = [kind |-> "close", duel |-> d, by |-> by,
                back |-> duelRequeueAfterAccept(accepts, duels[d].players, by) \ banned]]
  /\ UNCHANGED <<now, queue, in5v5, banned, duels, age, games, lobby, releases, moves, lost>>

declineDuel(p, u, d) ==
  /\ jobs[p] = None /\ p # Worker
  /\ Claims(d, {"ACCEPTING"}) /\ u \in duels[d].players
  /\ Lock(p, d, u, duels[d].accepts)

\* The worker read the duel out of time; a last accept may land before its claim.
BeginSettle(p, d) ==
  /\ p = Worker /\ jobs[p] = None
  /\ duels[d].status = "ACCEPTING" /\ age[d] > 0 /\ duels[d].accepts # duels[d].players
  /\ jobs' = [jobs EXCEPT ![p] = [kind |-> "settle", duel |-> d, seen |-> duels[d].accepts]]
  /\ UNCHANGED <<now, queue, in5v5, banned, duels, age, games, lobby, releases, moves, lost>>

StampsFrozen(p, d) == duels[d].accepts

settleDuelAccepts(p, d) ==
  /\ jobs[p] # None /\ jobs[p].kind = "settle" /\ jobs[p].duel = d
  /\ Claims(d, {"ACCEPTING"}) /\ duels[d].accepts # duels[d].players
  /\ Lock(p, d, None, StampsFrozen(p, d))

requeueAtFront(p) ==
  /\ jobs[p] # None /\ jobs[p].kind = "close"
  /\ LET d == jobs[p].duel
     IN /\ Set(d, Cancelled(d))
        /\ queue' = [u \in Users |->
             IF u \in jobs[p].back THEN Row(duels[d].created) ELSE queue[u]]
  /\ Done(p)
  /\ UNCHANGED <<now, in5v5, banned, age, games, lobby, releases, moves, lost>>

callOffDuel(d) ==
  /\ Claims(d, {"READY"}) /\ ~duels[d].started
  /\ EndsDuel(d, Cancelled(d)) /\ UNCHANGED jobs

finishDuel(d) ==
  /\ Claims(d, {"PLAYING"})
  /\ EndsDuel(d, [duels[d] EXCEPT !.status = "AWAITING_RESULT"]) /\ UNCHANGED jobs

cancelDuel(d) == Claims(d, Open) /\ EndsDuel(d, Cancelled(d)) /\ UNCHANGED jobs

Voided(d) == [Cancelled(d) EXCEPT !.match = None]

voidDuelResult(d) ==
  /\ Claims(d, {"COMPLETED"})
  /\ Set(d, Voided(d))
  /\ UNCHANGED <<now, queue, in5v5, banned, age, games, lobby, releases, jobs, moves, lost>>

-----------------------------------------------------------------------------
(* The bot: what it reports, and what the site does about it.  The worker  *)
(* reads it for READY and PLAYING duels, a panel when someone looks.       *)

Reported(d) == CASE lobby[d] = "left" -> "started" [] OTHER -> lobby[d]

duelBotGameStatus(p, d) ==
  /\ jobs[p] = None /\ p \in Panel \union {Worker}
  /\ duels[d].status \in IF p = Worker THEN {"READY", "PLAYING"} ELSE TakesResult
  /\ jobs' = [jobs EXCEPT ![p] = [kind |-> "bot", duel |-> d, row |-> duels[d], bot |-> Reported(d)]]
  /\ UNCHANGED <<now, queue, in5v5, banned, duels, age, games, lobby, releases, moves, lost>>

duelHadGame(row) == row.status \in {"PLAYING", "AWAITING_RESULT"} \/ row.started

duelBotEndedWithoutGame(row) == duelHadGame(row)

\* What the claims of a read turn the duel's row into; its own value when none holds.
ReadApplied(j) ==
  LET row == duels[j.duel]
  IN IF j.bot = "over" /\ j.row.status \in Live /\ row.status \in {"READY", "PLAYING"}
     THEN [row EXCEPT !.status = "AWAITING_RESULT"]
     ELSE IF j.bot = "started" /\ row.status \in TakesResult
     THEN [row EXCEPT !.botMatch = TRUE, !.started = @ \/ row.status = "READY",
                      !.status = IF @ = "READY" THEN "PLAYING" ELSE @]
     ELSE IF j.bot = "released" /\ duelBotEndedWithoutGame(j.row) /\ row.status \in TakesResult
     THEN [row EXCEPT !.status = "CANCELLED"]
     ELSE row

\* The worker's pass goes on with what it read.
applyDuelBotStatus(p) ==
  /\ jobs[p] # None /\ jobs[p].kind = "bot"
  /\ LET new == ReadApplied(jobs[p])
     IN /\ Set(jobs[p].duel, new)
        /\ IF new.status \in {"AWAITING_RESULT", "CANCELLED"} /\ new # duels[jobs[p].duel]
           THEN Frees(jobs[p].duel) ELSE UNCHANGED releases
  /\ IF p = Worker THEN jobs' = [jobs EXCEPT ![p].kind = "pass"] ELSE Done(p)
  /\ UNCHANGED <<now, queue, in5v5, banned, age, games, lobby, moves, lost>>

\* The pass asks for the lobby the bot does not have, or a player's panel does.
retryDuelBotCreate(p) ==
  /\ jobs[p] # None /\ jobs[p].kind = "pass"
  /\ jobs[p].row.status = "READY" /\ jobs[p].bot \in {"idle", "released"}
  /\ duels[jobs[p].duel].status = "READY"
  /\ jobs' = [jobs EXCEPT ![p] = [kind |-> "create", duel |-> jobs[p].duel]]
  /\ UNCHANGED <<now, queue, in5v5, banned, duels, age, games, lobby, releases, moves, lost>>

Holds == {d \in Ids : lobby[d] \in {"open", "started"}}
Freeable(d) == duels[d].status \in {"COMPLETED", "CANCELLED", "AWAITING_RESULT"}
ReleasedLobby(d) ==
  CASE lobby[d] = "open" -> "released" [] lobby[d] = "started" -> "left" [] OTHER -> lobby[d]

\* A 5v5 in setup has the bot saved, and then nothing is asked.
AskBot(p) ==
  /\ jobs[p] # None /\ jobs[p].kind = "create" /\ Hosts
  /\ duels[jobs[p].duel].status = "READY"
  /\ jobs' = [jobs EXCEPT ![p].kind = "asked"]
  /\ UNCHANGED <<now, queue, in5v5, banned, duels, age, games, lobby, releases, moves, lost>>

\* The duel may have closed since.  A busy bot is freed from a game the site closed.
callLobbyBot(p) ==
  /\ jobs[p] # None /\ jobs[p].kind = "asked"
  /\ LET d == jobs[p].duel
     IN IF Holds \subseteq {d}
        THEN /\ lobby' = [lobby EXCEPT ![d] = IF @ \in {"idle", "released"} THEN "open" ELSE @]
             /\ jobs' = [jobs EXCEPT ![p].kind = "created"]
        ELSE /\ lobby' = [x \in Ids |-> IF x \in Holds /\ Freeable(x) THEN ReleasedLobby(x) ELSE lobby[x]]
             /\ Done(p)
  /\ UNCHANGED <<now, queue, in5v5, banned, duels, age, games, releases, moves, lost>>

ClosedMeanwhile(d) == duels[d].status # "READY"

createDuelBotLobby(p) ==
  /\ jobs[p] # None /\ jobs[p].kind = "created"
  /\ releases' = IF ClosedMeanwhile(jobs[p].duel) THEN releases \union {jobs[p].duel} ELSE releases
  /\ Done(p)
  /\ UNCHANGED <<now, queue, in5v5, banned, duels, age, games, lobby, moves, lost>>

releaseDuelBotLobby(d) ==
  /\ d \in releases
  /\ releases' = releases \ {d}
  /\ lobby' = [lobby EXCEPT ![d] = ReleasedLobby(d)]
  /\ UNCHANGED <<now, queue, in5v5, banned, duels, age, games, jobs, moves, lost>>

-----------------------------------------------------------------------------
(* Results                                                                 *)

Later(d) == {x \in DOMAIN duels : duels[x].created > duels[d].created
                                 /\ duels[x].players \intersect duels[d].players # {}}

BeforeNextDuel(d, g) == \A x \in Later(d) : games[g].start < duels[x].created

\* Two minutes before the pairing, for the skew of two clocks.
duelMatchFloorSeconds(d) == duels[d].created - Grace

validateDuelMatch(d, g) ==
  /\ games[g] # None /\ games[g].state = "published"
  /\ games[g].players = duels[d].players
  /\ games[g].start >= duelMatchFloorSeconds(d)
  /\ BeforeNextDuel(d, g)

sharedDuelMatchIds(d) == {g \in GameIds : validateDuelMatch(d, g)}

lookUpDuelGame(d) ==
  IF duels[d].botMatch /\ validateDuelMatch(d, d) THEN {d}
  ELSE {g \in sharedDuelMatchIds(d) : \A h \in sharedDuelMatchIds(d) : games[g].start <= games[h].start}

Fetch(p, d, g) ==
  /\ jobs' = [jobs EXCEPT ![p] = [kind |-> "apply", duel |-> d, match |-> g]]
  /\ UNCHANGED <<now, queue, in5v5, banned, duels, age, games, lobby, releases, moves, lost>>

maybeAutoDetectDuelResults(p, d) ==
  /\ p = Worker /\ jobs[p] = None
  /\ duels[d].status \in TakesResult /\ (duels[d].status = "READY" => duels[d].started)
  /\ \E g \in lookUpDuelGame(d) : Fetch(p, d, g)

recordDuelMatch(p, d, g) ==
  /\ p # Worker /\ jobs[p] = None
  /\ duels[d].status \in TakesResult
  /\ validateDuelMatch(d, g)
  /\ Fetch(p, d, g)

\* Mutant: a result lands on a closed duel.
AlreadyRecorded(g) == \E x \in DOMAIN duels : duels[x].match = g
Lands(j) == duels[j.duel].status \in TakesResult

applyDuelResult(p) ==
  /\ jobs[p] # None /\ jobs[p].kind = "apply"
  /\ Lands(jobs[p]) /\ ~AlreadyRecorded(jobs[p].match)
  /\ Set(jobs[p].duel, [duels[jobs[p].duel] EXCEPT !.status = "COMPLETED", !.match = jobs[p].match])
  /\ Frees(jobs[p].duel)
  /\ Done(p)
  /\ UNCHANGED <<now, queue, in5v5, banned, age, games, lobby, moves, lost>>

-----------------------------------------------------------------------------
(* Giving up                                                               *)

\* The never-played call-off waits for a read of this pass that shows no game.
neverPlayedMayClose(j) == age[j.duel] = 3 \/ j.bot # "started"

giveUpNeverPlayed(p) ==
  /\ jobs[p] # None /\ jobs[p].kind = "pass"
  /\ LET d == jobs[p].duel
     IN /\ Claims(d, {"READY"}) /\ ~duels[d].started /\ age[d] >= 2
        /\ neverPlayedMayClose(jobs[p])
        /\ EndsDuel(d, Cancelled(d))
  /\ Done(p)

\* Mutant: only a game reported over is given up on.
AwaitsReported(d) == Claims(d, {"AWAITING_RESULT"})
AwaitsResult(d) == Claims(d, {"PLAYING", "AWAITING_RESULT"})

giveUpOnResult(p, d) ==
  /\ p = Worker /\ jobs[p] = None
  /\ AwaitsResult(d) /\ age[d] = 3
  /\ EndsDuel(d, Cancelled(d)) /\ UNCHANGED jobs

\* The claim finds another state, or there is nothing left to do.
Finished(j) ==
  CASE j.kind = "accept" -> ~(Claims(j.duel, {"ACCEPTING"}) /\ j.user \notin duels[j.duel].accepts)
    [] j.kind = "promote" -> duels[j.duel].status # "ACCEPTING" \/ duels[j.duel].accepts # duels[j.duel].players
    [] j.kind = "settle" -> duels[j.duel].status # "ACCEPTING" \/ duels[j.duel].accepts = duels[j.duel].players
    [] j.kind = "create" -> duels[j.duel].status # "READY" \/ in5v5 # {} \/ ~Hosts
    [] j.kind = "pass" -> TRUE
    [] j.kind = "apply" -> ~Lands(j) \/ AlreadyRecorded(j.match)
    [] OTHER -> FALSE

GoHome(p) ==
  /\ jobs[p] # None /\ Finished(jobs[p])
  /\ Done(p)
  /\ UNCHANGED <<now, queue, in5v5, banned, duels, age, games, lobby, releases, moves, lost>>

\* A handler dies; its open transaction rolls back.
Crash(p) ==
  /\ jobs[p] # None /\ lost < MaxLost
  /\ lost' = lost + 1
  /\ Done(p)
  /\ UNCHANGED <<now, queue, in5v5, banned, duels, age, games, lobby, releases, moves>>

LoseRelease(d) ==
  /\ d \in releases /\ lost < MaxLost
  /\ lost' = lost + 1
  /\ releases' = releases \ {d}
  /\ UNCHANGED <<now, queue, in5v5, banned, duels, age, games, lobby, jobs, moves>>

-----------------------------------------------------------------------------
(* Around the duels                                                        *)

Move == moves < MaxMoves /\ moves' = moves + 1

\* Mutant: the ban does not write the rows of the player's live duels.
BanAnyway(u) == TRUE
BanWaits(u) == \A d \in DOMAIN duels : u \in duels[d].players => ~Closing(d)

banInhousePlayer(u) ==
  /\ Move /\ u \notin banned /\ BanWaits(u)
  /\ banned' = banned \union {u}
  /\ queue' = [queue EXCEPT ![u] = None]
  /\ UNCHANGED <<now, in5v5, duels, age, games, lobby, releases, jobs, lost>>

Play5v5(us) ==
  /\ Move /\ in5v5' = us /\ in5v5 # us
  /\ UNCHANGED <<now, queue, banned, duels, age, games, lobby, releases, jobs, lost>>

Away(u) ==
  /\ Move /\ queue[u] # None
  /\ \/ queue' = [queue EXCEPT ![u].present = ~@]
     \/ queue[u].fresh /\ queue' = [queue EXCEPT ![u].fresh = FALSE]
  /\ UNCHANGED <<now, in5v5, banned, duels, age, games, lobby, releases, jobs, lost>>

Clock(d) ==
  /\ duels[d].status \in Open /\ age[d] < MaxAge
  /\ age' = [age EXCEPT ![d] = @ + 1]
  /\ UNCHANGED <<now, queue, in5v5, banned, duels, games, lobby, releases, jobs, moves, lost>>

\* A game starts from the bot's lobby, or two players play one elsewhere.
Launch(d) ==
  /\ lobby[d] = "open" /\ Stamp
  /\ lobby' = [lobby EXCEPT ![d] = "started"]
  /\ games' = [games EXCEPT ![d] = [players |-> duels[d].players, start |-> now, state |-> "running"]]
  /\ UNCHANGED <<queue, in5v5, banned, duels, age, releases, jobs, moves, lost>>

PlayElsewhere(us) ==
  /\ games[Elsewhere] = None /\ Stamp
  /\ games' = [games EXCEPT ![Elsewhere] = [players |-> us, start |-> now, state |-> "running"]]
  /\ UNCHANGED <<queue, in5v5, banned, duels, age, lobby, releases, jobs, moves, lost>>

\* A game ends and OpenDota publishes it, or Dota does not score it.
EndGame(g, scored) ==
  /\ games[g] # None /\ games[g].state = "running"
  /\ games' = [games EXCEPT ![g].state = IF scored THEN "published" ELSE "unscored"]
  /\ lobby' = [d \in Ids |-> IF d = g /\ lobby[d] = "started"
                             THEN IF scored THEN "over" ELSE "released" ELSE lobby[d]]
  /\ UNCHANGED <<now, queue, in5v5, banned, duels, age, releases, jobs, moves, lost>>

\* The Game Coordinator drops a lobby nobody launched.
DropLobby(d) ==
  /\ lobby[d] = "open" /\ Move
  /\ lobby' = [lobby EXCEPT ![d] = "released"]
  /\ UNCHANGED <<now, queue, in5v5, banned, duels, age, games, releases, jobs, lost>>

-----------------------------------------------------------------------------
Init ==
  /\ now = 0 /\ queue = [u \in Users |-> None]
  /\ in5v5 = {} /\ banned = {}
  /\ duels = <<>> /\ age = [d \in Ids |-> 0]
  /\ games = [g \in GameIds |-> None] /\ lobby = [d \in Ids |-> "idle"]
  /\ releases = {} /\ jobs = [p \in Procs |-> None]
  /\ moves = 0 /\ lost = 0

Handlers(p) ==
  \/ acceptDuel(p)
  \/ jobs[p] # None /\ jobs[p].kind = "promote" /\ promoteAcceptedDuel(p, jobs[p].duel)
  \/ requeueAtFront(p)
  \/ applyDuelBotStatus(p)
  \/ AskBot(p)
  \/ callLobbyBot(p)
  \/ createDuelBotLobby(p)
  \/ applyDuelResult(p)

WorkerOn(d) ==
  \/ jobs[Worker] = None /\ promoteAcceptedDuel(Worker, d)
  \/ BeginSettle(Worker, d)
  \/ settleDuelAccepts(Worker, d)
  \/ duelBotGameStatus(Worker, d)
  \/ maybeAutoDetectDuelResults(Worker, d)
  \/ giveUpOnResult(Worker, d)

Next ==
  \/ \E u \in Users : \/ joinDuelQueue(u)
                      \/ leaveDuelQueue(u)
                      \/ expireDuelQueue(u)
                      \/ banInhousePlayer(u)
                      \/ Away(u)
  \/ pairDuelQueue
  \/ \E d \in DOMAIN duels :
       \/ \E p \in Procs : \/ \E u \in Users : BeginAccept(p, u, d) \/ declineDuel(p, u, d)
                           \/ duelBotGameStatus(p, d)
                           \/ \E g \in GameIds : games[g] # None /\ recordDuelMatch(p, d, g)
       \/ WorkerOn(d)
       \/ callOffDuel(d)
       \/ finishDuel(d)
       \/ cancelDuel(d)
       \/ voidDuelResult(d)
       \/ Clock(d)
       \/ Launch(d)
       \/ DropLobby(d)
       \/ releaseDuelBotLobby(d)
       \/ LoseRelease(d)
  \/ \E p \in Procs : \/ Handlers(p)
                      \/ retryDuelBotCreate(p)
                      \/ giveUpNeverPlayed(p)
                      \/ GoHome(p)
                      \/ Crash(p)
  \/ \E us \in SUBSET Users : Cardinality(us) = 2 /\ PlayElsewhere(us)
  \/ \E us \in SUBSET Users : Play5v5(us)
  \/ \E g \in GameIds, scored \in BOOLEAN : EndGame(g, scored)

Spec == Init /\ [][Next]_vars

\* The worker runs every minute and each pass tries every step; an open
\* transaction commits; clocks pass.
Fairness ==
  /\ WF_vars(Handlers(Worker)) /\ WF_vars(GoHome(Worker)) /\ WF_vars(pairDuelQueue)
  /\ SF_vars(giveUpNeverPlayed(Worker))
  /\ \A p \in Procs : WF_vars(requeueAtFront(p))
  /\ \A d \in Ids :
       /\ SF_vars(d \in DOMAIN duels /\ jobs[Worker] = None /\ promoteAcceptedDuel(Worker, d))
       /\ SF_vars(d \in DOMAIN duels /\ BeginSettle(Worker, d))
       /\ WF_vars(d \in DOMAIN duels /\ settleDuelAccepts(Worker, d))
       /\ SF_vars(d \in DOMAIN duels /\ duelBotGameStatus(Worker, d))
       /\ SF_vars(d \in DOMAIN duels /\ giveUpOnResult(Worker, d))
       /\ WF_vars(d \in DOMAIN duels /\ Clock(d))

FairSpec == Spec /\ Fairness

-----------------------------------------------------------------------------
(* Properties                                                              *)

\* The rows of InhouseDuelQueueEntry and InhouseDuel (prisma/schema.prisma).
TypeOK ==
  /\ \A u \in Users : queue[u] # None => queue[u].joined \in 0..MaxNow
  /\ \A d \in DOMAIN duels :
       /\ duels[d].status \in Open \union {"COMPLETED", "CANCELLED"}
       /\ Cardinality(duels[d].players) = 2 /\ duels[d].accepts \subseteq duels[d].players
       /\ (duels[d].status = "COMPLETED") <=> (duels[d].match # None)
  /\ age \in [Ids -> 0..3] /\ releases \subseteq Ids

\* However joins, leaves, the sweep and requeues cross, a player is in one live
\* 1v1 at most and never waits for another meanwhile (claimPair,
\* inhouse-duel-service.ts:177, and requeueAtFront).
OneDuelEach ==
  /\ \A c, d \in DOMAIN duels : duels[c].status \in Live /\ duels[d].status \in Live
       /\ duels[c].players \intersect duels[d].players # {} => c = d
  /\ \A u \in Users : InLive(u) => queue[u] = None

\* A banned player does not wait in the 1v1 queue, also when the ban crosses the
\* requeue of a declined pair (inhouse-ban-service.ts:216).
BannedStayOut == \A u \in banned : queue[u] = None

\* When a pair ends unaccepted, everyone who had accepted by then, and has not
\* declined or been banned, waits again in the place of that pairing, ahead of
\* whoever joined since (duelRequeueAfterAccept, inhouse-duel.ts:79).
AcceptersKeepTheirPlace ==
  \A p \in Procs : jobs[p] # None /\ jobs[p].kind = "close"
                       /\ duels'[jobs[p].duel] # duels[jobs[p].duel]
       => LET d == jobs[p].duel
          IN /\ duels'[d].status = "CANCELLED"
             /\ \A u \in duels[d].accepts \ ({jobs[p].by} \union banned) :
                  /\ queue'[u] # None
                  /\ \A v \in Users : queue'[v] # None /\ queue'[v].joined < queue'[u].joined
                       => queue'[v].joined < duels[d].created

\* The bot is not left holding a lobby of a 1v1 that closed: a release, or the
\* create that still looks at the duel again, is on its way
\* (createDuelBotLobby, inhouse-duel-bot.ts:169).
NoOrphanLobby ==
  \A d \in DOMAIN duels : lobby[d] = "open" /\ duels[d].status \notin {"READY", "PLAYING"}
    => \/ d \in releases
       \/ \E p \in Procs : jobs[p] # None /\ jobs[p].kind = "created" /\ jobs[p].duel = d

\* A recorded game is one these two played, begun no earlier than the grace before
\* their pairing and before either was paired again, and no two 1v1s share it
\* (validateDuelMatch, inhouse-duel.ts:503).
ResultsAreTheirOwn ==
  \A d \in DOMAIN duels : duels[d].match # None =>
    LET g == games[duels[d].match]
    IN /\ g.players = duels[d].players /\ g.start + Grace >= duels[d].created
       /\ \A x \in DOMAIN duels : duels[x].players \intersect g.players # {} /\ x # d
            => ~(duels[d].created < duels[x].created /\ duels[x].created < g.start)
       /\ \A x \in DOMAIN duels : duels[x].match = duels[d].match => x = d

\* A closed 1v1 stays closed: a cancel that lands during the OpenDota fetch beats
\* the result, and a recorded result changes only by a void
\* (applyDuelResult, inhouse-duel-service.ts:983).
ClosedStaysClosed ==
  \A d \in DOMAIN duels :
       /\ duels[d].status = "CANCELLED" => duels'[d] = duels[d]
       /\ duels[d].status = "COMPLETED" =>
            duels'[d] = duels[d] \/ (duels'[d].status = "CANCELLED" /\ duels'[d].match = None)

\* A lobby the bot lost before any game does not end the 1v1: inside its setup
\* time only a player, an administrator or a result closes a READY one
\* (duelBotEndedWithoutGame, inhouse-duel.ts:157).
LostLobbyKeepsDuel ==
  \A d \in DOMAIN duels :
       duels[d].status = "READY" /\ age[d] < 2 /\ duels'[d].status = "CANCELLED" => jobs' = jobs

\* What every state, and every step, of the 1v1s keeps.
DuelsAreSound == TypeOK /\ OneDuelEach /\ BannedStayOut /\ NoOrphanLobby /\ ResultsAreTheirOwn
DuelStep == AcceptersKeepTheirPlace /\ ClosedStaysClosed /\ LostLobbyKeepsDuel

Over(d) == d \in DOMAIN duels /\ duels[d].status \notin Open
Begun(d) == d \in DOMAIN duels

\* No pair holds its players for ever: whoever answers, however the bot and
\* OpenDota behave, every 1v1 is recorded or closed (runDuelWorkerSteps,
\* inhouse-duel-service.ts:1477).
DuelsEnd == \A d \in Ids : Begun(d) ~> Over(d)

\* Two waiters no join paired do not wait side by side for ever (pairDuelQueue,
\* inhouse-duel-service.ts:1372).
WaitersMeet ==
  (Cardinality(pairableDuelWaiters(None)) >= 2 /\ Len(duels) < MaxDuels /\ now < MaxNow)
  ~> (Cardinality(pairableDuelWaiters(None)) < 2 \/ Len(duels) = MaxDuels \/ now = MaxNow)
=============================================================================
