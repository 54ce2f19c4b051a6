------------------------------ MODULE LobbyBot ------------------------------
(***************************************************************************)
(* The lobby bot's controller: one Steam account that hosts one Dota lobby *)
(* at a time for every game of the league.  It claims the job it works on  *)
(* (active), saves each intent before it sends a command to Dota's Game    *)
(* Coordinator, follows the lobby's snapshots, and gives the claim up only *)
(* when Dota shows the account in no lobby.                                *)
(*                                                                         *)
(* The Game Coordinator and the players are external: Dota holds at most   *)
(* one lobby for the account, acts on the commands of `wire` in order and  *)
(* answers with the snapshots of `news`.  A dropped connection loses both; *)
(* the next welcome replays the lobby.  A crash keeps only the saved file. *)
(* A clock of the bot may pass whenever the messages of a live connection  *)
(* have arrived (Late).  Of a match id only its presence is kept; early    *)
(* leave (off by default), details, invitations and seat help are left out.*)
(***************************************************************************)
EXTENDS Integers, Sequences, FiniteSets

CONSTANTS Keys,          \* the games that want the bot: a job key each
          MaxLobbies,    \* bound on the lobbies Dota creates
          MaxResyncs,    \* MAX_RESYNCS_PER_JOB
          MaxFaults,     \* bound on drops, crashes and updates Dota does not send
          MaxWire,       \* bound on the commands on their way when a Release is asked
          Omits,         \* whether a welcome may omit an up-to-date cache
          Quiet,         \* whether Dota may leave an update of the lobby unsent
          Presses,       \* whether anyone asks for a Release
          None

LobbyBotAssumption ==
  {MaxLobbies, MaxResyncs, MaxFaults, MaxWire} \subseteq Nat /\ {Omits, Quiet, Presses} \subseteq BOOLEAN

VARIABLES bot,     \* active, jobs, lobby, absent, online
          disk,    \* the saved file: active and jobs
          wire,    \* commands on their way to Dota
          news,    \* Dota's messages on their way to the bot
          dota,    \* the account's lobby at Dota, None when it is in none
          made,    \* lobbies made so far: the next one's id
          faults,
          clash,        \* ghost: Dota got a Create while the account was in a lobby
          interrupted,  \* ghost: a Leave ended a launch the bot asked for
          truth         \* ghost: how each game's last played lobby ended
vars == <<bot, disk, wire, news, dota, made, faults, clash, interrupted, truth>>

NewJob == [state |-> "creating", rel |-> FALSE, asked |-> FALSE, seen |-> FALSE, failed |-> FALSE,
           old |-> FALSE, stalled |-> FALSE, ended |-> FALSE, outcome |-> "none", known |-> FALSE,
           leaving |-> FALSE, resyncs |-> 0, wanted |-> FALSE, backstop |-> FALSE]
NewBot(d) == [active |-> d.active, jobs |-> d.jobs, lobby |-> None, absent |-> FALSE,
              online |-> FALSE, out |-> <<>>]
Fault == faults < MaxFaults /\ faults' = faults + 1

-----------------------------------------------------------------------------
(* What a lobby snapshot `l` says of a job `j`                             *)

\* A lobby runs ("run"), with its game state past the end in "end"; only
\* "post" is Dota's postgame.
AtPostgame(l) == l.state \in {"end", "post"} \/ (l.state = "run" /\ l.outcome = "won")
StillRunning(l) == l.state = "run" /\ ~AtPostgame(l)
ShowsGame(l) ==
  l.outcome = "won" \/ (l.state \in {"run", "end", "post"} /\ ~(AtPostgame(l) /\ l.outcome = "void"))

\* The postgame, or a winner, ends the game; a winner is never replaced.
RecordEnd(j, l) ==
  LET ended == j.ended \/ l.state = "post" \/ l.outcome = "won"
  IN  [j EXCEPT !.ended = ended,
                !.outcome = IF ended /\ @ # "won" /\ l.outcome # "none" THEN l.outcome ELSE @]
Played(l, j) == l.outcome = "won" \/ (j.ended /\ j.outcome # "void")
GameOver(j) == j.state = "started" /\ j.outcome = "won"

\* The launch is over: Dota showed it, or Start was long ago (`old`).
LaunchOver(l, j) ==
  l.state = "ui" /\ (j.state = "started" \/ (j.asked /\ (j.seen \/ l.match \/ j.old)))
LaunchStalled(l, j) == l.state = "setup" /\ j.stalled
SafeToLeave(l, j) ==
  \/ AtPostgame(l)
  \/ l.state = "ui" /\ ~j.asked /\ j.state # "starting"
  \/ LaunchOver(l, j)
  \/ LaunchStalled(l, j)
LaunchFailedNow(l, j) ==
  /\ ~Played(l, j)
  /\ \/ LaunchOver(l, j) \/ LaunchStalled(l, j)
     \/ AtPostgame(l) /\ l.outcome = "void"

-----------------------------------------------------------------------------
(* Steps on the bot's state `s`; commands collect in s.out                 *)

Sent(s, c) == [s EXCEPT !.out = Append(@, c)]
Leave(s, k) == Sent([s EXCEPT !.jobs[k].leaving = TRUE], [type |-> "leave", key |-> k])
FailLaunch(j) ==
  [j EXCEPT !.failed = TRUE, !.state = "blocked", !.rel = TRUE]
Finished(s, k) == s.jobs[k] # None /\ s.jobs[k].state \in {"started", "released"}
\* The job a Leave is out for: the claim, or the finished job of the lobby.
LeavingJob(s) ==
  IF s.active # None THEN s.active
  ELSE IF s.lobby # None /\ Finished(s, s.lobby.key) THEN s.lobby.key ELSE None

\* An unexplained missing lobby keeps its claim for a deliberate release.
Frees(j) == j.rel \/ j.state = "started"
\* What a job becomes: a launch nobody saw end has failed, and it lets go.
Explained(j) == IF j.state # "started" /\ j.seen /\ ~j.rel THEN FailLaunch(j) ELSE j
LetGo(j) == [j EXCEPT !.leaving = FALSE, !.wanted = FALSE,
               !.state = IF @ = "started" THEN @ ELSE IF j.rel THEN "released" ELSE "blocked"]
GivenUp(s, j) == [s EXCEPT !.jobs[s.active] = LetGo(j), !.active = IF Frees(j) THEN None ELSE @]
\* The bot is in no lobby: Dota confirmed it, or the bot concludes so.
Departed(s) ==
  LET k == LeavingJob(s)
      gone == [s EXCEPT !.lobby = None, !.absent = TRUE]
  IN  IF k = None THEN gone
      ELSE IF s.active = None THEN [gone EXCEPT !.jobs[k].leaving = FALSE]
      ELSE GivenUp(gone, Explained(s.jobs[k]))

\* What Dota showed of the launch, a launch that recovers, and the job's state.
Noticed(j, l) == [j EXCEPT !.known = TRUE, !.seen = @ \/ (j.asked /\ l.state # "ui"),
                           !.stalled = @ /\ (l.state # "ui" \/ j.asked)]
Recovered(j, l) == IF j.failed /\ ShowsGame(l)
                   THEN [j EXCEPT !.failed = FALSE, !.rel = FALSE, !.leaving = FALSE] ELSE j
Placed(j, l) ==
  [j EXCEPT !.state = IF l.state \in {"run", "end", "post"} /\ ~j.failed THEN "started"
                      ELSE IF l.state = "ui" /\ @ \notin {"starting", "started"}
                           THEN IF j.asked \/ ~l.led THEN "blocked" ELSE "ready"
                           ELSE @]
\* The Leave the snapshot calls for.
Obeyed(s, l, j) ==
  LET t == [s EXCEPT !.jobs[l.key] = j]
  IN  IF AtPostgame(l) \/ LaunchOver(l, j) \/ (j.rel /\ SafeToLeave(l, j)) THEN Leave(t, l.key) ELSE t
Judged(s, l, j) ==
  IF ~j.rel /\ LaunchFailedNow(l, j) THEN Leave([s EXCEPT !.jobs[l.key] = FailLaunch(j)], l.key)
  ELSE Obeyed(s, l, IF LaunchOver(l, j) /\ Played(l, j) THEN [j EXCEPT !.state = "started"] ELSE j)
\* The active claim's own lobby.
Follow(s, l) == Judged(s, l, Placed(Recovered(RecordEnd(Noticed(s.jobs[l.key], l), l), l), l))

Snapshot(b, l) ==
  LET s == [b EXCEPT !.lobby = l, !.absent = FALSE]
      k == l.key
      orphan == [s EXCEPT !.jobs[k] = IF @.state = "started" THEN RecordEnd(@, l) ELSE @]
  IN  CASE s.active = None /\ ~Finished(s, k) -> s
        [] s.active = None /\ Finished(s, k) /\ ~(s.jobs[k].failed /\ ShowsGame(l)) ->
             IF l.state = "ui" \/ AtPostgame(l) THEN Leave(orphan, k) ELSE orphan
        [] s.active # None /\ s.active # k -> [s EXCEPT !.jobs[s.active].state = "blocked"]
        [] OTHER -> Follow([s EXCEPT !.active = k], l)

-----------------------------------------------------------------------------
(* The bot's steps                                                         *)

\* Mutant: an intent is sent but not saved.
SavedLater(s, d) == IF s.out # <<>> THEN d ELSE [active |-> s.active, jobs |-> s.jobs]
\* Every handler saves before its commands go out.
Saved(s, d) == [active |-> s.active, jobs |-> s.jobs]
Becomes(s) == /\ bot' = [s EXCEPT !.out = <<>>]
              /\ disk' = Saved(s, disk)
              /\ wire' = wire \o s.out

\* A resync asks Dota again where the account is: the session restarts, and
\* what is on its way is lost.
ResyncAllowed(s, k) ==
  /\ s.online
  /\ ~(s.jobs[k].state \in {"creating", "ready", "starting"} /\ ~s.jobs[k].rel)
  /\ s.lobby # None => s.lobby.state # "setup"
Resynced(s, k) ==
  IF s.jobs[k].resyncs < MaxResyncs
  THEN [s EXCEPT !.online = FALSE, !.jobs[k].wanted = FALSE, !.jobs[k].resyncs = @ + 1]
  ELSE [s EXCEPT !.jobs[k].wanted = FALSE]
Keeps(s) == IF s.online THEN Becomes(s) /\ UNCHANGED news
            ELSE bot' = [s EXCEPT !.out = <<>>] /\ disk' = Saved(s, disk) /\ wire' = <<>> /\ news' = <<>>

CreateAllowed(k) == bot.active = None /\ bot.lobby = None /\ bot.absent
RequestCreate(k) ==
  /\ bot.online /\ (bot.jobs[k] # None => bot.jobs[k].state = "released")
  /\ IF CreateAllowed(k)
     THEN /\ Becomes(Sent([bot EXCEPT !.jobs[k] = NewJob, !.active = k, !.absent = FALSE],
                          [type |-> "create", key |-> k]))
          /\ UNCHANGED news
     ELSE \* BUSY; a finished job's lobby that reads running is looked up again.
          /\ bot.active = None /\ bot.lobby # None
          /\ Finished(bot, bot.lobby.key) /\ StillRunning(bot.lobby) /\ ResyncAllowed(bot, bot.lobby.key)
          /\ Keeps(Resynced(bot, bot.lobby.key))
  /\ UNCHANGED <<dota, made, faults, clash, interrupted, truth>>

RequestStart(k) ==
  /\ bot.online /\ bot.active = k
  /\ LET j == bot.jobs[k] IN
     /\ ~j.rel /\ ~j.asked /\ j.state = "ready"
     /\ bot.lobby # None /\ bot.lobby.key = k /\ bot.lobby.state = "ui" /\ bot.lobby.led
  /\ Becomes(Sent([bot EXCEPT !.jobs[k].state = "starting", !.jobs[k].asked = TRUE, !.jobs[k].old = FALSE],
                  [type |-> "start", key |-> k]))
  /\ UNCHANGED <<news, dota, made, faults, clash, interrupted, truth>>

\* What on a live connection was on its way has arrived.
Late == wire = <<>> /\ news = <<>>
\* LAUNCH_SETTLE_MS have passed since the Create or the Start, and
\* LAUNCH_STALL_MS since a launch Dota is not setting a server up for.
Settles ==
  /\ bot.active # None /\ Late
  /\ LET k == bot.active
         j == bot.jobs[k]
         later == IF ~j.old THEN [j EXCEPT !.old = TRUE] ELSE [j EXCEPT !.stalled = TRUE]
     IN  /\ j.state # "started" /\ later # j
         /\ j.old => /\ bot.lobby # None /\ bot.lobby.state = "setup"
                     /\ dota # None => dota.state # "setup" \/ dota.stuck
         /\ bot' = [bot EXCEPT !.jobs[k] = later]
         /\ disk' = [disk EXCEPT !.jobs[k] = later]
  /\ UNCHANGED <<wire, news, dota, made, faults, clash, interrupted, truth>>

\* `check`: no check of this lobby is recent (RECHECK_AFTER_MS).
RequestRelease(k, check) ==
  /\ Presses /\ Len(wire) < MaxWire /\ bot.online /\ bot.active = k
  /\ bot.lobby # None => bot.lobby.key = k
  /\ LET j == bot.jobs[k]
         s == [bot EXCEPT !.jobs[k].rel = TRUE]
         looks == check \/ bot.lobby = None
     IN
     IF j.state = "started" /\ (IF bot.lobby # None THEN StillRunning(bot.lobby) ELSE ~bot.absent)
     THEN LET w == [s EXCEPT !.jobs[k].wanted = @ \/ looks]
          IN  Keeps(IF looks /\ ResyncAllowed(w, k) THEN Resynced(w, k) ELSE w)
     ELSE /\ IF bot.lobby # None THEN SafeToLeave(bot.lobby, j) ELSE bot.absent
          /\ Becomes(IF bot.lobby # None THEN Leave(s, k) ELSE Departed(s))
          /\ UNCHANGED news
  /\ UNCHANGED <<dota, made, faults, clash, interrupted, truth>>

\* Dota's next message: a snapshot, or the lobby is gone.
Hear ==
  /\ news # <<>>
  /\ LET m == Head(news) IN
     Becomes(IF m.type = "lobby" THEN Snapshot(bot, m.lobby)
             ELSE IF bot.lobby # None => bot.lobby.id = m.lobby.id THEN Departed(bot) ELSE bot)
  /\ news' = Tail(news)
  /\ UNCHANGED <<dota, made, faults, clash, interrupted, truth>>

\* The bot's clocks, all in one tick.  `slow`: a create, launch or Leave went
\* unconfirmed; `late`: no end was seen for STARTED_BACKSTOP_MS; `idle`: nobody touched the
\* lobby for long.
Unconfirmed(s, slow) ==
  IF slow /\ s.active # None /\ s.jobs[s.active].state \in {"creating", "starting"}
  THEN [s EXCEPT !.jobs[s.active].state = "blocked"] ELSE s
Rechecked(s, slow, late) ==
  LET k == LeavingJob(s)
      j == s.jobs[k]
      unseen == j.state = "started" /\ ~j.ended /\ ~j.backstop /\ late
  IN  IF k = None THEN s
      ELSE IF ~(j.wanted \/ (j.leaving /\ slow) \/ unseen) \/ ~ResyncAllowed(s, k) THEN s
      ELSE IF j.wanted \/ (j.leaving /\ slow) THEN Resynced(s, k)
      ELSE [Resynced(s, k) EXCEPT !.jobs[k].backstop = (j.resyncs < MaxResyncs) \/ @]
\* A lobby that is gone, never came, whose launch is over, or that sits idle.
Cleaned(s, idle) ==
  LET k == s.active
      j == s.jobs[k]
  IN  IF ~s.online \/ k = None THEN s
      ELSE IF j.rel THEN s
      ELSE IF s.lobby = None
           THEN IF j.state = "started" \/ ~j.old \/ ~(s.absent \/ (~j.asked /\ ~j.known)) THEN s
                ELSE Departed([s EXCEPT !.jobs[k] = IF j.asked THEN FailLaunch(j) ELSE [j EXCEPT !.rel = TRUE]])
      ELSE IF s.lobby.key # k THEN s
      ELSE IF LaunchFailedNow(s.lobby, j) THEN Leave([s EXCEPT !.jobs[k] = FailLaunch(j)], k)
      ELSE IF s.lobby.state = "ui" /\ ~j.asked /\ j.state \in {"ready", "blocked"} /\ idle
           THEN Leave([s EXCEPT !.jobs[k].rel = TRUE], k)
      ELSE s
Ticks(s) == s # bot /\ Keeps(s)
Tick(slow, late, idle) ==
  /\ (slow \/ late \/ idle) => Late
  /\ late => (dota # None => dota.state \notin {"setup", "run"})
  /\ Ticks(Cleaned(Rechecked(Unconfirmed(bot, slow), slow, late), idle))
  /\ UNCHANGED <<dota, made, faults, clash, interrupted, truth>>

-----------------------------------------------------------------------------
(* The connection                                                          *)

Drop == /\ Fault /\ bot.online
        /\ bot' = [bot EXCEPT !.online = FALSE]
        /\ wire' = <<>> /\ news' = <<>>
        /\ UNCHANGED <<disk, dota, made, clash, interrupted, truth>>

\* The process dies, or exits after a resync no welcome answered.
Crash == /\ Fault
         /\ bot' = NewBot(disk)
         /\ wire' = <<>> /\ news' = <<>>
         /\ UNCHANGED <<disk, dota, made, clash, interrupted, truth>>

\* welcoming: what was known of the lobby is forgotten, then replayed.
Welcoming == LET k == LeavingJob(bot) IN
  IF k = None THEN [bot EXCEPT !.lobby = None] ELSE [bot EXCEPT !.lobby = None, !.jobs[k].leaving = FALSE]
Replayed(complete) == IF complete /\ dota # None THEN Snapshot(Welcoming, dota) ELSE Welcoming
\* welcomed.  An incomplete welcome may leave out an up-to-date cache, and then
\* proves nothing.
Online(s, complete) == [s EXCEPT !.absent = complete /\ s.lobby = None, !.online = TRUE]
StillLeaving(s) == LET k == LeavingJob(bot) IN
  IF k # None /\ bot.jobs[k].leaving /\ s.lobby = None /\ ~s.absent THEN [s EXCEPT !.jobs[k].leaving = TRUE] ELSE s
Answered(s) == IF s.active # None /\ (s.lobby # None \/ s.absent)
               THEN [s EXCEPT !.jobs[s.active].wanted = FALSE] ELSE s
Relieved(s) == LET k == s.active IN
  IF s.absent /\ k # None /\ (s.jobs[k].state = "started" \/ s.jobs[k].rel \/ s.jobs[k].seen) THEN Departed(s) ELSE s
Welcomed(complete) == Relieved(Answered(StillLeaving(Online(Replayed(complete), complete))))
Welcome(complete) ==
  /\ ~bot.online
  /\ Becomes(Welcomed(complete))
  /\ IF complete THEN UNCHANGED faults ELSE Omits /\ Fault
  /\ UNCHANGED <<news, dota, made, clash, interrupted, truth>>

-----------------------------------------------------------------------------
(* Dota and the players                                                    *)

Telling(m, quiet) ==
  /\ IF quiet THEN Quiet /\ Fault ELSE UNCHANGED faults
  /\ news' = IF bot.online /\ ~quiet THEN Append(news, m) ELSE news
LobbyIs(l, quiet) ==
  /\ dota' = l /\ Telling([type |-> "lobby", lobby |-> l], quiet)
  /\ truth' = IF l.outcome = "none" THEN truth ELSE [truth EXCEPT ![l.key] = l.outcome]
LobbyGone(quiet) == dota' = None /\ Telling([type |-> "gone", lobby |-> dota], quiet) /\ UNCHANGED truth

NewLobby(k) == [id |-> made + 1, key |-> k, state |-> "ui", outcome |-> "none",
                match |-> FALSE, led |-> TRUE, stuck |-> FALSE]
\* Dota acts on the bot's next command; a Leave while the game runs is ignored.
DotaActs ==
  /\ wire # <<>> /\ wire' = Tail(wire)
  /\ LET c == Head(wire) IN
     \/ /\ c.type = "create" /\ dota = None /\ made < MaxLobbies
        /\ made' = made + 1
        /\ dota' = NewLobby(c.key) /\ Telling([type |-> "lobby", lobby |-> NewLobby(c.key)], FALSE)
        /\ truth' = [truth EXCEPT ![c.key] = "none"]
        /\ UNCHANGED <<clash, interrupted>>
     \/ /\ c.type = "create" /\ dota # None
        /\ clash' = TRUE
        /\ UNCHANGED <<dota, news, made, faults, interrupted, truth>>
     \/ /\ c.type = "start" /\ dota # None /\ dota.state = "ui" /\ dota.led
        /\ LobbyIs([dota EXCEPT !.state = "setup", !.match = TRUE], FALSE)
        /\ UNCHANGED <<made, clash, interrupted>>
     \/ /\ c.type = "leave" /\ dota # None /\ ~StillRunning(dota)
        /\ LobbyGone(FALSE)
        /\ interrupted' = (interrupted \/ (dota.state = "setup" /\ dota.led /\ ~dota.stuck))
        /\ UNCHANGED <<made, clash>>
     \/ /\ \/ c.type # "create" /\ dota = None
           \/ c.type = "start" /\ dota # None /\ ~(dota.state = "ui" /\ dota.led)
           \/ c.type = "leave" /\ dota # None /\ StillRunning(dota)
           \/ c.type = "create" /\ dota = None /\ made = MaxLobbies
        /\ UNCHANGED <<dota, news, made, faults, clash, interrupted, truth>>
  /\ UNCHANGED <<bot, disk>>

\* The lobby moves on: a player who took the lead launches it, the server is set up, players
\* fail to load, the game ends, its outcome follows, the lobby closes.
Moves(l) ==
  CASE l.state = "ui" -> {[l EXCEPT !.state = "setup", !.match = TRUE, !.led = FALSE]}
    [] l.state = "setup" /\ ~l.stuck -> {[l EXCEPT !.state = "run"], [l EXCEPT !.state = "ui"]}
    [] l.state \in {"run", "end"} /\ l.outcome = "none" ->
         {[l EXCEPT !.outcome = "won"], [l EXCEPT !.state = "end"], [l EXCEPT !.state = "ui"]}
           \union {[l EXCEPT !.state = "post", !.outcome = o] : o \in {"none", "won", "void"}}
    [] l.state \in {"run", "end"} /\ l.outcome # "none" -> {[l EXCEPT !.state = "post"]}
    [] l.state = "post" /\ l.outcome = "none" ->
         {[l EXCEPT !.outcome = o] : o \in {"won", "void"}}
    [] OTHER -> {}
Unchanging == UNCHANGED <<bot, disk, wire, made, clash, interrupted>>
LobbyMoves == /\ dota # None /\ (dota.state = "ui" => ~dota.match)
              /\ \E l \in Moves(dota) \ {dota}, quiet \in BOOLEAN : LobbyIs(l, quiet)
              /\ Unchanging
LobbyCloses == /\ dota # None /\ dota.state = "post"
               /\ \E quiet \in BOOLEAN : LobbyGone(quiet)
               /\ Unchanging
\* The server never comes up, or the lobby is destroyed before its game runs.
LobbyFails ==
  /\ dota # None /\ dota.state \in {"ui", "setup"} /\ Fault
  /\ \/ /\ dota.state = "setup" /\ ~dota.stuck /\ dota' = [dota EXCEPT !.stuck = TRUE]
        /\ UNCHANGED news
     \/ /\ dota' = None
        /\ news' = IF bot.online THEN Append(news, [type |-> "gone", lobby |-> dota]) ELSE news
  /\ UNCHANGED truth /\ Unchanging

-----------------------------------------------------------------------------
Init ==
  /\ disk = [active |-> None, jobs |-> [k \in Keys |-> None]]
  /\ bot = NewBot(disk)
  /\ wire = <<>> /\ news = <<>> /\ dota = None /\ made = 0 /\ faults = 0
  /\ clash = FALSE /\ interrupted = FALSE
  /\ truth = [k \in Keys |-> "none"]

Requests ==
  \E k \in Keys : \/ RequestCreate(k) \/ RequestStart(k)
                  \/ \E check \in BOOLEAN : RequestRelease(k, check)
Connection == Drop \/ Crash \/ \E c \in BOOLEAN : Welcome(c)
Players == LobbyMoves \/ LobbyCloses \/ LobbyFails
Next ==
  \/ Requests
  \/ Hear \/ Settles
  \/ \E slow, late, idle \in BOOLEAN : Tick(slow, late, idle)
  \/ Connection \/ DotaActs \/ Players
Spec == Init /\ [][Next]_vars

\* Messages arrive, the clocks pass, a dropped bot reconnects, and a game in
\* Dota ends and closes its lobby.  Nobody has to press anything.
Fairness ==
  /\ WF_vars(DotaActs) /\ WF_vars(Hear) /\ WF_vars(Settles) /\ WF_vars(Welcome(TRUE))
  /\ WF_vars(\E late \in BOOLEAN : Tick(TRUE, late, TRUE))
  /\ WF_vars(LobbyMoves /\ dota.state # "ui") /\ WF_vars(LobbyCloses)
FairSpec == Spec /\ Fairness

-----------------------------------------------------------------------------
(* Properties                                                              *)

States == {"creating", "ready", "starting", "started", "blocked", "released"}
TypeOK ==
  /\ bot.active \in Keys \union {None} /\ bot.online \in BOOLEAN /\ bot.absent \in BOOLEAN
  /\ \A k \in Keys : bot.jobs[k] # None => bot.jobs[k].state \in States /\ bot.jobs[k].resyncs <= MaxResyncs
  /\ bot.active # None => bot.jobs[bot.active] # None /\ bot.jobs[bot.active].state # "released"
  /\ dota # None => dota.id \in 1..MaxLobbies

\* The account never asks Dota for a lobby while it is in one: no Create is
\* replayed after a timeout, a drop or a restart (controller.mjs:363).
OneLobbyAtATime == ~clash

\* The bot never breaks the launch it asked for: the lobby-screen snapshot it
\* still holds right after Start cannot authorize a Leave while Dota sets the
\* server up (controller.mjs:935).
LaunchesAreNotInterrupted == ~interrupted

\* The site ends a game on `over`, so it is never wrong: Dota named a winner.
OverIsTrue ==
  \A k \in Keys : bot.jobs[k] # None /\ GameOver(bot.jobs[k]) => truth[k] = "won"

\* Whatever dies, the saved file knows the job of every lobby the account is
\* in: it is claimed, or finished and left again when it shows up.
LobbiesAreSaved ==
  dota # None => disk.active = dota.key \/ Finished([jobs |-> disk.jobs], dota.key)

\* Nothing ever frees a claim on a guess (controller.mjs:367): a claim is given
\* up only when the account has left that job's lobby.
ClaimsAreNotGuessed ==
  bot.active # None /\ bot'.active = None => dota = None \/ dota.key # bot.active

\* No game holds the one bot for good (server.mjs:436): given up during setup,
\* failed to launch, over with its end unseen, or dropped at any point, its
\* claim comes free without anyone pressing Release.
BotComesFree == bot.active # None ~> bot.active = None

\* It does, but for one lobby the clocks pass over: released, its Leave lost,
\* and then shown in a server setup that never ends (controller.mjs:1526).
StalledRelease ==
  /\ bot.active # None /\ bot.lobby # None /\ bot.lobby.state = "setup"
  /\ bot.jobs[bot.active].rel /\ bot.jobs[bot.active].stalled
FreeUnlessStalled == bot.active # None ~> (bot.active = None \/ StalledRelease)

\* What every state keeps, when Dota's welcomes are complete.
BotIsSound == TypeOK /\ OneLobbyAtATime /\ LobbiesAreSaved /\ LaunchesAreNotInterrupted /\ OverIsTrue
=============================================================================
