----------------------------- MODULE MCInTheEnd -----------------------------
(***************************************************************************)
(* What must happen in the end, on small instances: due work of the        *)
(* automation (this module extends it), a commit that a tab should show, a *)
(* bracket, a 1v1 and an ended ban.  One behaviour is about one part,      *)
(* named by `part'; "bans" is two bans of a player, "ban" one with more    *)
(* that goes wrong.                                                        *)
(***************************************************************************)
EXTENDS Automation, TLC

CONSTANTS Parts, Unread, p1, p2, t1, t2, t3, t4, u1, w1

TwoProcs == {p1, p2}
TwoTables == {<<t1, t2, t3, t4>>, <<t3, t1, t2, t4>>}
CronOnly == {"cron"}

VARIABLES
  part,  \* the part of the system this behaviour is about
  data, told, proc, pub, poll, acting, tab, roomFaults,  \* LiveRoom
  status, champion, table, matches, markers, runs, forms, born, builds,
  changes, cupFaults,  \* Playoffs
  duelNow, queue, in5v5, banned, duels, age, games, lobby, releases,
  duelJobs, moves, duelLost,  \* Duels
  bans, linked, role, banJobs, refused, banLost, relinks  \* InhouseBans

roomVars == <<data, told, proc, pub, poll, acting, tab, roomFaults>>
cupVars == <<status, champion, table, matches, markers, runs, forms, born,
             builds, changes, cupFaults>>
duelVars == <<duelNow, queue, in5v5, banned, duels, age, games, lobby,
              releases, duelJobs, moves, duelLost>>
banVars == <<bans, linked, role, banJobs, refused, banLost, relinks>>
allVars == <<part, vars, roomVars, cupVars, duelVars, banVars>>

-----------------------------------------------------------------------------
Room == INSTANCE LiveRoom WITH
  Proc <- TwoProcs, Tab <- {u1}, Writer <- {w1},
  Owner <- [w \in {w1} |-> None], MaxCommits <- 1, MaxFaults <- 1,
  Published <- TRUE, Serving <- {p1}, Watching <- FALSE, faults <- roomFaults

Cup == INSTANCE Playoffs WITH
  Workers <- {w1}, Admins <- {u1}, Tables <- TwoTables, MaxBuilds <- 2,
  MaxChanges <- 1, MaxFaults <- 1, faults <- cupFaults

Pair == INSTANCE Duels WITH
  Users <- {t1, t2}, Worker <- w1, Procs <- {w1, u1}, Panel <- {},
  Hosts <- TRUE, MaxDuels <- 1, MaxNow <- 2, Grace <- 0, MaxAge <- 3,
  MaxMoves <- 0, MaxLost <- 1, now <- duelNow, jobs <- duelJobs,
  lost <- duelLost

OneBan == INSTANCE InhouseBans WITH
  Procs <- {u1}, Worker <- w1, Accounts <- {t1}, MaxBans <- 1,
  MaxRefused <- 1, MaxLost <- 1, MaxRelinks <- 1, jobs <- banJobs,
  lost <- banLost
TwoBans == INSTANCE InhouseBans WITH
  Procs <- {u1}, Worker <- w1, Accounts <- {t1}, MaxBans <- 2,
  MaxRefused <- 0, MaxLost <- 1, MaxRelinks <- 0, jobs <- banJobs,
  lost <- banLost

ASSUME TimesAssumption
ASSUME Room!RoomAssumption
ASSUME Cup!PlayoffsAssumption
ASSUME Pair!DuelsAssumption
ASSUME OneBan!BanAssumption /\ TwoBans!BanAssumption

-----------------------------------------------------------------------------
\* One part runs, the others stand still.
GateOnly == part = "gate" /\ UNCHANGED <<part, roomVars, cupVars, duelVars, banVars>>
RoomOnly == part = "room" /\ UNCHANGED <<part, vars, cupVars, duelVars, banVars>>
CupOnly  == part = "cup" /\ UNCHANGED <<part, vars, roomVars, duelVars, banVars>>
PairOnly == part = "pair" /\ UNCHANGED <<part, vars, roomVars, cupVars, banVars>>
BanOnly  == part = "ban" /\ UNCHANGED <<part, vars, roomVars, cupVars, duelVars>>
BansOnly == part = "bans" /\ UNCHANGED <<part, vars, roomVars, cupVars, duelVars>>

MCInit ==
  /\ part \in Parts /\ Init /\ Room!Init /\ Cup!Init /\ Pair!Init /\ OneBan!Init
  /\ part # "cup" => table = <<t1, t2, t3, t4>>
  /\ part \notin {"ban", "bans"} => linked = None
MCNext == \/ GateOnly /\ Next
          \/ RoomOnly /\ Room!Next
          \/ CupOnly /\ Cup!Next
          \/ PairOnly /\ Pair!Next
          \/ BanOnly /\ OneBan!Next
          \/ BansOnly /\ TwoBans!Next

-----------------------------------------------------------------------------
\* One behaviour is about one part, so a fairness condition names a step of each:
\* clocks pass and players finish what is scheduled; the scheduler keeps calling
\* the worker; what was begun goes on; a request runs to its end.
Passes ==
  \/ GateOnly /\ Tick
  \/ RoomOnly /\ Room!Ages(p1)
  \/ CupOnly /\ Cup!PlaySome
  \/ PairOnly /\ 1 \in DOMAIN duels /\ Pair!Clock(1)
  \/ BanOnly /\ OneBan!RetryTime
  \/ BansOnly /\ TwoBans!RetryTime
Called ==
  \/ GateOnly /\ Arrive(p1)
  \/ RoomOnly /\ Room!CheckFires(p1)
  \/ CupOnly /\ Cup!BeginAdvance(w1)
  \/ PairOnly /\ 1 \in DOMAIN duels /\ Pair!WorkerOn(1)
  \/ BanOnly /\ OneBan!syncInhouseBanRoles
  \/ BansOnly /\ TwoBans!syncInhouseBanRoles
GoesOn ==
  \/ GateOnly /\ Step(p1)
  \/ RoomOnly /\ (Room!Writes(w1) \/ Room!Reads(w1) \/ Room!ActionLands(w1))
  \/ CupOnly /\ (Cup!Crown(w1) \/ Cup!BuildRound(w1) \/ Cup!Superseded(w1))
  \/ PairOnly /\ (Pair!Handlers(w1) \/ Pair!GoHome(w1))
  \/ BanOnly /\ OneBan!Steps(w1)
  \/ BansOnly /\ TwoBans!Steps(w1)
Ends ==
  \/ GateOnly /\ Tell(w1)
  \/ RoomOnly /\ Room!Publishing(w1)
  \/ PairOnly /\ Pair!requeueAtFront(u1)
  \/ BanOnly /\ OneBan!Steps(u1)
  \/ BansOnly /\ TwoBans!Steps(u1)

\* The worker's pass tries every step of a 1v1, so also those another step of the
\* same pass keeps it from for a while.
GivesUp ==
  PairOnly /\ 1 \in DOMAIN duels /\ (Pair!giveUpNeverPlayed(w1) \/ Pair!giveUpOnResult(w1, 1))

\* The room's other timers fire and the database answers; a tab always polls again.
RoomFairness ==
  /\ WF_allVars(RoomOnly /\ Room!Loading(p1))
  /\ WF_allVars(RoomOnly /\ (Room!CheckReads(p1) \/ Room!CheckEnds(p1)))
  /\ WF_allVars(RoomOnly /\ (Room!Answering(u1) \/ Room!Publishing(u1) \/ Room!Asks(u1, p1) \/ Room!HoldEnds(u1)))

MCSpec ==
  /\ MCInit /\ [][MCNext]_allVars
  /\ WF_allVars(Passes) /\ WF_allVars(Called) /\ WF_allVars(GoesOn) /\ WF_allVars(Ends)
  /\ SF_allVars(GivesUp) /\ RoomFairness

\* Due work is done, every commit is shown on the tab, a bracket in play ends and
\* an ended ban is settled: through a crash, a lost signal, a lost reply or a lost
\* run (DueWorkIsDone, ShownInTheEnd, BracketsEnd and BansSettle of the parts'
\* modules, in one formula because no behaviour is about two parts).
Waits ==
  \/ part = "gate" /\ Reachable(w1)
  \/ part = "room" /\ data = 1
  \/ part = "cup" /\ status = "PLAYOFFS"
  \/ part \in {"ban", "bans"} /\ OneBan!Lingers
Served ==
  /\ part = "gate" => due[w1] = None
  /\ part = "room" => tab[u1].shown = 1
  /\ part = "cup" => status # "PLAYOFFS"
  /\ part \in {"ban", "bans"} => ~OneBan!Lingers
WorkIsDone == Waits ~> Served

\* Nothing is held for ever: not the lease by a pass that died, nor two players by
\* their 1v1, whoever answers, whatever the bot and OpenDota report and whichever
\* handler dies (LeaseIsReleased; DuelsEnd: runDuelWorkerSteps,
\* inhouse-duel-service.ts:1477).
Taken ==
  \/ part = "gate" /\ Held
  \/ part = "pair" /\ Pair!Begun(1) /\ ~Pair!Over(1)
HoldsEnd == Taken ~> ~Taken
=============================================================================
