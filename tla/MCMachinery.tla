---------------------------- MODULE MCMachinery -----------------------------
(***************************************************************************)
(* The league's machinery on small instances: the Discord outbox where     *)
(* passes are slow or race for a night, the inhouse posts, the room        *)
(* caches, the automation lease and its gate, and the Dota lobby bot.      *)
(* They share no row, so one behaviour is about one part, named by `part'; *)
(* each part is several instances, whose constants say which of its        *)
(* hazards they are after.                                                 *)
(***************************************************************************)
EXTENDS Integers, Sequences, FiniteSets, TLC

CONSTANTS Parts, None, Unread, d1, g1, g2, g3, l1, m1, p1, p2, p3, t1, w1, w2, w3

VARIABLES
  part,  \* the part of the system this behaviour is about
  rev, phase, past, marker, events, rows, heard, admin, prod, work,
  outboxFaults,  \* LeagueOutbox
  status, match, elo, posts, postHeard, scan, postWork, postFaults,  \* InhouseResults
  data, told, proc, pub, poll, acting, tab, roomFaults,  \* LiveRoom
  now, row, run, due, telling, cache, autoFaults, begun, missed,  \* Automation
  bot, disk, wire, news, dota, made, botFaults, clash, interrupted, truth  \* LobbyBot

outboxVars == <<rev, phase, past, marker, events, rows, heard, admin, prod,
                work, outboxFaults>>
postVars == <<status, match, elo, posts, postHeard, scan, postWork, postFaults>>
roomVars == <<data, told, proc, pub, poll, acting, tab, roomFaults>>
autoVars == <<now, row, run, due, telling, cache, autoFaults, begun, missed>>
botVars == <<bot, disk, wire, news, dota, made, botFaults, clash, interrupted,
             truth>>
vars == <<part, outboxVars, postVars, roomVars, autoVars, botVars>>

-----------------------------------------------------------------------------
Slow == INSTANCE OutboxProperties WITH
  Producer <- {p3}, Worker <- {w1, w2}, MaxRev <- 1, MaxRows <- 2,
  MaxEvents <- 0, MaxFaults <- 1, Overlaps <- FALSE, Faults <- {"slow"},
  faults <- outboxFaults
Nights == INSTANCE OutboxProperties WITH
  Producer <- {p3}, Worker <- {w3}, MaxRev <- 2, MaxRows <- 2, MaxEvents <- 2,
  MaxFaults <- 1, Overlaps <- FALSE, Faults <- {"crash"},
  faults <- outboxFaults
Claims == INSTANCE OutboxProperties WITH
  Producer <- {p1, p2}, Worker <- {}, MaxRev <- 1, MaxRows <- 2,
  MaxEvents <- 2, MaxFaults <- 1, Overlaps <- TRUE,
  Faults <- {"crash", "slow"}, faults <- outboxFaults

Posts == INSTANCE InhouseResults WITH
  Lobby <- {l1}, Match <- {m1}, Scan <- {p3}, Worker <- {w1, w2},
  MaxFaults <- 2, Older <- {l1}, rows <- posts, heard <- postHeard,
  work <- postWork, faults <- postFaults

Copies == INSTANCE LiveRoom WITH
  Proc <- {p3}, Tab <- {t1}, Writer <- {w3}, Owner <- [w \in {w3} |-> None],
  MaxCommits <- 2, MaxFaults <- 1, Published <- FALSE, Serving <- {p3},
  Watching <- TRUE, faults <- roomFaults
Fleet == INSTANCE LiveRoom WITH
  Proc <- {p1, p2}, Tab <- {t1}, Writer <- {w3},
  Owner <- [w \in {w3} |-> None], MaxCommits <- 1, MaxFaults <- 0,
  Published <- FALSE, Serving <- {p1, p2}, Watching <- FALSE,
  faults <- roomFaults
Acting == INSTANCE LiveRoom WITH
  Proc <- {p3}, Tab <- {t1}, Writer <- {w3}, Owner <- [w \in {w3} |-> t1],
  MaxCommits <- 1, MaxFaults <- 0, Published <- TRUE, Serving <- {p3},
  Watching <- FALSE, faults <- roomFaults

Lease == INSTANCE Automation WITH
  Runners <- {w1, w2}, Works <- {}, Kinds <- {"admin"}, LEASE <- 1,
  BUDGET <- 1, HORIZON <- 2, MaxTime <- 3, MaxFaults <- 1,
  faults <- autoFaults
Gate == INSTANCE Automation WITH
  Runners <- {w3}, Works <- {d1}, Kinds <- {"cron", "admin", "health"},
  LEASE <- 1, BUDGET <- 1, HORIZON <- 2, MaxTime <- 3, MaxFaults <- 1,
  faults <- autoFaults
Gates == INSTANCE Automation WITH
  Runners <- {w1, w2}, Works <- {d1}, Kinds <- {"cron"}, LEASE <- 1,
  BUDGET <- 1, HORIZON <- 2, MaxTime <- 2, MaxFaults <- 0,
  faults <- autoFaults

Lobby == INSTANCE LobbyBot WITH
  Keys <- {g1, g2}, MaxLobbies <- 1, MaxResyncs <- 1, MaxFaults <- 1,
  MaxWire <- 1, Omits <- FALSE, Quiet <- TRUE, Presses <- TRUE,
  faults <- botFaults
Again == INSTANCE LobbyBot WITH
  Keys <- {g3}, MaxLobbies <- 2, MaxResyncs <- 1, MaxFaults <- 2,
  MaxWire <- 1, Omits <- FALSE, Quiet <- TRUE, Presses <- TRUE,
  faults <- botFaults
Omitting == INSTANCE LobbyBot WITH
  Keys <- {g1, g2}, MaxLobbies <- 2, MaxResyncs <- 1, MaxFaults <- 0,
  MaxWire <- 1, Omits <- TRUE, Quiet <- TRUE, Presses <- TRUE,
  faults <- botFaults

ASSUME Slow!OutboxAssumption
ASSUME Nights!OutboxAssumption
ASSUME Claims!OutboxAssumption
ASSUME Posts!ResultsAssumption
ASSUME Copies!RoomAssumption
ASSUME Fleet!RoomAssumption
ASSUME Acting!RoomAssumption
ASSUME Lease!TimesAssumption
ASSUME Gate!TimesAssumption
ASSUME Gates!TimesAssumption
ASSUME Lobby!LobbyBotAssumption
ASSUME Again!LobbyBotAssumption
ASSUME Omitting!LobbyBotAssumption

-----------------------------------------------------------------------------
Init ==
  /\ part \in Parts
  /\ IF part = "slow" THEN Slow!Init ELSE IF part = "nights" THEN Nights!Init ELSE Claims!Init
  /\ Posts!Init /\ (part # "posts" => match = [l \in {l1} |-> None])
  /\ IF part = "copies" THEN Copies!Init ELSE IF part = "fleet" THEN Fleet!Init ELSE Acting!Init
  /\ IF part = "lease" THEN Lease!Init ELSE IF part = "gate" THEN Gate!Init ELSE Gates!Init
  /\ IF part = "lobby" THEN Lobby!Init ELSE IF part = "again" THEN Again!Init ELSE Omitting!Init

\* One part runs, the others stand still.
OutboxRuns ==
  /\ \/ part = "slow" /\ Slow!Next
     \/ part = "nights" /\ Nights!Next
     \/ part = "claims" /\ Claims!Next
  /\ UNCHANGED <<part, postVars, roomVars, autoVars, botVars>>
PostRuns ==
  /\ part = "posts" /\ Posts!Next
  /\ UNCHANGED <<part, outboxVars, roomVars, autoVars, botVars>>
RoomRuns ==
  /\ \/ part = "copies" /\ Copies!Next
     \/ part = "fleet" /\ Fleet!Next
     \/ part = "acting" /\ Acting!Next
  /\ UNCHANGED <<part, outboxVars, postVars, autoVars, botVars>>
AutoRuns ==
  /\ \/ part = "lease" /\ Lease!Next
     \/ part = "gate" /\ Gate!Next
     \/ part = "gates" /\ Gates!Next
  /\ UNCHANGED <<part, outboxVars, postVars, roomVars, botVars>>
BotRuns ==
  /\ \/ part = "lobby" /\ Lobby!Next
     \/ part = "again" /\ Again!Next
     \/ part = "omits" /\ Omitting!Next
  /\ UNCHANGED <<part, outboxVars, postVars, roomVars, autoVars>>

Next == \/ OutboxRuns
        \/ PostRuns
        \/ RoomRuns
        \/ AutoRuns
        \/ BotRuns
Spec == Init /\ [][Next]_vars

-----------------------------------------------------------------------------
\* What every state of each part keeps (see the property of this name in the
\* part's module).  Passes that are slower than their lease, race for a night
\* or post for inhouse games repeat no post without a fault, and no two passes
\* hold the runner's lease.
PassesAreSound ==
  /\ (part = "slow" => Slow!OutboxIsSound) /\ (part = "nights" => Nights!OutboxIsSound)
  /\ (part = "claims" => Claims!OutboxIsSound) /\ (part = "posts" => Posts!ResultsAreSound)
  /\ (part = "lease" => Lease!LeaseIsSound) /\ (part = "gate" => Gate!LeaseIsSound)
  /\ part = "gates" => Gates!LeaseIsSound
\* The copies, the replies and the tab of a room are never older than promised.
RoomIsSound ==
  /\ part = "copies" => Copies!RoomIsSound
  /\ part = "fleet" => Fleet!RoomIsSound /\ Fleet!RepliesAreFresh
  /\ part = "acting" => Acting!RoomIsSound
\* One lobby at a time, and a claim is given up only when Dota shows none.
BotIsSound ==
  /\ (part = "lobby" => Lobby!BotIsSound) /\ (part = "again" => Again!BotIsSound)
  /\ part = "omits" => Omitting!TypeOK /\ Omitting!OneLobbyAtATime

\* What every step of each part keeps.  A post out of its order needs a sender
\* slower than its lease, and a night announced after it changed needs two
\* writers of the season at once; those instances go without.
MachinerySteps ==
  [][/\ (part = "nights" => Nights!OutboxStep)
     /\ (part = "slow" => Slow!SettledStays) /\ (part = "claims" => Claims!SettledStays)
     /\ part = "posts" => Posts!ResultStep
     /\ (part = "lease" => Lease!GateStep) /\ (part = "gate" => Gate!GateStep)
     /\ part = "gates" => Gates!GateStep
     /\ part = "lobby" => Lobby!ClaimsAreNotGuessed
     /\ part = "again" => Again!ClaimsAreNotGuessed]_vars

\* Producers do the same things, and so do workers and games.
Symmetry == Permutations({p1, p2}) \cup Permutations({w1, w2}) \cup Permutations({g1, g2})
=============================================================================
