------------------------------- MODULE Scrims -------------------------------
(***************************************************************************)
(* Practice between two teams.  A captain posts a time, another captain    *)
(* claims it, league fixtures override it, and the games it was played in  *)
(* are recorded by players' histories or by hand, ended early or corrected.*)
(*                                                                         *)
(* A captain stands for the team; a SERIALIZABLE transaction is one step.  *)
(* What a request reads before its transaction is a step of its own.       *)
(* Times are in hours.  The guard on times gone by is left out.            *)
(***************************************************************************)
EXTENDS Integers, FiniteSets

CONSTANTS Teams, Procs,
          Scrims,        \* 1 .. n, used in order
          Times,         \* the times captains and the league choose from
          Lengths,       \* best-of
          Games, Start, Won,
          Played,        \* [Games -> [Teams -> accounts]]: who played for whom
          Roster,        \* [Teams -> accounts]
          Guests,        \* accounts a captain may add
          Known,         \* accounts of a side a game must be recognised by: 3
          GuestLimit,    \* SCRIM_GUEST_LIMIT_PER_TEAM
          Nobody, Official,  \* no team; the league itself
          MaxLeague,     \* bound on the league's fixtures, withdrawals and phases
          MaxHands       \* bound on removals and guests

Admin == "admin"
Actors == Teams \cup {Admin}
Accounts == Guests \cup UNION {Roster[t] : t \in Teams}

ScrimAssumption ==
  /\ Scrims = 1 .. Cardinality(Scrims) /\ Times \subseteq Nat
  /\ Lengths \subseteq 1 .. 5 /\ {Known, GuestLimit, MaxLeague, MaxHands} \subseteq Nat
  /\ Start \in [Games -> Nat] /\ Won \in [Games -> Teams]
  /\ Played \in [Games -> [Teams -> SUBSET Accounts]]

VARIABLES scrims,     \* the Scrim rows, Nobody until posted
          lineup,     \* the ScrimParticipant rows of each side
          guests,     \* those of them that are guests
          games,      \* the ScrimGame rows of each scrim
          claims,     \* DotaMatchClaim: a scrim, Official or Nobody
          skips,      \* games removed by an administrator
          fixtures,   \* unfinished league matches: two teams and a kickoff
          active,     \* the season is active and not complete
          withdrawn,
          jobs,
          reopened,   \* ghost: scrims a removal put back
          moves, hands
vars == <<scrims, lineup, guests, games, claims, skips, fixtures, active, withdrawn,
          jobs, reopened, moves, hands>>
booked == <<scrims, lineup, guests>>
recorded == <<games, claims, skips, reopened>>
league == <<fixtures, active, withdrawn, moves>>

Rules(pair) == INSTANCE SeriesRules WITH Sides <- pair

Posted(s) == scrims[s] # Nobody
Is(s, states) == Posted(s) /\ scrims[s].status \in states
CONFIRMED == {"SCHEDULED", "LIVE"}
UNPLAYED == {"OPEN", "SCHEDULED"}
Sides(s) == {scrims[s].host, scrims[s].opponent} \ {Nobody}
Nil == [t \in Teams |-> 0]

-----------------------------------------------------------------------------
(* The calendar                                                            *)

COLLISION == 4
Clash(a, b) == a - b <= COLLISION /\ b - a <= COLLISION

\* findConfirmedScrimConflict
ScrimConflict(ts, at, except) ==
  {s \in Scrims \ except : Is(s, CONFIRMED) /\ Sides(s) \cap ts # {} /\ Clash(scrims[s].at, at)}

\* Mutant: only the league's matches are asked about.
LeagueTimeAvailable(t, at, except) == \A f \in fixtures : t \in f.teams => ~Clash(f.at, at)

\* assertTeamTimeAvailable
TimeAvailable(t, at, except) ==
  /\ \A f \in fixtures : t \in f.teams => ~Clash(f.at, at)
  /\ ScrimConflict({t}, at, except) = {}


CancelAll(ss) ==
  scrims' = [s \in Scrims |-> IF s \in ss THEN [scrims[s] EXCEPT !.status = "CANCELLED"] ELSE scrims[s]]

MayPlay(t) == active /\ t \notin withdrawn

createScrim(t, at, best) ==
  /\ MayPlay(t) /\ TimeAvailable(t, at, {})
  /\ \E s \in Scrims :
       /\ ~Posted(s) /\ \A r \in Scrims : r < s => Posted(r)
       /\ scrims' = [scrims EXCEPT ![s] =
            [host |-> t, opponent |-> Nobody, at |-> at, best |-> best,
             status |-> "OPEN", score |-> Nil, winner |-> Nobody]]
       /\ lineup' = [lineup EXCEPT ![s][t] = Roster[t]]
  /\ UNCHANGED <<guests, recorded, league, jobs, hands>>

\* The open times of the two teams that the booking withdraws.
Rivals(s, ts) ==
  {r \in Scrims \ {s} : Is(r, {"OPEN"}) /\ scrims[r].host \in ts /\ Clash(scrims[r].at, scrims[s].at)}

SharedAccount(s, t) == lineup[s][scrims[s].host] \cap Roster[t] # {}

joinScrim(t, s) ==
  /\ MayPlay(t) /\ Is(s, {"OPEN"}) /\ scrims[s].host \notin withdrawn \cup {t}
  /\ \A u \in {t, scrims[s].host} : TimeAvailable(u, scrims[s].at, {s})
  /\ ~SharedAccount(s, t)
  /\ LET withdrawing == Rivals(s, {t, scrims[s].host})
     IN scrims' = [r \in Scrims |->
          IF r = s THEN [scrims[s] EXCEPT !.opponent = t, !.status = "SCHEDULED"]
          ELSE IF r \in withdrawing THEN [scrims[r] EXCEPT !.status = "CANCELLED"]
          ELSE scrims[r]]
  /\ lineup' = [lineup EXCEPT ![s][t] = Roster[t]]
  /\ UNCHANGED <<guests, recorded, league, jobs, hands>>

cancelScrim(v, s) ==
  /\ active /\ Is(s, UNPLAYED) /\ v \in Sides(s) \cup {Admin}
  /\ CancelAll({s})
  /\ UNCHANGED <<lineup, guests, recorded, league, jobs, hands>>

-----------------------------------------------------------------------------
(* The league                                                              *)

LeagueMoves == moves < MaxLeague /\ moves' = moves + 1
Rest == UNCHANGED <<lineup, guests, recorded, jobs, hands>>

\* Generating a schedule, retiming and rescheduling refuse a booked scrim.
FixtureSet(ts, at) ==
  /\ active /\ LeagueMoves /\ ScrimConflict(ts, at, {}) = {}
  /\ fixtures' = fixtures \cup {[teams |-> ts, at |-> at]}
  /\ UNCHANGED <<scrims, active, withdrawn>> /\ Rest

\* yieldScrimsToOfficialFixture: the booked yield, the ones under way stay.
Yielding(ts, at) == {s \in ScrimConflict(ts, at, {}) : scrims[s].status = "SCHEDULED"}

PlayoffRound(ts, at) ==
  /\ active /\ LeagueMoves
  /\ fixtures' = fixtures \cup {[teams |-> ts, at |-> at]}
  /\ CancelAll(Yielding(ts, at))
  /\ UNCHANGED <<active, withdrawn>> /\ Rest

FixturePlayed(f) ==
  /\ fixtures' = fixtures \ {f}
  /\ UNCHANGED <<scrims, active, withdrawn, moves>> /\ Rest

Unplayed(ts) == {s \in Scrims : Is(s, UNPLAYED) /\ Sides(s) \cap ts # {}}

withdrawTeam(t) ==
  /\ active /\ t \notin withdrawn /\ LeagueMoves
  /\ withdrawn' = withdrawn \cup {t} /\ CancelAll(Unplayed({t}))
  /\ fixtures' = {f \in fixtures : t \notin f.teams}
  /\ UNCHANGED active /\ Rest

reinstateTeam(t) ==
  /\ active /\ t \in withdrawn /\ LeagueMoves
  /\ withdrawn' = withdrawn \ {t}
  /\ UNCHANGED <<scrims, fixtures, active>> /\ Rest

\* The final crowns a champion; a correction of it takes the crown back.
SeasonEnds ==
  /\ active /\ fixtures = {} /\ LeagueMoves
  /\ active' = FALSE /\ CancelAll(Unplayed(Teams))
  /\ UNCHANGED <<fixtures, withdrawn>> /\ Rest

SeasonResumes ==
  /\ ~active /\ LeagueMoves /\ active' = TRUE
  /\ UNCHANGED <<scrims, fixtures, withdrawn>> /\ Rest

\* A league import claims a game first.
LeagueRecords(g) ==
  /\ claims[g] = Nobody /\ LeagueMoves
  /\ claims' = [claims EXCEPT ![g] = Official]
  /\ UNCHANGED <<booked, games, skips, reopened, fixtures, active, withdrawn, jobs, hands>>

-----------------------------------------------------------------------------
(* Guests                                                                  *)

\* Whom a lineup may still be changed for.
LineupOpen(s, t) ==
  /\ Is(s, UNPLAYED \cup {"LIVE"}) /\ t \in Sides(s)
  /\ scrims[s].status # "LIVE" => active

addScrimGuest(t, s, a) ==
  /\ LineupOpen(s, t) /\ hands < MaxHands
  /\ scrims[s].status # "LIVE" => t \notin withdrawn
  /\ Cardinality(guests[s][t]) < GuestLimit
  /\ \A u \in Teams : a \notin lineup[s][u]
  /\ lineup' = [lineup EXCEPT ![s][t] = @ \cup {a}]
  /\ guests' = [guests EXCEPT ![s][t] = @ \cup {a}]
  /\ hands' = hands + 1
  /\ UNCHANGED <<scrims, recorded, league, jobs>>

removeScrimGuest(t, s, a) ==
  /\ LineupOpen(s, t) /\ a \in guests[s][t]
  /\ lineup' = [lineup EXCEPT ![s][t] = @ \ {a}]
  /\ guests' = [guests EXCEPT ![s][t] = @ \ {a}]
  /\ UNCHANGED <<scrims, recorded, league, jobs, hands>>

-----------------------------------------------------------------------------
(* Recording games                                                         *)

WINDOW_BEFORE == 12
WINDOW_AFTER == 36
Window(g, at) == at - WINDOW_BEFORE <= Start[g] /\ Start[g] <= at + WINDOW_AFTER
Distance(g, at) == IF Start[g] > at THEN Start[g] - at ELSE at - Start[g]

\* The other meetings of the pair whose own window the game falls in.
OtherMeetings(g, s) ==
  {scrims[r].at : r \in {r \in Scrims \ {s} :
      Posted(r) /\ scrims[r].status # "CANCELLED" /\ Sides(r) = Sides(s) /\ Window(g, scrims[r].at)}}
  \cup {f.at : f \in {f \in fixtures :
      f.teams = Sides(s) /\ Rules(Sides(s))!InWindow(g, f.at)}}

\* validateFetchedGame
Fits(g, s) ==
  /\ Window(g, scrims[s].at)
  /\ \A at \in OtherMeetings(g, s) : Distance(g, at) > Distance(g, scrims[s].at)
  /\ \A t \in Sides(s) : Cardinality(Played[g][t] \cap lineup[s][t]) >= Known

\* existingGameError
Free(g) == claims[g] = Nobody

\* What the writer must find before and again inside its transaction.
Writable(v, s) ==
  /\ Is(s, CONFIRMED) /\ v \in Sides(s) \cup {Admin}
  /\ active \/ scrims[s].status = "LIVE" \/ v = Admin
  /\ Cardinality(games[s]) < scrims[s].best
  /\ \A t \in Sides(s) : Cardinality(lineup[s][t]) >= Known

Begin(p, job) ==
  /\ jobs[p] = Nobody /\ jobs' = [jobs EXCEPT ![p] = job]
  /\ UNCHANGED <<booked, recorded, league>>

importScrimGame(p, v, s, g) ==
  /\ jobs[p] = Nobody /\ Writable(v, s) /\ Free(g)
  /\ Begin(p, [kind |-> "import", by |-> v, on |-> s, todo |-> {g}])
  /\ UNCHANGED hands

\* The scan leaves out what is taken and what was removed.
Found(s) ==
  Rules(Sides(s))!PickSeriesGames({g \in Games : Free(g) /\ g \notin skips /\ Fits(g, s)}, scrims[s].best)

autoDetectScrimGames(p, v, s) ==
  /\ jobs[p] = Nobody /\ Writable(v, s) /\ Found(s) # {}
  /\ Begin(p, [kind |-> "scan", by |-> v, on |-> s, todo |-> Found(s)])
  /\ UNCHANGED hands

Working(p, kinds) == jobs[p] # Nobody /\ jobs[p].kind \in kinds
First(gs) == CHOOSE g \in gs : \A h \in gs : Start[g] <= Start[h]

\* deriveSeriesProjection, written over the row.
Project(s, gs) ==
  LET series == Rules(Sides(s))!Projection(gs, scrims[s].best)
  IN  [scrims[s] EXCEPT !.score = [t \in Teams |-> IF t \in Sides(s) THEN series.score[t] ELSE 0],
                        !.winner = series.winner, !.status = series.status]

\* commitFetchedScrimGame: one game; the rest of a scan stays to be done.
commitFetchedScrimGame(p) ==
  /\ Working(p, {"import", "scan"})
  /\ LET job == jobs[p]  s == job.on  g == First(job.todo)
     IN /\ Writable(job.by, s) /\ Fits(g, s) /\ Free(g)
        /\ games' = [games EXCEPT ![s] = @ \cup {g}]
        /\ claims' = [claims EXCEPT ![g] = s]
        /\ scrims' = [scrims EXCEPT ![s] = Project(s, games[s] \cup {g})]
        /\ jobs' = [jobs EXCEPT ![p] =
             IF job.todo = {g} THEN Nobody ELSE [job EXCEPT !.todo = @ \ {g}]]
  /\ UNCHANGED <<lineup, guests, skips, reopened, league, hands>>

\* A refusal, a lost transaction or a dead request.
Fails(p) ==
  /\ jobs[p] # Nobody /\ jobs' = [jobs EXCEPT ![p] = Nobody]
  /\ UNCHANGED <<booked, recorded, league, hands>>

-----------------------------------------------------------------------------
(* Ending early, and corrections                                           *)

ReadEnd(p, v, s) ==
  /\ jobs[p] = Nobody /\ Is(s, {"LIVE"}) /\ v \in Sides(s) \cup {Admin}
  /\ Begin(p, [kind |-> "end", by |-> v, on |-> s, score |-> scrims[s].score])
  /\ UNCHANGED hands

\* The claim re-asserts the status and the score that was judged.
StillThat(job) == scrims[job.on].status = "LIVE" /\ scrims[job.on].score = job.score

endScrimSeries(p) ==
  /\ Working(p, {"end"}) /\ StillThat(jobs[p])
  /\ LET s == jobs[p].on
         score == [t \in Sides(s) |-> jobs[p].score[t]]
     IN scrims' = [scrims EXCEPT ![s].status = "COMPLETED",
                                 ![s].winner = Rules(Sides(s))!Leader(score)]
  /\ jobs' = [jobs EXCEPT ![p] = Nobody]
  /\ UNCHANGED <<lineup, guests, recorded, league, hands>>

\* The correction is remembered first, in a write of its own.
rememberImportSkip(p, s, g) ==
  /\ jobs[p] = Nobody /\ g \in games[s] /\ hands < MaxHands
  /\ skips' = skips \cup {g}
  /\ jobs' = [jobs EXCEPT ![p] = [kind |-> "remove", on |-> s, game |-> g]]
  /\ hands' = hands + 1
  /\ UNCHANGED <<booked, games, claims, reopened, league>>

removeScrimGame(p) ==
  /\ Working(p, {"remove"})
  /\ LET s == jobs[p].on  g == jobs[p].game
     IN /\ scrims[s].status # "CANCELLED" /\ g \in games[s]
        /\ games' = [games EXCEPT ![s] = @ \ {g}]
        /\ claims' = [claims EXCEPT ![g] = Nobody]
        /\ scrims' = [scrims EXCEPT ![s] = Project(s, games[s] \ {g})]
        /\ reopened' = reopened \cup {s}
  /\ jobs' = [jobs EXCEPT ![p] = Nobody]
  /\ UNCHANGED <<lineup, guests, skips, league, hands>>

-----------------------------------------------------------------------------
Pairs == {ts \in SUBSET Teams : Cardinality(ts) = 2}

Init ==
  /\ scrims = [s \in Scrims |-> Nobody]
  /\ lineup = [s \in Scrims |-> [t \in Teams |-> {}]] /\ guests = lineup
  /\ games = [s \in Scrims |-> {}] /\ claims = [g \in Games |-> Nobody] /\ skips = {}
  /\ fixtures = {} /\ active = TRUE /\ withdrawn = {}
  /\ jobs = [p \in Procs |-> Nobody] /\ reopened = {} /\ moves = 0 /\ hands = 0

Captains ==
  \/ \E t \in Teams, at \in Times, best \in Lengths : createScrim(t, at, best)
  \/ \E t \in Teams, s \in Scrims : joinScrim(t, s)
  \/ \E v \in Actors, s \in Scrims : cancelScrim(v, s)
  \/ \E t \in Teams, s \in Scrims, a \in Guests : addScrimGuest(t, s, a) \/ removeScrimGuest(t, s, a)

League ==
  \/ \E ts \in Pairs, at \in Times : FixtureSet(ts, at) \/ PlayoffRound(ts, at)
  \/ \E f \in fixtures : FixturePlayed(f)
  \/ \E t \in Teams : withdrawTeam(t) \/ reinstateTeam(t)
  \/ SeasonEnds \/ SeasonResumes
  \/ \E g \in Games : LeagueRecords(g)

Results(p) ==
  \/ \E v \in Actors, s \in Scrims : autoDetectScrimGames(p, v, s) \/ ReadEnd(p, v, s)
  \/ \E v \in Actors, s \in Scrims, g \in Games : importScrimGame(p, v, s, g)
  \/ commitFetchedScrimGame(p) \/ endScrimSeries(p) \/ Fails(p)
  \/ \E s \in Scrims : \E g \in games[s] : rememberImportSkip(p, s, g)
  \/ removeScrimGame(p)

Next == Captains \/ League \/ \E p \in Procs : Results(p)
Spec == Init /\ [][Next]_vars

-----------------------------------------------------------------------------
Row == [host : Teams, opponent : Teams \cup {Nobody}, at : Times, best : Lengths,
        status : {"OPEN", "SCHEDULED", "LIVE", "COMPLETED", "CANCELLED"},
        score : [Teams -> 0 .. 5], winner : Teams \cup {Nobody}]

\* The types, and the two sides a played scrim needs.
TypeOK ==
  /\ scrims \in [Scrims -> Row \cup {Nobody}]
  /\ \A s \in Scrims : Is(s, {"SCHEDULED", "LIVE", "COMPLETED"}) => Cardinality(Sides(s)) = 2
  /\ lineup \in [Scrims -> [Teams -> SUBSET Accounts]]
  /\ \A s \in Scrims, t \in Teams : guests[s][t] \subseteq lineup[s][t]
  /\ games \in [Scrims -> SUBSET Games] /\ claims \in [Games -> Scrims \cup {Official, Nobody}]
  /\ skips \subseteq Games /\ withdrawn \subseteq Teams /\ active \in BOOLEAN
  /\ fixtures \subseteq [teams : Pairs, at : Times] /\ reopened \subseteq Scrims

\* A team's calendar holds one booked scrim within four hours, whoever posted
\* and claimed what in which order; only an administrator's removal of a game
\* can bring back one whose place was taken.  (assertTeamTimeAvailable)
NoDoubleBooking ==
  \A s, r \in Scrims \ reopened :
    /\ s # r /\ Is(s, CONFIRMED) /\ Is(r, CONFIRMED) /\ Sides(s) \cap Sides(r) # {}
    => ~Clash(scrims[s].at, scrims[r].at)

\* A booked team has no other time on offer that it could not keep: the claim
\* withdrew them and no later post slipped in.  (joinScrim)
OffersCanBeKept ==
  \A s, r \in Scrims \ reopened :
    /\ s # r /\ Is(s, {"OPEN"}) /\ Is(r, CONFIRMED) /\ scrims[s].host \in Sides(r)
    => ~Clash(scrims[s].at, scrims[r].at)

\* League fixtures win: no booked, unplayed scrim stands beside a league match
\* of one of its teams.  (yieldScrimsToOfficialFixture)
FixturesWin ==
  \A s \in Scrims \ reopened, f \in fixtures :
    Is(s, {"SCHEDULED"}) /\ Sides(s) \cap f.teams # {} => ~Clash(scrims[s].at, f.at)

\* A team that withdrew, and a season that ended, leave nothing open behind,
\* on either side of a booking.  (withdrawTeam, the crowning of a champion)
GoneLeaveNothingOpen ==
  \A s \in Scrims \ reopened :
    Is(s, UNPLAYED) => active /\ Sides(s) \cap withdrawn = {}

\* Status, score and winner are what the recorded games make them, or a live
\* series was called at exactly its score; a scrim that was cancelled or never
\* booked has none.  (commitFetchedScrimGame, endScrimSeries, removeScrimGame)
ResultsAreTheGames ==
  \A s \in Scrims :
    IF Is(s, {"SCHEDULED", "LIVE", "COMPLETED"})
    THEN LET score == [t \in Sides(s) |-> Cardinality({g \in games[s] : Won[g] = t})]
             top == {t \in Sides(s) : \A u \in Sides(s) \ {t} : score[t] > score[u]}
             over == \/ \E t \in Sides(s) : 2 * score[t] > scrims[s].best
                     \/ Cardinality(games[s]) = scrims[s].best
         IN /\ \A t \in Sides(s) : scrims[s].score[t] = score[t]
            /\ over => scrims[s].status = "COMPLETED"
            /\ scrims[s].status = "SCHEDULED" <=> games[s] = {}
            /\ IF scrims[s].status = "COMPLETED" /\ top # {}
               THEN scrims[s].winner \in top ELSE scrims[s].winner = Nobody
    ELSE games[s] = {}

\* A game counts for one event, and a removal frees it: its claim names the
\* scrim that records it, or the league, or nobody.  (existingGameError)
GameCountsOnce ==
  \A g \in Games : {s \in Scrims : g \in games[s]} = {claims[g]} \cap Scrims

\* No account is on both sides of a lineup, though guests and the joining
\* roster arrive in either order; guests stay within their limit.
LineupsApart ==
  \A s \in Scrims, t \in Teams :
    /\ Cardinality(guests[s][t]) <= GuestLimit
    /\ \A u \in Teams \ {t} : lineup[s][t] \cap lineup[s][u] = {}

\* What src/lib/scrim-result-service.ts:1059 says: a scan cannot put a removed
\* game straight back.
RemovedStaysOut ==
  \A p \in Procs, g \in skips :
       Working(p, {"scan"}) /\ claims[g] = Nobody /\ claims'[g] \in Scrims
       => jobs'[p] = jobs[p]

\* What every state of the scrims keeps.
ScrimsAreSound ==
  /\ TypeOK /\ NoDoubleBooking /\ OffersCanBeKept /\ FixturesWin /\ GoneLeaveNothingOpen
  /\ ResultsAreTheGames /\ GameCountsOnce /\ LineupsApart
=============================================================================
