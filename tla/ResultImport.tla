---------------------------- MODULE ResultImport ----------------------------
(***************************************************************************)
(* How played games become results.  The worker's roster scan and its read *)
(* of the league feed, a captain's report and an administrator's buttons   *)
(* all import one game at a time: they choose games from what the provider *)
(* serves, check the fixture, and write in a SERIALIZABLE transaction that *)
(* checks everything again.  Administrators rule, reopen and remove games  *)
(* meanwhile, and booked scrims take games of their own.                   *)
(*                                                                         *)
(* The matches are meetings of the same two teams.  A serializable         *)
(* transaction is one step; that it may lose is Conflict.                  *)
(***************************************************************************)
EXTENDS SeriesRules

CONSTANTS Procs,        \* requests and workers in flight
          Matches, BestOf,
          Kickoffs,     \* where each match first stands
          Times,        \* where a retime may put it
          Scrims,       \* kickoffs of the booked scrims of the two teams
          Fits,         \* the games the two rosters are recognised in
          Ordered,      \* the provider lists games in play order
          Ticketed,     \* season.dotaLeagueId: the league feed is read too
          MaxHands,     \* bound on administrators' corrections
          MaxChanges,   \* bound on retimes, phase changes and new captains
          MaxFaults     \* bound on lost transactions and stopped jobs

ImportAssumption ==
  /\ BestOf \in [Matches -> Nat \ {0}] /\ Kickoffs \in [Matches -> Nat]
  /\ Times \cup Scrims \subseteq Nat /\ Fits \subseteq Games
  /\ {Ordered, Ticketed} \subseteq BOOLEAN
  /\ {MaxHands, MaxChanges, MaxFaults} \subseteq Nat

VARIABLES rows,        \* Match: status, score, winner, forfeit
          games,       \* the Game rows of each match
          claims,      \* DotaMatchClaim: the match a game counts for, "scrim" or Nobody
          suppressed,  \* ImportSuppression rows
          kickoff,     \* Match.scheduledAt
          open,        \* the season's phase lets these results change
          captain,     \* the reporting captain still captains
          feed,        \* the games the provider serves
          jobs,        \* what each process is doing, Nobody when idle
          restored,    \* ghost: removed games an administrator put back
          handled,     \* ghost: matches a hand has touched
          hands, changes, faults
vars == <<rows, games, claims, suppressed, kickoff, open, captain, feed, jobs,
          restored, handled, hands, changes, faults>>
results == <<rows, games, claims, suppressed, restored, handled>>
league == <<kickoff, open, captain, feed>>

Over(m) == rows[m].status = "COMPLETED"
Scores == [Sides -> 0 .. 3]
Unplayed == [status |-> "SCHEDULED", score |-> [s \in Sides |-> 0], winner |-> Nobody, forfeit |-> FALSE]
First(gs) == CHOOSE g \in gs : \A h \in gs : Start[g] <= Start[h]

-----------------------------------------------------------------------------
(* Choosing games                                                          *)

OtherKickoffs(m, ms) == {kickoff[n] : n \in ms \ {m}} \cup Scrims

\* Served, recognised and not yet anybody's.
Candidates(skips) ==
  {g \in feed \cap Fits : claims[g] = Nobody /\ (skips => g \notin suppressed)}

\* autoDetectGamesForMatch: the meetings still to be played compete.
ScanChoice(m, skips) ==
  PickSeriesGames({g \in Candidates(skips) :
      ClaimsGame(g, kickoff[m], OtherKickoffs(m, {n \in Matches : ~Over(n)}))}, BestOf[m])

\* syncLeagueGames: every meeting competes, and only an open match takes games.
FeedChoice(m) ==
  IF Over(m) \/ Cardinality(games[m]) >= BestOf[m] THEN {}
  ELSE PickSeriesGames({g \in Candidates(TRUE) :
         ClaimsGame(g, kickoff[m], OtherKickoffs(m, Matches))}, BestOf[m])

Import(m, todo, by, window, skips) ==
  [kind |-> "import", on |-> m, todo |-> todo, by |-> by, window |-> window,
   skips |-> skips, stage |-> "check"]

Begin(p, job) ==
  /\ jobs[p] = Nobody
  /\ jobs' = [jobs EXCEPT ![p] = job]
  /\ UNCHANGED <<results, league, hands, changes, faults>>

Alone(m, gs) == [n \in Matches |-> IF n = m THEN gs ELSE {}]

\* The worker claims a match that is not over, then scans both rosters; a
\* captain scans unconditionally.
WorkerScan(p, m) ==
  /\ jobs[p] = Nobody /\ open /\ ~Over(m)
  /\ LET chosen == ScanChoice(m, TRUE) IN
       chosen # {} /\ Begin(p, Import(m, Alone(m, chosen), "worker", TRUE, TRUE))

CaptainScan(p, m) ==
  /\ jobs[p] = Nobody /\ open /\ captain
  /\ LET chosen == ScanChoice(m, TRUE) IN
       chosen # {} /\ Begin(p, Import(m, Alone(m, chosen), "captain", TRUE, TRUE))

\* The one pass over the feed that every match's games are chosen from.
ReadFeed(p) ==
  /\ jobs[p] = Nobody /\ Ticketed /\ open
  /\ LET chosen == [n \in Matches |-> FeedChoice(n)] IN
       \E m \in Matches :
         chosen[m] # {} /\ Begin(p, Import(m, chosen, "worker", TRUE, TRUE))

CaptainReports(p, m, g) ==
  /\ open /\ captain /\ g \in feed
  /\ Begin(p, Import(m, Alone(m, {g}), "captain", TRUE, TRUE))

\* Add game and Auto-fetch games: an administrator's word outweighs a removal.
AdminAdds(p, m, g) ==
  /\ open /\ g \in feed /\ hands < MaxHands
  /\ jobs[p] = Nobody
  /\ jobs' = [jobs EXCEPT ![p] = Import(m, Alone(m, {g}), "admin", FALSE, FALSE)]
  /\ hands' = hands + 1
  /\ UNCHANGED <<results, league, changes, faults>>

AdminScans(p, m) ==
  /\ open /\ hands < MaxHands /\ ScanChoice(m, FALSE) # {}
  /\ jobs[p] = Nobody
  /\ jobs' = [jobs EXCEPT ![p] =
                Import(m, Alone(m, ScanChoice(m, FALSE)), "admin", TRUE, FALSE)]
  /\ hands' = hands + 1
  /\ UNCHANGED <<results, league, changes, faults>>

-----------------------------------------------------------------------------
(* importGameForMatch                                                      *)

InFlight(p) == jobs[p] # Nobody /\ jobs[p].kind = "import"
Game(j) == First(j.todo[j.on])

Takes(m) == open /\ ~Over(m) /\ Cardinality(games[m]) < BestOf[m]
Authorised(j) == j.by = "captain" => captain
Welcome(j, g) == j.skips => g \notin suppressed
Placed(j, m, g) == j.window => ClaimsGame(g, kickoff[m], OtherKickoffs(m, Matches))

\* What is left of a job: the same match first, then the others it chose for.
Left(j, todo) ==
  LET more == {m \in Matches : todo[m] # {}}
  IN  IF more = {} THEN Nobody
      ELSE [j EXCEPT !.todo = todo, !.stage = "check",
                     !.on = IF j.on \in more THEN j.on ELSE CHOOSE m \in more : TRUE]

\* A failed game ends its match's list: a later game may not leapfrog it.
GiveUp(j) == Left(j, [j.todo EXCEPT ![j.on] = {}])
Imported(j) == Left(j, [j.todo EXCEPT ![j.on] = @ \ {Game(j)}])

\* The checks before the provider is asked.
MayImport(j, m, g) ==
  Takes(m) /\ Authorised(j) /\ claims[g] = Nobody /\ Welcome(j, g) /\ Placed(j, m, g)

\* Mutants: the transaction trusts what was checked before the provider was
\* asked, about the series, the removals or the meeting.
SeriesUnchecked(j, m, g) == open /\ Authorised(j) /\ Welcome(j, g) /\ Placed(j, m, g) /\ g \in Fits
RemovalUnchecked(j, m, g) == Takes(m) /\ Authorised(j) /\ Placed(j, m, g) /\ g \in Fits

\* The same, and the rosters, inside the transaction.
StillMay(j, m, g) ==
  Takes(m) /\ Authorised(j) /\ Welcome(j, g) /\ Placed(j, m, g) /\ g \in Fits

\* The unique index on the claim.
Unclaimed(g) == claims[g] = Nobody

Check(p) ==
  /\ InFlight(p)
  /\ LET j == jobs[p] IN
       /\ j.stage = "check"
       /\ jobs' = [jobs EXCEPT ![p] =
            IF MayImport(j, j.on, Game(j)) THEN [j EXCEPT !.stage = "write"] ELSE GiveUp(j)]
  /\ UNCHANGED <<results, league, hands, changes, faults>>

Record(j, m, g) ==
  /\ claims' = [claims EXCEPT ![g] = m]
  /\ games' = [games EXCEPT ![m] = @ \cup {g}]
  /\ rows' = [rows EXCEPT ![m] = Projection(games[m] \cup {g}, BestOf[m])]
  /\ restored' = IF j.by = "admin" THEN restored \cup {g} ELSE restored
  /\ handled' = IF j.by = "worker" THEN handled ELSE handled \cup {m}
  /\ UNCHANGED suppressed

Write(p) ==
  /\ InFlight(p)
  /\ LET j == jobs[p] IN
       /\ j.stage = "write"
       /\ IF StillMay(j, j.on, Game(j)) /\ Unclaimed(Game(j))
          THEN Record(j, j.on, Game(j)) /\ jobs' = [jobs EXCEPT ![p] = Imported(j)]
          ELSE jobs' = [jobs EXCEPT ![p] = GiveUp(j)] /\ UNCHANGED results
  /\ UNCHANGED <<league, hands, changes, faults>>

\* The transaction loses its retries to others; the work deadline passes, or
\* the process dies.
Conflict(p) ==
  /\ InFlight(p) /\ jobs[p].stage = "write" /\ faults < MaxFaults
  /\ faults' = faults + 1
  /\ jobs' = [jobs EXCEPT ![p] = GiveUp(jobs[p])]
  /\ UNCHANGED <<results, league, hands, changes>>

Stop(p) ==
  /\ jobs[p] # Nobody /\ faults < MaxFaults
  /\ faults' = faults + 1
  /\ jobs' = [jobs EXCEPT ![p] = Nobody]
  /\ UNCHANGED <<results, league, hands, changes>>

\* A booked scrim's importer claims a game, by the same unique index.
ScrimTakes(g) ==
  /\ g \in feed /\ Unclaimed(g)
  /\ \E t \in Scrims : ClaimsGame(g, t, {kickoff[m] : m \in Matches})
  /\ claims' = [claims EXCEPT ![g] = "scrim"]
  /\ UNCHANGED <<rows, games, suppressed, restored, handled, league, jobs, hands, changes, faults>>

-----------------------------------------------------------------------------
(* recordResult, reopenMatch, removeGame                                   *)

\* The form's snapshot of the row, and a score that row could hold.
JudgeResult(p, m, score, forfeit) ==
  /\ jobs[p] = Nobody /\ hands < MaxHands
  /\ IF forfeit THEN SeriesScore(score, BestOf[m]) ELSE PlayedFinal(score, BestOf[m])
  /\ jobs' = [jobs EXCEPT ![p] =
       [kind |-> "rule", on |-> m, seen |-> rows[m], score |-> score, forfeit |-> forfeit]]
  /\ hands' = hands + 1
  /\ UNCHANGED <<results, league, changes, faults>>

\* Imported games carry their own score; a forfeit may only add to it.
Overrules(m, score, forfeit) ==
  games[m] # {} => forfeit /\ \A s \in Sides : score[s] >= Wins(games[m], s)

MayRecord(j) ==
  /\ open
  /\ rows[j.on] = j.seen
  /\ ~(Over(j.on) /\ rows[j.on].score = j.score /\ rows[j.on].forfeit = j.forfeit)
  /\ Overrules(j.on, j.score, j.forfeit)

RecordResult(p) ==
  /\ jobs[p] # Nobody /\ jobs[p].kind = "rule"
  /\ LET j == jobs[p] IN
       IF MayRecord(j)
       THEN /\ rows' = [rows EXCEPT ![j.on] =
                 [status |-> "COMPLETED", score |-> j.score, winner |-> Leader(j.score),
                  forfeit |-> j.forfeit]]
            /\ handled' = handled \cup {j.on}
            /\ UNCHANGED <<games, claims, suppressed, restored>>
       ELSE UNCHANGED results
  /\ jobs' = [jobs EXCEPT ![p] = Nobody]
  /\ UNCHANGED <<league, hands, changes, faults>>

ReopenMatch(m) ==
  /\ open /\ Over(m) /\ games[m] = {} /\ hands < MaxHands
  /\ rows' = [rows EXCEPT ![m] = Unplayed]
  /\ handled' = handled \cup {m} /\ hands' = hands + 1
  /\ UNCHANGED <<games, claims, suppressed, restored, league, jobs, changes, faults>>

\* The exclusion, the deletion, the claim and the row, in one transaction.
RemoveGame(m, g) ==
  /\ open /\ g \in games[m] /\ hands < MaxHands
  /\ suppressed' = suppressed \cup {g}
  /\ games' = [games EXCEPT ![m] = @ \ {g}]
  /\ claims' = [claims EXCEPT ![g] = Nobody]
  /\ rows' = [rows EXCEPT ![m] = Projection(games[m] \ {g}, BestOf[m])]
  /\ restored' = restored \ {g}
  /\ handled' = handled \cup {m} /\ hands' = hands + 1
  /\ UNCHANGED <<league, jobs, changes, faults>>

-----------------------------------------------------------------------------
(* The season around them                                                  *)

\* A game ends and the provider lists it.
Serve(g) ==
  /\ g \notin feed
  /\ Ordered => \A h \in Games : Start[h] < Start[g] => h \in feed
  /\ feed' = feed \cup {g}
  /\ UNCHANGED <<results, kickoff, open, captain, jobs, hands, changes, faults>>

Changing == changes < MaxChanges /\ changes' = changes + 1

Retime(m, t) ==
  /\ Changing /\ rows[m].status = "SCHEDULED" /\ kickoff[m] # t
  /\ kickoff' = [kickoff EXCEPT ![m] = t]
  /\ UNCHANGED <<results, open, captain, feed, jobs, hands, faults>>

\* The phase leaves these matches, or comes back to them.
TurnPhase ==
  /\ Changing /\ open' = ~open
  /\ UNCHANGED <<results, kickoff, captain, feed, jobs, hands, faults>>

NewCaptain ==
  /\ Changing /\ captain /\ captain' = FALSE
  /\ UNCHANGED <<results, kickoff, open, feed, jobs, hands, faults>>

Init ==
  /\ rows = [m \in Matches |-> Unplayed]
  /\ games = [m \in Matches |-> {}]
  /\ claims = [g \in Games |-> Nobody]
  /\ suppressed = {} /\ kickoff = Kickoffs /\ open = TRUE /\ captain = TRUE
  /\ feed = {} /\ jobs = [p \in Procs |-> Nobody]
  /\ restored = {} /\ handled = {}
  /\ hands = 0 /\ changes = 0 /\ faults = 0

Scanning(p) == (\E m \in Matches : WorkerScan(p, m)) \/ ReadFeed(p)
Importing(p) == Check(p) \/ Write(p)
Reporting(p) == \E m \in Matches : CaptainScan(p, m) \/ \E g \in Games : CaptainReports(p, m, g)
Ruling(p) ==
  \/ \E m \in Matches : AdminScans(p, m) \/ \E g \in Games : AdminAdds(p, m, g)
  \/ \E m \in Matches, score \in Scores, forfeit \in BOOLEAN : JudgeResult(p, m, score, forfeit)
  \/ RecordResult(p)
Correcting == \E m \in Matches : ReopenMatch(m) \/ \E g \in Games : RemoveGame(m, g)
Elsewhere ==
  \/ \E g \in Games : Serve(g) \/ ScrimTakes(g)
  \/ \E m \in Matches, t \in Times : Retime(m, t)
  \/ TurnPhase \/ NewCaptain

Next ==
  \/ \E p \in Procs : Scanning(p) \/ Reporting(p) \/ Ruling(p) \/ Importing(p) \/ Conflict(p) \/ Stop(p)
  \/ Correcting
  \/ Elsewhere
Spec == Init /\ [][Next]_vars

\* The worker keeps running while a fixture's window is open: it scans the
\* stalest match first, reads the feed, and finishes what it started.
FairSpec ==
  /\ Spec
  /\ \A g \in Games : WF_vars(Serve(g))
  /\ \A m \in Matches, p \in Procs : SF_vars(WorkerScan(p, m))
  /\ \A p \in Procs : SF_vars(ReadFeed(p))
  /\ \A p \in Procs : WF_vars(Importing(p)) /\ WF_vars(RecordResult(p))

-----------------------------------------------------------------------------
(* Properties                                                              *)

\* Rows, games and claims stay what the tables hold.
TypeOK ==
  /\ \A m \in Matches :
       /\ rows[m].status \in {"SCHEDULED", "LIVE", "COMPLETED"}
       /\ rows[m].score \in Scores /\ rows[m].winner \in Sides \cup {Nobody}
       /\ Cardinality(games[m]) <= BestOf[m]
  /\ games \in [Matches -> SUBSET Games] /\ suppressed \subseteq Games
  /\ kickoff \in [Matches -> Nat] /\ feed \subseteq Games

\* Whatever imports, removals and rulings cross each other, a match's row is
\* the projection of its games; the exceptions are final results somebody
\* ruled, and a ruling over games keeps every win those games hold.
ScoreIsItsGames ==
  \A m \in Matches :
    \/ rows[m] = Projection(games[m], BestOf[m])
    \/ /\ Over(m)
       /\ games[m] # {} => rows[m].forfeit /\ \A s \in Sides : rows[m].score[s] >= Wins(games[m], s)

\* No game is added to a series that is over, however long before its end
\* the importer looked: a result stands until an administrator reopens it.
DecidedStaysDecided ==
  \A m \in Matches : Over(m) => games'[m] \subseteq games[m]

\* A game counts once: for the one match that has its row, or for a scrim.
GamesCountOnce ==
  \A g \in Games, m \in Matches : g \in games[m] <=> claims[g] = m

\* A game an administrator removed is on record again only by an
\* administrator's own hand, even if it was removed while an automatic
\* import of it was waiting for the provider.
RemovedGamesStayOut ==
  \A g \in suppressed : claims[g] \in Matches => g \in restored

\* While the phase is closed to them, results do not move.
ClosedResultsStand == ~open => games' = games /\ rows' = rows

\* A game nobody vouched for is recorded for the meeting it is nearest to,
\* even when a meeting moved after the game was chosen.
NearestMeetingOwns ==
  \A m \in Matches, g \in Games :
       (g \in games'[m] \ games[m] /\ m \notin handled')
       => ClaimsGame(g, kickoff[m], OtherKickoffs(m, Matches))

\* The games of the meeting, as if they had been looked at only at the end.
Meeting(m) == {g \in Fits : ClaimsGame(g, kickoff[m], OtherKickoffs(m, Matches))}
Untouched(m) == m \notin handled /\ changes = 0 /\ hands = 0

\* What is on record of a series is how it began: its first games in play
\* order and never one played after the clinch, although the scan, the feed
\* and the captains record it piece by piece while it is still being played.
SeriesInPlayOrder ==
  \A m \in Matches : Untouched(m) =>
    \A g \in games[m] :
      /\ Before(Meeting(m), g) \subseteq games[m]
      /\ ~Decided([s \in Sides |-> Wins(Before(Meeting(m), g), s)], BestOf[m])

\* Games of another session than the series' never enter its record: "a
\* stale scrim never beats the night just played".
OneSession ==
  \A m \in Matches : Untouched(m) =>
    games[m] \subseteq PickSeriesGames(Meeting(m), BestOf[m])

\* Every series that was played out is recorded.
PlayedOut(m) ==
  /\ Untouched(m) /\ feed = Games
  /\ Projection(PickSeriesGames(Meeting(m), BestOf[m]), BestOf[m]).status = "COMPLETED"
SeriesLands == \A m \in Matches : []<>(PlayedOut(m) => Over(m))

\* What every state, and every step, of the results keeps.
ImportIsSound == TypeOK /\ ScoreIsItsGames /\ RemovedGamesStayOut /\ GamesCountOnce
ImportStep == DecidedStaysDecided /\ ClosedResultsStand /\ NearestMeetingOwns
=============================================================================
