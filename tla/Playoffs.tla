------------------------------ MODULE Playoffs ------------------------------
(***************************************************************************)
(* The single-elimination bracket.  An administrator starts it from the    *)
(* final table, resets it or withdraws it, each time with a form that      *)
(* names the revision it showed.  Every result, import, correction and     *)
(* worker pass calls advancePlayoffBracket: it reads the latest round and, *)
(* in a later transaction, builds the next round or crowns the champion.   *)
(* Nothing in the schema stops two rows from holding one bracket slot.     *)
(*                                                                         *)
(* SERIALIZABLE transactions are one step.  The season stays active, and a *)
(* table with unresolved ties is not offered (tiebreakers are not part of  *)
(* this model).                                                            *)
(***************************************************************************)
EXTENDS Naturals, FiniteSets, Sequences

CONSTANTS Workers,      \* runs of advancePlayoffBracket in flight
          Admins,       \* open playoff control forms
          Tables,       \* the seedings results can produce: sequences of teams
          MaxBuilds,    \* bound on brackets started or reset
          MaxChanges,   \* bound on corrections and changes of the table
          MaxFaults,    \* bound on runs lost to a restart or a serialization conflict
          None

PlayoffsAssumption == {MaxBuilds, MaxChanges, MaxFaults} \subseteq Nat

VARIABLES status, champion,   \* the Season row
          table,              \* the final regular-season order
          matches,            \* the postseason Match rows; winner None until COMPLETED
          markers,            \* rounds whose playoffRoundBuilt setting exists
          runs,               \* the round each run saw decided, {} when idle
          forms,              \* what each open form showed, None when closed
          born, builds, changes, faults
vars == <<status, champion, table, matches, markers, runs, forms, born, builds, changes, faults>>

-----------------------------------------------------------------------------
(* Seeding and pairing                                                     *)

\* 1, 4, 2, 3 in a bracket of four: the best seeds meet as late as possible.
seedOrder[size \in Nat] ==
  IF size <= 2 THEN <<1, 2>>
  ELSE LET half == seedOrder[size \div 2]
       IN [i \in 1..size |-> IF i % 2 = 1 THEN half[(i + 1) \div 2] ELSE size + 1 - half[i \div 2]]

Pairs(s) == [i \in 1..(Len(s) \div 2) |-> <<s[2*i - 1], s[2*i]>>]

playoffFirstRound(seeds) == Pairs([i \in DOMAIN seeds |-> seeds[seedOrder[Len(seeds)][i]]])

nextRoundPairings(winners) == Pairs(winners)

Latest(ms) == {m \in ms : \A n \in ms : n.round <= m.round}
hasLaterBracketRound(m) == \E n \in matches : n.round > m.round

InSlotOrder(ms) == [i \in 1..Cardinality(ms) |-> CHOOSE m \in ms : m.slot = i - 1]

Fixtures(pairings, r) ==
  {[id |-> born + i, round |-> r, slot |-> i - 1, winner |-> None,
    phase |-> IF Len(pairings) = 1 THEN "FINAL" ELSE "PLAYOFF",
    home |-> pairings[i][1], away |-> pairings[i][2]] : i \in DOMAIN pairings}

-----------------------------------------------------------------------------
(* Administrators                                                          *)

playoffSetupRevision == [status |-> status, table |-> table, matches |-> matches]

OpenForm(a, intent) ==
  /\ forms[a] = None
  /\ forms' = [forms EXCEPT ![a] = [intent |-> intent, shown |-> playoffSetupRevision]]
  /\ UNCHANGED <<status, champion, table, matches, markers, runs, born, builds, changes, faults>>

HoldsClaim(f) == f.shown = playoffSetupRevision
CanStart == status = "REGULAR_SEASON" /\ matches = {}
CanReset == status \in {"PLAYOFFS", "COMPLETE"} /\ matches # {}

Allowed(intent) ==
  CASE intent = "start" -> CanStart
    [] intent \in {"reset", "return"} -> CanReset

\* removePostseason clears the markers with the rows.
MarkersKept == {}

createPlayoffBracket(f) ==
  /\ f.intent \in {"start", "reset"}
  /\ builds < MaxBuilds
  /\ LET pairings == playoffFirstRound(table)
     IN /\ matches' = Fixtures(pairings, 0)
        /\ born' = born + Len(pairings)
  /\ status' = "PLAYOFFS"
  /\ builds' = builds + 1

returnToRegularSeason(f) ==
  /\ f.intent = "return"
  /\ matches' = {}
  /\ status' = "REGULAR_SEASON"
  /\ UNCHANGED <<born, builds>>

Submit(a) ==
  /\ forms[a] # None
  /\ HoldsClaim(forms[a]) /\ Allowed(forms[a].intent)
  /\ createPlayoffBracket(forms[a]) \/ returnToRegularSeason(forms[a])
  /\ markers' = MarkersKept
  /\ champion' = None
  /\ forms' = [forms EXCEPT ![a] = None]
  /\ UNCHANGED <<table, runs, changes, faults>>

\* The claim is refused ("reload and try again"), or the administrator leaves the page.
Reload(a) ==
  /\ forms[a] # None
  /\ forms' = [forms EXCEPT ![a] = None]
  /\ UNCHANGED <<status, champion, table, matches, markers, runs, born, builds, changes, faults>>

-----------------------------------------------------------------------------
(* Results                                                                 *)

SetWinner(m, w) == (matches \ {m}) \union {[m EXCEPT !.winner = w]}
matchResultsOpen == status = "PLAYOFFS"
CanCorrect(m) == matchResultsOpen /\ ~hasLaterBracketRound(m)

\* An import or the result form completes the series.
recordResult(m, w) ==
  /\ CanCorrect(m)
  /\ w \in {m.home, m.away} /\ w # m.winner
  /\ m.winner # None => changes < MaxChanges
  /\ matches' = SetWinner(m, w)
  /\ changes' = IF m.winner = None THEN changes ELSE changes + 1
  /\ UNCHANGED <<status, champion, table, markers, runs, forms, born, builds, faults>>

\* The reopen button, or the removal of an imported game that the series needed.
reopenMatch(m) ==
  /\ m.winner # None /\ changes < MaxChanges
  /\ CanCorrect(m)
  /\ matches' = SetWinner(m, None)
  /\ changes' = changes + 1
  /\ UNCHANGED <<status, champion, table, markers, runs, forms, born, builds, faults>>

crownedFinalCorrection(m) ==
  /\ status = "COMPLETE" /\ m.phase = "FINAL"
  /\ m.winner # None /\ champion \in {m.home, m.away}
  /\ Latest(matches) = {m}

\* The same two corrections of a crowned final; the removed game may not have decided it.
CorrectCrown(m, w) ==
  /\ crownedFinalCorrection(m) /\ changes < MaxChanges
  /\ w \in {m.winner, None}
  /\ matches' = SetWinner(m, w)
  /\ status' = "PLAYOFFS" /\ champion' = None
  /\ changes' = changes + 1
  /\ UNCHANGED <<table, markers, runs, forms, born, builds, faults>>

\* Regular-season results, rulings and withdrawals change the order only in the regular season.
ChangeTable(t) ==
  /\ status = "REGULAR_SEASON" /\ changes < MaxChanges
  /\ t # table /\ table' = t
  /\ changes' = changes + 1
  /\ UNCHANGED <<status, champion, matches, markers, runs, forms, born, builds, faults>>

-----------------------------------------------------------------------------
(* advancePlayoffBracket                                                   *)

AllDecided(ms) == \A m \in ms : m.winner # None

\* The reads before the transaction.
BeginAdvance(p) ==
  /\ runs[p] = {}
  /\ status = "PLAYOFFS" /\ matches # {}
  /\ AllDecided(Latest(matches))
  /\ Cardinality(Latest(matches)) = 1 => \A m \in Latest(matches) : m.phase = "FINAL"
  /\ runs' = [runs EXCEPT ![p] = Latest(matches)]
  /\ UNCHANGED <<status, champion, table, matches, markers, forms, born, builds, changes, faults>>

RoundSeen(current) == (CHOOSE m \in current : TRUE).round

\* Mutants: the rows are looked for, their winners are not; the season row is the only guard.
RowsRemain(current) == \A m \in current : \E n \in matches : n.id = m.id
NoMarker(r) == TRUE

inputsHold(current) == current \subseteq matches
winnerStillValid(current) == Latest(matches) = current
RoundUnbuilt(r) == r \notin markers

CanCrown(current) ==
  status = "PLAYOFFS" /\ Cardinality(current) = 1 /\ winnerStillValid(current)
CanBuild(current) ==
  /\ status = "PLAYOFFS" /\ Cardinality(current) > 1
  /\ inputsHold(current) /\ RoundUnbuilt(RoundSeen(current) + 1)

Crown(p) ==
  /\ runs[p] # {} /\ CanCrown(runs[p])
  /\ champion' = (CHOOSE m \in runs[p] : TRUE).winner
  /\ status' = "COMPLETE"
  /\ runs' = [runs EXCEPT ![p] = {}]
  /\ UNCHANGED <<table, matches, markers, forms, born, builds, changes, faults>>

BuildRound(p) ==
  /\ runs[p] # {} /\ CanBuild(runs[p])
  /\ LET current == InSlotOrder(runs[p])
         pairings == nextRoundPairings([i \in DOMAIN current |-> current[i].winner])
     IN /\ matches' = matches \union Fixtures(pairings, RoundSeen(runs[p]) + 1)
        /\ born' = born + Len(pairings)
  /\ markers' = markers \union {RoundSeen(runs[p]) + 1}
  /\ runs' = [runs EXCEPT ![p] = {}]
  /\ UNCHANGED <<status, champion, table, forms, builds, changes, faults>>

\* The transaction finds its inputs changed, or a rival's marker: "return false".
Superseded(p) ==
  /\ runs[p] # {} /\ ~CanCrown(runs[p]) /\ ~CanBuild(runs[p])
  /\ runs' = [runs EXCEPT ![p] = {}]
  /\ UNCHANGED <<status, champion, table, matches, markers, forms, born, builds, changes, faults>>

\* A restart between the two steps, or a conflict with a transaction that changed nothing here.
LoseRun(p) ==
  /\ runs[p] # {} /\ faults < MaxFaults
  /\ runs' = [runs EXCEPT ![p] = {}]
  /\ faults' = faults + 1
  /\ UNCHANGED <<status, champion, table, matches, markers, forms, born, builds, changes>>

-----------------------------------------------------------------------------
Init ==
  /\ status = "REGULAR_SEASON" /\ champion = None
  /\ table \in Tables
  /\ matches = {} /\ markers = {}
  /\ runs = [p \in Workers |-> {}]
  /\ forms = [a \in Admins |-> None]
  /\ born = 0 /\ builds = 0 /\ changes = 0 /\ faults = 0

Next ==
  \/ \E a \in Admins : \/ \E i \in {"start", "reset", "return"} : OpenForm(a, i)
                       \/ Submit(a)
                       \/ Reload(a)
  \/ \E m \in matches : \/ \E w \in {m.home, m.away} : recordResult(m, w)
                        \/ reopenMatch(m)
                        \/ \E w \in {m.winner, None} : CorrectCrown(m, w)
  \/ \E t \in Tables : ChangeTable(t)
  \/ \E p \in Workers : BeginAdvance(p) \/ Crown(p) \/ BuildRound(p) \/ Superseded(p) \/ LoseRun(p)

Spec == Init /\ [][Next]_vars

\* Players finish what is scheduled, and the worker's reconciliation runs an advance
\* on every pass.
Play(m) == \E w \in {m.home, m.away} : recordResult(m, w)
PlaySome == \E m \in matches : m.winner = None /\ Play(m)
FairSpec ==
  /\ Spec
  /\ WF_vars(PlaySome)
  /\ \A p \in Workers : WF_vars(BeginAdvance(p)) /\ WF_vars(Crown(p) \/ BuildRound(p) \/ Superseded(p))

-----------------------------------------------------------------------------
(* Properties                                                              *)

TypeOK ==
  /\ status \in {"REGULAR_SEASON", "PLAYOFFS", "COMPLETE"}
  /\ table \in Tables
  /\ \A m \in matches : m.winner \in {m.home, m.away, None} /\ m.phase \in {"PLAYOFF", "FINAL"}
  /\ \A p \in Workers : \A m \in runs[p] : m.winner # None

\* Each slot holds one series, and after the first round its two sides are the winners
\* of the two series that feed it.  It fails when two advances build one round, or when
\* a stale one pairs the winners of a bracket that was reset or corrected meanwhile.
Feeds(f, m) == f.round = m.round - 1 /\ f.slot \div 2 = m.slot
BracketFollowsWinners ==
  /\ \A m, n \in matches : m.round = n.round /\ m.slot = n.slot => m = n
  /\ \A m \in matches : m.round > 0 =>
       {f.winner : f \in {f \in matches : Feeds(f, m)}} = {m.home, m.away}

\* The bracket holds the teams of the table as it is, once each, and in every round the
\* upper half of the seeds that could still be there has not met itself: an order replaced
\* after the bracket was built, or a wrong seeding, brings two of the best together early.
SeedsMeetLate ==
  matches # {} =>
    /\ UNION {{m.home, m.away} : m \in {m \in matches : m.round = 0}} = {table[i] : i \in DOMAIN table}
    /\ \A m \in matches :
         ~ {m.home, m.away} \subseteq {table[i] : i \in 1..(Len(table) \div 2^(m.round + 1))}

\* A season is complete exactly when it has a champion, who won the only series of the
\* last round, a final: resolveChampionPresentation never meets an inconsistent archive.
ChampionWonTheFinal ==
  /\ status = "COMPLETE" <=> champion # None
  /\ champion # None =>
       \E m \in matches : Latest(matches) = {m} /\ m.phase = "FINAL" /\ m.winner = champion

\* A series leaves the database only through a form that showed it with that result.
RemovedAsShown ==
  \A m \in matches : (\A n \in matches' : n.id # m.id) =>
       \E a \in Admins : forms[a] # None /\ forms'[a] = None /\ m \in forms[a].shown.matches

\* The bracket of rows, markers, forms and racing advances is a knockout: rounds are
\* built whole, once and from standing results, and only the last one is corrected.
RoundInPlay == LET ms == InSlotOrder(Latest(matches))
               IN [i \in DOMAIN ms |-> [home |-> ms[i].home, away |-> ms[i].away, winner |-> ms[i].winner]]
Cup == INSTANCE Knockout WITH Seeds <- playoffFirstRound, round <- RoundInPlay
IsKnockout == Cup!Spec

\* The two halves of it, for runs about several instances.
StartsLikeKnockout == Cup!Init
KeepsKnockout ==
  \/ UNCHANGED <<status, champion, matches>>
  \/ UNCHANGED <<status, champion, RoundInPlay>>
  \/ Cup!Next

\* A bracket that is being played ends with a champion, or is withdrawn.
BracketsEnd == status = "PLAYOFFS" ~> status # "PLAYOFFS"

\* What every state of a bracket keeps.
BracketIsSound == TypeOK /\ BracketFollowsWinners /\ ChampionWonTheFinal /\ SeedsMeetLate
=============================================================================
