------------------------------ MODULE Standins ------------------------------
(***************************************************************************)
(* Cover for one match night.  A captain books a standin for a player of   *)
(* theirs or for an open seat; a standin too strong for the seat waits for *)
(* the other captain.  judgeCover reads with no lock; the transaction that *)
(* books, asks or agrees re-reads what a rival can change (recheckCover).  *)
(* Rosters, signups, kickoffs and results change meanwhile.  Nothing in    *)
(* the schema limits the bookings of a seat.                               *)
(*                                                                         *)
(* SERIALIZABLE transactions are one step.  Every match here is between    *)
(* the two teams; the season stays in its regular phase.                   *)
(***************************************************************************)
EXTENDS Integers, FiniteSets, Sequences

CONSTANTS Procs,      \* bookings and answers in flight
          Matches,
          Teams,      \* the two sides
          Users,
          Admins,     \* users who may also act from the admin panel
          FirstRoster, FirstCaptain,  \* [Teams -> SUBSET Users], [Teams -> Users]
          Mmr,        \* [Users -> Nat], 0 when unknown
          Nights,     \* kickoffs; two matches on one night clash
          TEAM_SIZE, STANDIN_MMR_ALLOWANCE,
          MaxRequests,  \* bound on requests asked
          MaxChanges,   \* bound on roster, signup, captain and kickoff changes
          MaxResults,   \* bound on games, results and reopenings
          None

StandinsAssumption ==
  {TEAM_SIZE, STANDIN_MMR_ALLOWANCE, MaxRequests, MaxChanges, MaxResults} \subseteq Nat

VARIABLES roster, captain, active,  \* active: users with an ACTIVE signup
          matches,     \* done, games, night of each match
          outs,        \* [Matches -> users who answered OUT for this kickoff]
          bookings,    \* StandinAssignment rows: match, team, standin, replaced
          requests,    \* StandinRequest rows in the order asked
          jobs,        \* what each booking or answer in flight judged
          changes, results
vars == <<roster, captain, active, matches, outs, bookings, requests, jobs, changes, results>>

-----------------------------------------------------------------------------
(* Reads                                                                   *)

Other(t) == CHOOSE x \in Teams : x # t
Rostered(u) == \E t \in Teams : u \in roster[t]
TeamOf(u) == CHOOSE t \in Teams : u \in roster[t]
Pending == {k \in DOMAIN requests : requests[k].status = "PENDING"}
OpenSeats(t) == TEAM_SIZE - Cardinality(roster[t])

\* A seat: a named player's, or an open one of a team.
Seat(m, t, r) == [match |-> m, team |-> t, replaced |-> r]
SeatOf(row) == Seat(row.match, row.team, row.replaced)

Booked(seat) == Cardinality({b \in bookings : SeatOf(b) = seat})
Asked(seat, but) == Cardinality({k \in Pending \ {but} : SeatOf(requests[k]) = seat})

SeatFree(seat, but) ==
  Booked(seat) + Asked(seat, but) < (IF seat.replaced = None THEN OpenSeats(seat.team) ELSE 1)

Clash(s, m, night) ==
  \E b \in bookings : /\ b.standin = s /\ b.match # m /\ ~matches[b.match].done
                      /\ matches[b.match].night = night

InMatch(s, m, but) ==
  \/ \E b \in bookings : b.standin = s /\ b.match = m
  \/ \E k \in Pending \ {but} : requests[k].standin = s /\ requests[k].match = m

Eligible(s) == s \in active /\ ~Rostered(s)

\* Every check of a cover, with the kickoff it is measured against.
CoverStands(seat, s, but, night) ==
  /\ ~matches[seat.match].done
  /\ Eligible(s)
  /\ seat.replaced # None => seat.replaced \in roster[seat.team]
  /\ ~InMatch(s, seat.match, but)
  /\ SeatFree(seat, but)
  /\ ~Clash(s, seat.match, night)

recheckNothing(seat, s, but, judged) == ~matches[seat.match].done

recheckCover(seat, s, but, judged) == CoverStands(seat, s, but, matches[seat.match].night)

Declined(seat, s) ==
  \E k \in DOMAIN requests : /\ requests[k].status = "DECLINED" /\ requests[k].standin = s
                             /\ requests[k].match = seat.match /\ requests[k].team = seat.team

refuseDeclined(seat, s) == Declined(seat, s)

\* The MMR a cover is judged against; 0 when the site does not know it.
Known(us) == {Mmr[u] : u \in us} \ {0}
Lowest(ms) == IF ms = {} THEN 0 ELSE CHOOSE x \in ms : \A y \in ms : x <= y

LowerOut(seat) ==
  {u \in roster[seat.team] \intersect outs[seat.match] :
     /\ u # seat.replaced /\ Mmr[u] < Mmr[seat.replaced]
     /\ Booked([seat EXCEPT !.replaced = u]) = 0}

coverBaseline(seat) ==
  IF seat.replaced = None THEN Lowest(Known(roster[seat.team]))
  ELSE IF Mmr[seat.replaced] = 0 THEN 0
  ELSE Lowest(Known(LowerOut(seat) \union {seat.replaced}))

standinNeedsApproval(s, baseline) ==
  Mmr[s] = 0 \/ baseline = 0 \/ Mmr[s] - baseline > STANDIN_MMR_ALLOWANCE

-----------------------------------------------------------------------------
(* Booking and asking                                                      *)

\* The match card acts for a captain; the admin panel for the league.
BeginAssign(p, actor, panel, seat, s) ==
  /\ jobs[p] = None
  /\ IF panel THEN actor \in Admins ELSE actor = captain[seat.team]
  /\ s # seat.replaced
  /\ seat.replaced = None => OpenSeats(seat.team) > 0
  /\ CoverStands(seat, s, None, matches[seat.match].night)
  /\ LET over == standinNeedsApproval(s, coverBaseline(seat))
     IN /\ over /\ ~panel => Len(requests) < MaxRequests
        /\ jobs' = [jobs EXCEPT ![p] =
             [kind |-> IF over /\ ~panel THEN "ask" ELSE "book", actor |-> actor, panel |-> panel,
              seat |-> seat, standin |-> s, night |-> matches[seat.match].night, request |-> None]]
  /\ UNCHANGED <<roster, captain, active, matches, outs, bookings, requests, changes, results>>

Booking(j) == [match |-> j.seat.match, team |-> j.seat.team, replaced |-> j.seat.replaced, standin |-> j.standin]

MayAssign(j) ==
  /\ recheckCover(j.seat, j.standin, None, j.night)
  /\ ~j.panel => ~refuseDeclined(j.seat, j.standin)

Book(p) ==
  /\ jobs[p] # None /\ jobs[p].kind = "book" /\ MayAssign(jobs[p])
  /\ bookings' = bookings \union {Booking(jobs[p])}
  /\ jobs' = [jobs EXCEPT ![p] = None]
  /\ UNCHANGED <<roster, captain, active, matches, outs, requests, changes, results>>

Ask(p) ==
  /\ jobs[p] # None /\ jobs[p].kind = "ask" /\ MayAssign(jobs[p])
  /\ Len(requests) < MaxRequests
  /\ requests' = Append(requests,
       [match |-> jobs[p].seat.match, team |-> jobs[p].seat.team, replaced |-> jobs[p].seat.replaced,
        standin |-> jobs[p].standin, by |-> jobs[p].actor, status |-> "PENDING", decider |-> None])
  /\ jobs' = [jobs EXCEPT ![p] = None]
  /\ UNCHANGED <<roster, captain, active, matches, outs, bookings, changes, results>>

-----------------------------------------------------------------------------
(* Answers                                                                 *)

Close(rs, ks, status, u) ==
  [k \in DOMAIN rs |-> IF k \in ks THEN [rs[k] EXCEPT !.status = status, !.decider = u] ELSE rs[k]]

BeginAgree(p, actor, panel, k) ==
  /\ jobs[p] = None /\ k \in Pending
  /\ IF panel THEN actor \in Admins ELSE actor = captain[Other(requests[k].team)]
  /\ CoverStands(SeatOf(requests[k]), requests[k].standin, k, matches[requests[k].match].night)
  /\ jobs' = [jobs EXCEPT ![p] =
       [kind |-> "agree", actor |-> actor, panel |-> panel, seat |-> SeatOf(requests[k]),
        standin |-> requests[k].standin, night |-> matches[requests[k].match].night, request |-> k]]
  /\ UNCHANGED <<roster, captain, active, matches, outs, bookings, requests, changes, results>>

MayAgree(j) ==
  /\ ~j.panel => captain[Other(j.seat.team)] = j.actor
  /\ captain[j.seat.team] # j.actor
  /\ requests[j.request].by # j.actor

ClaimsPending(k) == k \in Pending

Agrees(j) ==
  /\ MayAgree(j) /\ ClaimsPending(j.request)
  /\ recheckCover(j.seat, j.standin, j.request, j.night)

Agree(p) ==
  /\ jobs[p] # None /\ jobs[p].kind = "agree" /\ Agrees(jobs[p])
  /\ requests' = Close(requests, {jobs[p].request}, "APPROVED", jobs[p].actor)
  /\ bookings' = bookings \union {Booking(jobs[p])}
  /\ jobs' = [jobs EXCEPT ![p] = None]
  /\ UNCHANGED <<roster, captain, active, matches, outs, changes, results>>

\* A recheck fails, the claim is lost, or the database aborts the transaction.
Fail(p) ==
  /\ jobs[p] # None
  /\ jobs' = [jobs EXCEPT ![p] = None]
  /\ UNCHANGED <<roster, captain, active, matches, outs, bookings, requests, changes, results>>

Answer(k, team, status, actor) ==
  /\ k \in Pending
  /\ actor \in Admins \union {captain[team]}
  /\ requests' = Close(requests, {k}, status, actor)
  /\ UNCHANGED <<roster, captain, active, matches, outs, bookings, jobs, changes, results>>

declineStandinRequest(k, actor) == Answer(k, Other(requests[k].team), "DECLINED", actor)
cancelStandinRequest(k, actor) == Answer(k, requests[k].team, "CANCELLED", actor)

Removable(m) == ~matches[m].done /\ ~matches[m].games

removeStandinGuarded(b) ==
  /\ Removable(b.match)
  /\ bookings' = bookings \ {b}
  /\ UNCHANGED <<roster, captain, active, matches, outs, requests, jobs, changes, results>>

-----------------------------------------------------------------------------
(* Rosters and signups                                                     *)

OnUnplayed(row) == ~matches[row.match].done
\* cancelPendingStandinRequests: the league closes what nobody can agree to any more.
Doomed(ks) == {k \in ks \cap Pending : OnUnplayed(requests[k])}
OffersOf(u) == {k \in Pending : requests[k].standin = u}
Covering(u) == \E b \in bookings : b.standin = u /\ OnUnplayed(b)
Dropping(bs) == {b \in bookings : ~(b \in bs /\ OnUnplayed(b) /\ ~matches[b.match].games)}

Change == changes < MaxChanges /\ changes' = changes + 1

\* A partial refill keeps the oldest requests the open seats still allow in each match.
Surplus(t, open) ==
  {k \in Pending : LET seat == SeatOf(requests[k]) IN
     /\ seat.team = t /\ seat.replaced = None /\ OnUnplayed(requests[k])
     /\ open <= Booked(seat) + Cardinality({x \in Pending : x < k /\ SeatOf(requests[x]) = seat})}

ClosedBySigning(u, t, open) ==
  Doomed(OffersOf(u))
  \union (IF open = 0 THEN Doomed({k \in Pending : requests[k].team = t /\ requests[k].replaced = None})
          ELSE Surplus(t, open))

signFreeAgent(u, t) ==
  /\ Change
  /\ Eligible(u) /\ ~Covering(u)
  /\ OpenSeats(t) > 0
  /\ roster' = [roster EXCEPT ![t] = @ \union {u}]
  /\ LET open == OpenSeats(t) - 1
     IN /\ requests' = Close(requests, ClosedBySigning(u, t, open), "CANCELLED", None)
        /\ bookings' = IF open = 0 THEN Dropping({b \in bookings : b.team = t /\ b.replaced = None}) ELSE bookings
  /\ UNCHANGED <<captain, active, matches, outs, jobs, results>>

releasePlayer(u) ==
  /\ Change
  /\ Rostered(u) /\ captain[TeamOf(u)] # u
  /\ roster' = [roster EXCEPT ![TeamOf(u)] = @ \ {u}]
  /\ bookings' = Dropping({b \in bookings : b.replaced = u})
  /\ requests' = Close(requests, Doomed({k \in Pending : requests[k].replaced = u}), "CANCELLED", None)
  /\ UNCHANGED <<captain, active, matches, outs, jobs, results>>

\* leaveLeague, or an administrator removing the signup.
MayLeave(u) == ~Covering(u)
leaveLeague(u) ==
  /\ Change
  /\ Eligible(u) /\ MayLeave(u)
  /\ active' = active \ {u}
  /\ requests' = Close(requests, Doomed(OffersOf(u)), "CANCELLED", u)
  /\ UNCHANGED <<roster, captain, matches, outs, bookings, jobs, results>>

changeCaptain(t, u) ==
  /\ Change
  /\ u \in roster[t] /\ captain[t] # u
  /\ captain' = [captain EXCEPT ![t] = u]
  /\ UNCHANGED <<roster, active, matches, outs, bookings, requests, jobs, results>>

-----------------------------------------------------------------------------
(* The night and its result                                                *)

\* A retime starts a new schedule revision: the answers for the old kickoff are void.
Retime(m, n) ==
  /\ Change
  /\ ~matches[m].done /\ matches[m].night # n
  /\ matches' = [matches EXCEPT ![m].night = n]
  /\ outs' = [outs EXCEPT ![m] = {}]
  /\ UNCHANGED <<roster, captain, active, bookings, requests, jobs, results>>

SayOut(m, u) ==
  /\ Change
  /\ ~matches[m].done /\ Rostered(u) /\ u \notin outs[m]
  /\ outs' = [outs EXCEPT ![m] = @ \union {u}]
  /\ UNCHANGED <<roster, captain, active, matches, bookings, requests, jobs, results>>

Result == results < MaxResults /\ results' = results + 1

ImportGame(m) ==
  /\ Result /\ ~matches[m].done
  /\ \E decides \in BOOLEAN : matches' = [matches EXCEPT ![m].games = TRUE, ![m].done = decides]
  /\ UNCHANGED <<roster, captain, active, outs, bookings, requests, jobs, changes>>

\* A typed score; a no-game ruling also frees the cover and the requests.
recordResult(m, forfeit) ==
  /\ Result /\ ~matches[m].done
  /\ matches' = [matches EXCEPT ![m].done = TRUE]
  /\ IF forfeit /\ ~matches[m].games
     THEN /\ bookings' = {b \in bookings : b.match # m}
          /\ requests' = Close(requests, {k \in Pending : requests[k].match = m}, "CANCELLED", None)
     ELSE UNCHANGED <<bookings, requests>>
  /\ UNCHANGED <<roster, captain, active, outs, jobs, changes>>

reopenMatch(m) ==
  /\ Result /\ matches[m].done /\ ~matches[m].games
  /\ matches' = [matches EXCEPT ![m].done = FALSE]
  /\ requests' = Close(requests, {k \in Pending : requests[k].match = m}, "CANCELLED", None)
  /\ UNCHANGED <<roster, captain, active, outs, bookings, jobs, changes>>

-----------------------------------------------------------------------------
Init ==
  /\ roster = FirstRoster /\ captain = FirstCaptain /\ active = Users
  /\ \E nights \in [Matches -> Nights] :
       matches = [m \in Matches |-> [done |-> FALSE, games |-> FALSE, night |-> nights[m]]]
  /\ outs = [m \in Matches |-> {}]
  /\ bookings = {} /\ requests = <<>>
  /\ jobs = [p \in Procs |-> None]
  /\ changes = 0 /\ results = 0

Seats == {Seat(m, t, r) : m \in Matches, t \in Teams, r \in {None}}
         \union UNION {{Seat(m, t, r) : r \in roster[t]} : m \in Matches, t \in Teams}

Next ==
  \/ \E p \in Procs :
       \/ \E seat \in Seats, actor \in Users, s \in Users, panel \in BOOLEAN :
            BeginAssign(p, actor, panel, seat, s)
       \/ \E k \in DOMAIN requests, actor \in Users, panel \in BOOLEAN : BeginAgree(p, actor, panel, k)
       \/ Book(p)
       \/ Ask(p)
       \/ Agree(p)
       \/ Fail(p)
  \/ \E k \in DOMAIN requests, u \in Users : declineStandinRequest(k, u) \/ cancelStandinRequest(k, u)
  \/ \E b \in bookings : removeStandinGuarded(b)
  \/ \E u \in Users : \/ releasePlayer(u)
                      \/ leaveLeague(u)
                      \/ \E t \in Teams : signFreeAgent(u, t) \/ changeCaptain(t, u)
  \/ \E m \in Matches : \/ \E n \in Nights : Retime(m, n)
                        \/ \E u \in Users : SayOut(m, u)
                        \/ ImportGame(m)
                        \/ \E f \in BOOLEAN : recordResult(m, f)
                        \/ reopenMatch(m)

Spec == Init /\ [][Next]_vars

-----------------------------------------------------------------------------
(* Properties                                                              *)

\* The rows the schema and the handlers allow (StandinAssignment and
\* StandinRequest in prisma/schema.prisma).
TypeOK ==
  /\ roster \in [Teams -> SUBSET Users] /\ \A t \in Teams : captain[t] \in roster[t]
  /\ active \subseteq Users /\ outs \in [Matches -> SUBSET Users]
  /\ matches \in [Matches -> [done : BOOLEAN, games : BOOLEAN, night : Nights]]
  /\ bookings \subseteq [match : Matches, team : Teams, replaced : Users \union {None}, standin : Users]
  /\ \A k \in DOMAIN requests :
       /\ requests[k].status \in {"PENDING", "APPROVED", "DECLINED", "CANCELLED"}
       /\ requests[k].status = "APPROVED" => requests[k].decider \in Users

Unplayed(row) == ~matches[row.match].done
Rows == bookings \union {requests[k] : k \in Pending}

\* However bookings, requests and agreements race, a standin covers one seat of
\* an unplayed match and a player's seat is covered once (recheckCover,
\* standin-service.ts:552).
OneSeatOneStandin ==
  \A x, y \in {row \in Rows : Unplayed(row)} :
       /\ x.match = y.match
       /\ x.standin = y.standin \/ (SeatOf(x) = SeatOf(y) /\ x.replaced # None)
       => x = y

\* Who plays for a team that night: its uncovered players and its cover.
Fielded(m, t) ==
  LET cover == {b \in bookings : b.match = m /\ b.team = t}
  IN Cardinality(roster[t] \ {b.replaced : b \in cover}) + Cardinality(cover)

\* However bookings and signings race, a side grows past a full team only by a
\* signing that leaves it short: the admin is told then, and the captain chooses
\* whom to remove.  The signing that fills the roster leaves no match that has not
\* begun a side too many (signFreeAgent, admin-roster.ts:906, :1089).  A reopened
\* match has the cover of its undone result, and can be overfilled.
OnlyRefillsOverfill ==
  \A m \in Matches, t \in Teams :
    ~matches[m].done /\ ~matches[m].games /\ Fielded(m, t)' > TEAM_SIZE
    => \/ Fielded(m, t)' <= Fielded(m, t)
       \/ roster[t] # roster'[t] /\ OpenSeats(t)' > 0

\* Cover that was lined up stays fieldable while its match is unplayed: the
\* standin keeps an active signup and joins no roster (admin-roster.ts:971,
\* registration.ts:977).
CoverIsEligible == \A b \in bookings : Unplayed(b) => b.standin \in active /\ ~Rostered(b.standin)

NewBookings == bookings' \ bookings
Serves(p, b) == jobs[p] # None /\ jobs'[p] = None /\ Booking(jobs[p]) = b
TooStrong(b) == b.replaced # None /\ ( \/ Mmr[b.standin] = 0
                                     \/ Mmr[b.standin] > Mmr[b.replaced] + STANDIN_MMR_ALLOWANCE )

\* A standin stronger than the covered player plays only when the league says so
\* from the admin panel, or when someone on neither end of the request agreed
\* (approveStandinRequest, standin-service.ts:1223).
TooStrongNeedsConsent ==
  \A b \in NewBookings : TooStrong(b) =>
       \E p \in Procs : Serves(p, b) /\
         IF jobs[p].kind = "book" THEN jobs[p].panel
         ELSE LET r == requests'[jobs[p].request]
              IN r.status = "APPROVED" /\ r.decider \notin {r.by, captain[r.team]}

\* An answer is final and an approval books its cover in the same step: of an
\* agreement, a decline, a cancellation and the league closing a request, one
\* wins (standin-service.ts:1239).
AnswersAreFinal ==
  \A k \in DOMAIN requests :
       /\ requests[k].status # "PENDING" => requests'[k] = requests[k]
       /\ \A p \in Procs : /\ jobs[p] # None /\ jobs'[p] = None /\ jobs[p].request = k
                           /\ Booking(jobs[p]) \in NewBookings
            => requests[k].status = "PENDING" /\ requests'[k].status = "APPROVED"

\* A request that can no longer be agreed to does not stay open: its standin may
\* still play, its player is still on the team, its seat is still there
\* (cancelPendingStandinRequests and the surplus of a signing, admin-roster.ts:1133).
RequestsCanBeAgreed ==
  \A k \in Pending : Unplayed(requests[k]) =>
    LET seat == SeatOf(requests[k])
    IN /\ Eligible(requests[k].standin)
       /\ IF seat.replaced = None THEN Booked(seat) + Asked(seat, None) <= OpenSeats(seat.team)
          ELSE seat.replaced \in roster[seat.team] /\ Booked(seat) = 0

\* A no holds for the night: no captain books or asks again for a standin the
\* other side declined for that team and match (standin-service.ts:699).
DeclineStands ==
  /\ \A p \in Procs : /\ jobs[p] # None /\ jobs'[p] = None
                         /\ ~jobs[p].panel /\ jobs[p].request = None
                         /\ Booking(jobs[p]) \in NewBookings
                         => ~Declined(jobs[p].seat, jobs[p].standin)
     /\ Len(requests') > Len(requests) =>
          LET r == requests'[Len(requests')] IN ~Declined(SeatOf(r), r.standin)

\* No booking is made for a night on which the standin already plays, also when
\* the match was moved after the captain's page judged it (standin-service.ts:737).
NoClashBooked ==
  \A b \in NewBookings : \A c \in bookings :
       c.standin = b.standin /\ c.match # b.match /\ Unplayed(c)
       => matches[c.match].night # matches[b.match].night

\* Once a series has a game, whoever stood in keeps the cover that attributes
\* them, through releases, signings and removals (standin-service.ts:1709).
StartedCoverStays ==
  \A b \in bookings : matches[b.match].games /\ Unplayed(b) => b \in bookings'

\* What every state, and every step, of the stand-ins keeps.
StandinsAreSound == TypeOK /\ OneSeatOneStandin /\ CoverIsEligible /\ RequestsCanBeAgreed
StandinStep ==
  /\ TooStrongNeedsConsent /\ AnswersAreFinal /\ DeclineStands /\ NoClashBooked
  /\ StartedCoverStays
=============================================================================
