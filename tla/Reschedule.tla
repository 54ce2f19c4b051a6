----------------------------- MODULE Reschedule -----------------------------
(***************************************************************************)
(* Moving one match.  A captain proposes up to three times; everybody who  *)
(* plays, and both captains, answer each of them (the ready check).  A     *)
(* time moves the match when its last answer brings everyone in, or when a *)
(* captain locks it after the other captain's yes.  Administrators retime  *)
(* the match, change the sides and book the calendar meanwhile.            *)
(*                                                                         *)
(* Proposals, answers and locks are SERIALIZABLE transactions of two       *)
(* steps: Begin* reads and decides, Commit writes.  A commit is refused    *)
(* when something the transaction read was written since (Overtaken): the  *)
(* database may abort less often, but never lets both stand.  The other    *)
(* writers commit in one step.  Times are small integers.                  *)
(***************************************************************************)
EXTENDS Integers, FiniteSets, Sequences

CONSTANTS Procs,        \* transactions in flight
          Sides,        \* home and away
          Users,
          FirstCaptain, FirstSeats,   \* [Sides -> Users], [Sides -> SUBSET Users]
          Times,        \* the instants a match can kick off
          TEAM_SIZE,    \* season.teamSize
          GRACE,        \* RESCHEDULE_PAST_GRACE_MS
          MaxOptions,   \* MAX_RESCHEDULE_OPTIONS
          MaxRequests,  \* bound on proposals
          MaxRevision,  \* bound on retimes
          MaxTime,      \* bound on the clock
          MaxChanges,   \* bound on changes of sides, calendar and match status
          None

RescheduleAssumption ==
  /\ {TEAM_SIZE, GRACE, MaxOptions, MaxRequests, MaxRevision, MaxTime, MaxChanges} \subseteq Nat
  /\ Times \subseteq Nat

VARIABLES match,     \* status, kickoff, revision
          requests,  \* the RescheduleRequest rows with their votes
          checkins,  \* MatchAvailability: each user's row, or None
          captain, seats,
          booked,    \* times another fixture or a scrim blocks
          now,
          txns,      \* what each transaction in flight decided, None when idle
          nights,    \* ghost: the kickoff each revision stood for
          excused,   \* ghost: <<request, time>> whose last answer was told why nothing moved
          changes
vars == <<match, requests, checkins, captain, seats, booked, now, txns, nights, excused, changes>>

Open(k) == requests[k].status = "PENDING"
CanMove == match.status = "SCHEDULED"
Proposed == {k \in DOMAIN requests : Open(k)}
Other(s) == CHOOSE x \in Sides : x # s
IsCaptain(u) == \E s \in Sides : captain[s] = u
Plays(u) == IsCaptain(u) \/ \E s \in Sides : u \in seats[s]

-----------------------------------------------------------------------------
(* The tally of one option                                                 *)

\* A stored answer, or the proposer's implied yes.
Answer(rq, t, u) ==
  IF rq.votes[t][u] = "none" /\ rq.proposer = u THEN "in" ELSE rq.votes[t][u]

\* `ans` is the answer of each user to the time.
Ready(ans, s) == {u \in seats[s] : ans[u] = "in"}
Need(s) ==
  LET n == Cardinality(seats[s])
      size == IF TEAM_SIZE < 1 THEN 1 ELSE TEAM_SIZE
  IN  IF n < size THEN n ELSE size
Full(ans, s) == Need(s) > 0 /\ Cardinality(Ready(ans, s)) >= Need(s)
EveryoneIn(ans) == \A s \in Sides : ans[captain[s]] = "in" /\ Full(ans, s)
Answers(rq, t) == [u \in Users |-> Answer(rq, t, u)]
AnswersWith(rq, t, u, a) == [Answers(rq, t) EXCEPT ![u] = a]

\* The calendar's word at the lock; the match's own kickoff is no move.
Blocked(t) == t \in booked \/ match.kickoff = t

-----------------------------------------------------------------------------
(* Transactions                                                            *)

\* What a transaction reads, by kind: the rows whose change overtakes it.
ReadsOf(op, k, t) ==
  CASE op = "propose" -> {<<"requests">>, <<"match">>, <<"sides">>, <<"calendar">>}
    [] OTHER -> {<<"requests">>, <<"match">>, <<"sides">>, <<"calendar">>, <<"votes", k, t>>}
\* Mutants: read committed, where nobody is overtaken; a read set without the votes.
NobodyOvertaken(t, written) == t
VotesUnwatched(t, written) ==
  IF t = None \/ written \intersect {<<"requests">>, <<"match">>, <<"sides">>, <<"calendar">>} = {} THEN t
  ELSE [t EXCEPT !.fresh = FALSE]
Overtake(t, written) ==
  IF t = None \/ written \intersect ReadsOf(t.op, t.req, t.time) = {} THEN t
  ELSE [t EXCEPT !.fresh = FALSE]
\* A write ends its own transaction `p` (None for a writer of one step).
Wrote(p, written) == txns' = [q \in Procs |-> IF q = p THEN None ELSE Overtake(txns[q], written)]

Tx(op, u, k, t) == [op |-> op, by |-> u, req |-> k, time |-> t, times |-> {}, ready |-> "in",
                    sees |-> Proposed, lock |-> FALSE, told |-> FALSE, fresh |-> TRUE]
Begin(p, tx) == /\ txns[p] = None
                /\ txns' = [txns EXCEPT ![p] = tx]
                /\ UNCHANGED <<match, requests, checkins, captain, seats, booked, now, nights, excused, changes>>

\* proposeReschedule: a captain's new list of times, none booked, none the kickoff.
BeginPropose(p, u, ts) ==
  /\ IsCaptain(u) /\ CanMove
  /\ Cardinality(ts) \in 1..MaxOptions
  /\ \A t \in ts : t >= now - GRACE /\ ~Blocked(t)
  /\ Len(requests) < MaxRequests
  /\ Begin(p, [Tx("propose", u, 0, 0) EXCEPT !.times = ts])

\* voteReschedule: the last answer that brings everyone in decides to lock,
\* unless the calendar blocks it.
BeginVote(p, u, k, t, a) ==
  /\ Open(k) /\ CanMove /\ t \in requests[k].times /\ t > now /\ Plays(u)
  /\ requests[k].votes[t][u] # a
  /\ LET all == EveryoneIn(AnswersWith(requests[k], t, u, a))
     IN  Begin(p, [Tx("vote", u, k, t) EXCEPT !.ready = a,
                      !.lock = all /\ ~Blocked(t), !.told = all /\ Blocked(t)])

\* lockRefusal and the checks lockInTx makes before its first write.
LockRefused(k, t, u) ==
  \/ ~IsCaptain(u)
  \/ \E s \in Sides : captain[s] = u /\ Answer(requests[k], t, captain[Other(s)]) # "in"
  \/ Blocked(t)

\* lockInReschedule by either captain, or the opposing captain's accept.
BeginLock(p, u, k, t) ==
  /\ Open(k) /\ CanMove /\ t \in requests[k].times /\ t >= now - GRACE
  /\ ~LockRefused(k, t, u)
  /\ Begin(p, [Tx("lock", u, k, t) EXCEPT !.lock = TRUE])

\* The transaction fails: overtaken, timed out, or its answer is refused.  An
\* answer is tried again (retrySerializable) by beginning anew.
Abort(p) ==
  /\ txns[p] # None
  /\ txns' = [txns EXCEPT ![p] = None]
  /\ UNCHANGED <<match, requests, checkins, captain, seats, booked, now, nights, excused, changes>>

NoVotes == [t \in Times |-> [u \in Users |-> "none"]]
Cancelled(rs) ==
  [k \in DOMAIN rs |-> IF rs[k].status = "PENDING" THEN [rs[k] EXCEPT !.status = "CANCELLED"] ELSE rs[k]]

CommitPropose(p) ==
  /\ txns[p] # None
  /\ LET tx == txns[p] IN
     /\ tx.fresh /\ tx.op = "propose"
     /\ Len(requests) < MaxRequests
     /\ requests' =
          Append([k \in DOMAIN requests |->
                    IF k \in tx.sees THEN Cancelled(requests)[k] ELSE requests[k]],
                 [status |-> "PENDING", proposer |-> tx.by, times |-> tx.times, votes |-> NoVotes])
     /\ Wrote(p, {<<"requests">>})
     /\ UNCHANGED <<match, checkins, captain, seats, booked, now, nights, excused, changes>>

Row(s, t, r) == [status |-> s, about |-> t, revision |-> r]
NoCheckins == [u \in Users |-> None]
\* Each seat's answer to the locked time is its check-in for the new kickoff.
Carried(ans, t) ==
  [u \in Users |-> IF \A s \in Sides : u \notin seats[s] \/ ans[u] = "none" THEN None
                   ELSE Row(ans[u], t, match.revision + 1)]

Retimed(t) ==
  /\ CanMove /\ match.revision < MaxRevision
  /\ match' = [match EXCEPT !.kickoff = t, !.revision = @ + 1]
  /\ nights' = Append(nights, t)

\* The vote's upsert, and with the last answer retimeToOption.
CommitVote(p) ==
  /\ txns[p] # None
  /\ LET tx == txns[p]
         k == tx.req
         t == tx.time
         voted == [requests EXCEPT ![k].votes[t][tx.by] = tx.ready]
     IN
     /\ tx.fresh /\ tx.op = "vote"
     /\ IF tx.lock
        THEN /\ Open(k) /\ Retimed(t)
             /\ requests' = [voted EXCEPT ![k].status = "ACCEPTED"]
             /\ checkins' = Carried(AnswersWith(requests[k], t, tx.by, tx.ready), t)
             /\ Wrote(p, {<<"requests">>, <<"match">>, <<"votes", k, t>>})
        ELSE /\ requests' = voted
             /\ Wrote(p, {<<"votes", k, t>>})
             /\ UNCHANGED <<match, checkins, nights>>
     /\ excused' = IF tx.told THEN excused \union {<<k, t>>} ELSE excused
     /\ UNCHANGED <<captain, seats, booked, now, changes>>

\* A lock's own yes is stored only where the locker had not answered.
CommitLock(p) ==
  /\ txns[p] # None
  /\ LET tx == txns[p]
         k == tx.req
         t == tx.time
         own == IF Answer(requests[k], t, tx.by) = "none" THEN "in" ELSE Answer(requests[k], t, tx.by)
     IN
     /\ tx.fresh /\ tx.op = "lock"
     /\ Open(k) /\ Retimed(t)
     /\ requests' = [requests EXCEPT
          ![k].status = "ACCEPTED",
          ![k].votes[t][tx.by] = IF @ = "none" THEN "in" ELSE @]
     /\ checkins' = Carried(AnswersWith(requests[k], t, tx.by, own), t)
     /\ Wrote(p, {<<"requests">>, <<"match">>, <<"votes", k, t>>})
     /\ UNCHANGED <<captain, seats, booked, now, excused, changes>>

-----------------------------------------------------------------------------
(* Writers of one step                                                     *)

\* respondReschedule's decline by the opposing captain, and cancelReschedule
\* by the proposer or an administrator: cleanup, legal whatever the match is.
Withdraw(k, u) ==
  /\ Open(k)
  /\ \/ IsCaptain(u) /\ requests[k].proposer # u
        /\ requests' = [requests EXCEPT ![k].status = "DECLINED"]
     \/ requests' = [requests EXCEPT ![k].status = "CANCELLED"]
  /\ Wrote(None, {<<"requests">>})
  /\ UNCHANGED <<match, checkins, captain, seats, booked, now, nights, excused, changes>>

\* setMatchTime: an administrator moves the match, or takes its kickoff away.
SetMatchTime(t) ==
  /\ t # match.kickoff /\ t \notin booked
  /\ Retimed(t)
  /\ checkins' = NoCheckins
  /\ requests' = Cancelled(requests)
  /\ Wrote(None, {<<"requests">>, <<"match">>})
  /\ UNCHANGED <<captain, seats, booked, now, excused, changes>>

CurrentRevision(r) == match.revision = r
\* setAvailability: the answer to the kickoff the page of revision `r` showed.
CheckIn(u, r, s) ==
  /\ CanMove /\ match.kickoff # None /\ match.kickoff > now
  /\ \E side \in Sides : u \in seats[side]
  /\ CurrentRevision(r)
  /\ checkins' = [checkins EXCEPT ![u] = Row(s, nights[r], match.revision)]
  /\ UNCHANGED <<match, requests, captain, seats, booked, now, txns, nights, excused, changes>>

Change == changes < MaxChanges /\ changes' = changes + 1

\* The sides change: a stand-in takes a seat, a captaincy passes on.  A time
\* the change alone brings everyone in for waits for the next answer.
Reseat(s, old, new) ==
  /\ Change
  /\ old \in seats[s] /\ \A x \in Sides : new \notin seats[x]
  /\ seats' = [seats EXCEPT ![s] = (@ \ {old}) \union {new}]
  /\ \/ captain' = captain
     \/ captain[s] = old /\ captain' = [captain EXCEPT ![s] = new]
  /\ excused' = excused \union {<<k, t>> \in Proposed \X Times : t \in requests[k].times}
  /\ Wrote(None, {<<"sides">>})
  /\ UNCHANGED <<match, requests, checkins, booked, now, nights>>

Book(t) ==
  /\ Change
  /\ booked' = IF t \in booked THEN booked \ {t} ELSE booked \union {t}
  /\ Wrote(None, {<<"calendar">>})
  /\ UNCHANGED <<match, requests, checkins, captain, seats, now, nights, excused>>

\* The match is played, or its season leaves the phase in which it can move.
Close ==
  /\ Change /\ CanMove
  /\ match' = [match EXCEPT !.status = "CLOSED"]
  /\ Wrote(None, {<<"match">>})
  /\ UNCHANGED <<requests, checkins, captain, seats, booked, now, nights, excused>>

Tick == /\ now < MaxTime /\ now' = now + 1
        /\ UNCHANGED <<match, requests, checkins, captain, seats, booked, txns, nights, excused, changes>>

-----------------------------------------------------------------------------
Init ==
  /\ match = [status |-> "SCHEDULED", kickoff |-> None, revision |-> 1]
  /\ requests = <<>>
  /\ checkins = NoCheckins
  /\ captain = FirstCaptain /\ seats = FirstSeats
  /\ booked = {} /\ now = 0
  /\ txns = [p \in Procs |-> None]
  /\ nights = <<None>> /\ excused = {} /\ changes = 0

Begins(p) ==
  \E u \in Users :
    \/ \E ts \in SUBSET Times : BeginPropose(p, u, ts)
    \/ \E k \in DOMAIN requests : \E t \in requests[k].times :
         \/ \E a \in {"in", "out"} : BeginVote(p, u, k, t, a)
         \/ BeginLock(p, u, k, t)
Ends(p) == CommitPropose(p) \/ CommitVote(p) \/ CommitLock(p) \/ Abort(p)
Writers ==
  \/ \E k \in DOMAIN requests, u \in Users : Withdraw(k, u)
  \/ \E t \in Times \union {None} : SetMatchTime(t)
  \/ \E u \in Users, r \in DOMAIN nights, s \in {"in", "out"} : CheckIn(u, r, s)
  \/ \E s \in Sides, old, new \in Users : Reseat(s, old, new)
  \/ \E t \in Times : Book(t)
  \/ Close
Next == (\E p \in Procs : Begins(p) \/ Ends(p)) \/ Writers \/ Tick
Spec == Init /\ [][Next]_vars

-----------------------------------------------------------------------------
(* Properties                                                              *)

TypeOK ==
  /\ match.status \in {"SCHEDULED", "CLOSED"} /\ match.kickoff \in Times \union {None}
  /\ match.revision \in 1..MaxRevision /\ Len(nights) = match.revision
  /\ Len(requests) <= MaxRequests
  /\ \A k \in DOMAIN requests :
       /\ requests[k].status \in {"PENDING", "ACCEPTED", "DECLINED", "CANCELLED"}
       /\ requests[k].times \subseteq Times /\ requests[k].proposer \in Users
       /\ requests[k].votes \in [Times -> [Users -> {"none", "in", "out"}]]
  /\ captain \in [Sides -> Users] /\ seats \in [Sides -> SUBSET Users]
  /\ \A p \in Procs : txns[p] = None \/ txns[p].op \in {"propose", "vote", "lock"}

\* A match never has two open proposals: two captains proposing in the same
\* instant would each cancel what they can see and both insert, and the older
\* one could be accepted days later (reschedule-service.ts:644).
OneOpenProposal == Cardinality(Proposed) <= 1

\* Two last answers that arrive together do not both miss each other: a time
\* of an open proposal with everyone in was either told why it does not move
\* the match, or got its quorum from a change of the sides.
NoLastAnswerIsLost ==
  \A k \in Proposed : \A t \in requests[k].times :
    EveryoneIn(Answers(requests[k], t)) /\ CanMove => <<k, t>> \in excused

\* Every check-in answers the kickoff the match has: a row given to an older
\* page, or for the night before the move, never counts for the new night.
CheckinsAnswerThisNight ==
  \A u \in Users :
    checkins[u] # None => checkins[u].about = match.kickoff /\ checkins[u].revision = match.revision

\* When a proposal is accepted its match moves to one of its times, free in
\* the calendar, and neither captain is silent: both said yes, or the one who
\* cannot make it is the one who locked it.  No other captain's or player's
\* step moves a match, and a match that is closed stays where it is.
MovesAreAgreed ==
  match'.kickoff # match.kickoff =>
       /\ match.status = "SCHEDULED"
       /\ \/ \A k \in DOMAIN requests : requests'[k].status # "PENDING"
             /\ Open(k) => requests'[k].status = "CANCELLED"
          \/ \E p \in Procs, k \in Proposed :
               /\ txns[p] # None /\ txns'[p] = None /\ txns[p].req = k
               /\ requests'[k].status = "ACCEPTED"
               /\ match'.kickoff \in requests[k].times \ booked
               /\ \A s \in Sides :
                    \/ Answers(requests'[k], match'.kickoff)[captain[s]] = "in"
                    \/ txns[p].op = "lock" /\ txns[p].by = captain[s]

\* A move asks nobody twice: whoever plays and answered the new time is
\* checked in with that answer, and an answer "I can't" stays an out.
AnswersAreCarried ==
  \A k \in DOMAIN requests :
       Open(k) /\ requests'[k].status = "ACCEPTED" =>
         \A s \in Sides : \A u \in seats[s] :
           LET said == Answers(requests'[k], match'.kickoff)[u]
           IN  IF said = "none" THEN checkins'[u] = None
               ELSE checkins'[u] # None /\ checkins'[u].status = said

\* What every state, and every step, of a reschedule keeps.
RescheduleIsSound == TypeOK /\ OneOpenProposal /\ NoLastAnswerIsLost /\ CheckinsAnswerThisNight
RescheduleStep == MovesAreAgreed /\ AnswersAreCarried
=============================================================================
