----------------------------- MODULE MatchNight -----------------------------
(***************************************************************************)
(* How a league settles when it plays: polls that players mark their free  *)
(* hours in, the announcement of a winner, and the roll call that asks     *)
(* every drafted player to agree to the night.                             *)
(*                                                                         *)
(* A request reads its clock when it arrives; what it then writes is one   *)
(* statement or one SERIALIZABLE transaction, and may come later.          *)
(***************************************************************************)
EXTENDS Integers, FiniteSets

CONSTANTS Players, Polls, Procs,
          Slots,        \* hours of the week a poll offers
          Marks,        \* the ballots a player may send, sets of hours
          None,
          MaxNow,       \* bound on the clock
          MaxEdits      \* bound on changes to the season and its signups

NightAssumption ==
  /\ Slots \subseteq 0 .. 167 /\ {MaxNow, MaxEdits} \subseteq Nat

VARIABLES now,
          closesAt,    \* MatchNightPoll.closesAt, None while there is no such poll
          made,        \* polls opened so far: an id is never used again
          ballots,     \* MatchNightBallot rows
          signed,      \* who is signed up
          night,       \* the season's announced night, None before there is one
          phase,       \* Season.status
          timed,       \* some fixture has a kickoff
          rollCall,    \* Season.rollCallOpenedAt is set
          edits,       \* Season.updatedAt
          answers,     \* RollCallAnswer rows: the night each names
          markers,     \* the Setting rows that make a post once-only
          jobs,
          posts,       \* ghost: messages sent for each poll and closing
          shown,       \* ghost: the nights a card or page has named
          cards,       \* ghost: the nights each player has said "I'm in" to
          ended        \* ghost: polls closed by hand and not reopened
vars == <<now, closesAt, made, ballots, signed, night, phase, timed, rollCall, edits,
          answers, markers, jobs, posts, shown, cards, ended>>
polls == <<closesAt, made, ballots, ended>>
told == <<markers, posts>>
season == <<signed, night, shown, phase, timed, edits>>
calls == <<rollCall, answers, cards>>

Open(p, t) == closesAt[p] # None /\ closesAt[p] > t

Begin(j, job) == jobs[j] = None /\ jobs' = [jobs EXCEPT ![j] = job]
Done(j) == jobs' = [jobs EXCEPT ![j] = None]
At(j, kind) == jobs[j] # None /\ jobs[j].kind = kind

\* Every admin button and every ballot: the clock is read first.
Ask(j, kind, p) ==
  /\ kind \in {"cast", "close"} => closesAt[p] # None
  /\ Begin(j, [kind |-> kind, poll |-> p, now |-> now])
  /\ UNCHANGED <<now, polls, told, season, calls>>

\* A refusal, a lost transaction or a dead request.
Fails(j) == jobs[j] # None /\ Done(j) /\ UNCHANGED <<now, polls, told, season, calls>>

-----------------------------------------------------------------------------
(* match-night-poll.ts: the count                                          *)

Count(bs, s) == Cardinality({u \in Players : bs[u] # None /\ s \in bs[u]})
SameDay(s, t) == s \div 24 = t \div 24
Neighbours(bs, s) ==
  LET at(t) == IF t \in Slots /\ SameDay(s, t) THEN Count(bs, t) ELSE 0 IN at(s - 1) + at(s + 1)

\* More players; more of them an hour either side; earlier in the week.
Better(bs, s, t) ==
  \/ Count(bs, s) > Count(bs, t)
  \/ Count(bs, s) = Count(bs, t) /\ Neighbours(bs, s) > Neighbours(bs, t)
  \/ Count(bs, s) = Count(bs, t) /\ Neighbours(bs, s) = Neighbours(bs, t) /\ s < t

tallyAvailability(bs) ==
  LET best == CHOOSE s \in Slots : \A t \in Slots \ {s} : Better(bs, s, t)
  IN  IF Count(bs, best) > 0 THEN best ELSE None

\* A ballot counts only while its voter is signed up.
Counting(p) == [u \in Players |-> IF u \in signed THEN ballots[p][u] ELSE None]

-----------------------------------------------------------------------------
(* match-night-poll-service.ts                                             *)

\* Claim and ballot are one transaction: the claim's row lock orders it
\* against a close.
castBallot(j, u, marks) ==
  /\ At(j, "cast") /\ u \in signed
  /\ LET p == jobs[j].poll IN
       /\ Open(p, jobs[j].now)
       /\ ballots' = [ballots EXCEPT ![p][u] = marks]
  /\ Done(j) /\ UNCHANGED <<now, closesAt, made, ended, told, season, calls>>

\* Mutant: a poll is moved for its own sake.
OthersIgnored(p, t) == p \in Polls

NoOtherOpen(p, t) == ~\E q \in Polls \ {p} : Open(q, t)

createPoll(j, at) ==
  /\ At(j, "create") /\ at > jobs[j].now
  /\ LET p == jobs[j].poll IN
       /\ p \notin made /\ NoOtherOpen(p, jobs[j].now)
       /\ closesAt' = [closesAt EXCEPT ![p] = at] /\ made' = made \cup {p}
  /\ Done(j) /\ UNCHANGED <<now, ballots, ended, told, season, calls>>

closePollNow(j) ==
  /\ At(j, "close") /\ Open(jobs[j].poll, jobs[j].now)
  /\ closesAt' = [closesAt EXCEPT ![jobs[j].poll] = jobs[j].now]
  /\ ended' = ended \cup {jobs[j].poll}
  /\ Done(j) /\ UNCHANGED <<now, made, ballots, told, season, calls>>

setPollClosesAt(j, at) ==
  /\ At(j, "move") /\ at > jobs[j].now
  /\ LET p == jobs[j].poll IN
       /\ closesAt[p] # None /\ NoOtherOpen(p, jobs[j].now)
       /\ closesAt' = [closesAt EXCEPT ![p] = at] /\ ended' = ended \ {p}
  /\ Done(j) /\ UNCHANGED <<now, made, ballots, told, season, calls>>

deletePoll(p) ==
  /\ closesAt[p] # None
  /\ closesAt' = [closesAt EXCEPT ![p] = None]
  /\ ballots' = [ballots EXCEPT ![p] = [u \in Players |-> None]]
  /\ ended' = ended \ {p}
  /\ UNCHANGED <<now, made, told, season, calls, jobs>>

-----------------------------------------------------------------------------
(* announceMatchNightPollResult                                            *)

Claims(marker) == marker \notin markers

ReadResult(j, p) ==
  /\ jobs[j] = None /\ closesAt[p] # None /\ ~Open(p, now)
  /\ tallyAvailability(Counting(p)) # None
  /\ Begin(j, [kind |-> "announce", poll |-> p, marker |-> <<p, closesAt[p]>>,
               winner |-> tallyAvailability(Counting(p))])
  /\ UNCHANGED <<now, polls, told, season, calls>>

ClaimResult(j) ==
  /\ At(j, "announce") /\ Claims(jobs[j].marker)
  /\ markers' = markers \cup {jobs[j].marker}
  /\ jobs' = [jobs EXCEPT ![j].kind = "post"]
  /\ UNCHANGED <<now, polls, posts, season, calls>>

\* Queued for Discord, or not, in which case the claim is freed.
PostResult(j) ==
  /\ At(j, "post")
  /\ posts' = [posts EXCEPT ![jobs[j].poll] = [@ EXCEPT ![jobs[j].marker[2]] = @ + 1]]
  /\ Done(j) /\ UNCHANGED <<now, polls, markers, season, calls>>

PostRefused(j) ==
  /\ At(j, "post") /\ markers' = markers \ {jobs[j].marker}
  /\ Done(j) /\ UNCHANGED <<now, polls, posts, season, calls>>

-----------------------------------------------------------------------------
(* The season and its roll call                                            *)

Edits == edits < MaxEdits /\ edits' = edits + 1
Quiet == UNCHANGED <<now, polls, told, jobs>>

Signs(u) ==
  /\ Edits /\ signed' = IF u \in signed THEN signed \ {u} ELSE signed \cup {u}
  /\ UNCHANGED <<night, shown, phase, timed, calls>> /\ Quiet

\* The admin's text, or the slot most fixtures share.
NightMoves(n) ==
  /\ Edits /\ night' = n /\ n # night /\ shown' = shown \cup {n}
  /\ UNCHANGED <<signed, phase, timed, calls>> /\ Quiet

PhaseMoves(to) ==
  /\ Edits /\ phase' = to /\ to # phase /\ timed' \in {timed, to = "REGULAR_SEASON"}
  /\ UNCHANGED <<signed, night, shown, calls>> /\ Quiet

PollDecides == (\E p \in Polls : Open(p, now)) /\ phase = "SIGNUPS" /\ ~timed

MayOpen == phase \in {"SIGNUPS", "DRAFT"} /\ night # None /\ ~PollDecides
Live == rollCall /\ MayOpen

\* Opening asks first and claims the season it read.
AskRollCall(j) ==
  /\ MayOpen /\ ~rollCall /\ Begin(j, [kind |-> "call", edits |-> edits])
  /\ UNCHANGED <<now, polls, told, season, calls>>

OpenRollCall(j) ==
  /\ At(j, "call") /\ jobs[j].edits = edits /\ Edits
  /\ rollCall' = TRUE
  /\ Done(j) /\ UNCHANGED <<now, polls, told, signed, night, shown, phase, timed, answers, cards>>

CloseRollCall ==
  /\ rollCall /\ Edits /\ rollCall' = FALSE
  /\ UNCHANGED <<signed, night, shown, phase, timed, answers, cards>> /\ Quiet

SameNight(seen) == seen = night

\* A player answers the card in front of them, which may be an old one.
TapIn(j, u, seen) ==
  /\ seen \in shown /\ Begin(j, [kind |-> "tap", player |-> u, night |-> seen])
  /\ cards' = [cards EXCEPT ![u] = @ \cup {seen}]
  /\ UNCHANGED <<now, polls, told, season, rollCall, answers>>

\* answerRollCall: checks, and the night it will write is the one it read.
CheckTap(j) ==
  /\ At(j, "tap") /\ Live /\ SameNight(jobs[j].night) /\ jobs[j].player \in signed
  /\ answers[jobs[j].player] # night
  /\ jobs' = [jobs EXCEPT ![j].kind = "answer", ![j].night = night]
  /\ UNCHANGED <<now, polls, told, season, calls>>

answerRollCall(j) ==
  /\ At(j, "answer")
  /\ answers' = [answers EXCEPT ![jobs[j].player] = jobs[j].night]
  /\ Done(j) /\ UNCHANGED <<now, polls, told, season, rollCall, cards>>

takeBackRollCall(u) ==
  /\ answers[u] # None /\ answers' = [answers EXCEPT ![u] = None]
  /\ UNCHANGED <<season, rollCall, cards>> /\ Quiet

Locked(u) == u \in signed /\ answers[u] # None /\ answers[u] = night

-----------------------------------------------------------------------------
Tick == now < MaxNow /\ now' = now + 1 /\ UNCHANGED <<polls, told, season, calls, jobs>>

PHASES == {"SIGNUPS", "DRAFT", "REGULAR_SEASON"}

Init ==
  /\ now = 0 /\ made = {} /\ closesAt = [p \in Polls |-> None]
  /\ ballots = [p \in Polls |-> [u \in Players |-> None]]
  /\ signed = Players /\ night = None /\ phase = "SIGNUPS" /\ timed = FALSE
  /\ rollCall = FALSE /\ edits = 0 /\ answers = [u \in Players |-> None]
  /\ markers = {} /\ jobs = [j \in Procs |-> None]
  /\ posts = [p \in Polls |-> [t \in 0 .. MaxNow + 1 |-> 0]]
  /\ shown = {} /\ cards = [u \in Players |-> {}] /\ ended = {}

Polling(j) ==
  \/ \E kind \in {"cast", "create", "close", "move"}, p \in Polls : Ask(j, kind, p)
  \/ \E u \in Players, m \in Marks : castBallot(j, u, m)
  \/ \E at \in 1 .. MaxNow + 1 : createPoll(j, at) \/ setPollClosesAt(j, at)
  \/ closePollNow(j)
  \/ \E p \in Polls : ReadResult(j, p)
  \/ ClaimResult(j) \/ PostResult(j) \/ PostRefused(j)

Calling(j) ==
  \/ AskRollCall(j) \/ OpenRollCall(j)
  \/ \E u \in Players, n \in Slots : TapIn(j, u, n)
  \/ CheckTap(j) \/ answerRollCall(j)

Admins ==
  \/ \E p \in Polls : deletePoll(p)
  \/ \E u \in Players : Signs(u) \/ takeBackRollCall(u)
  \/ \E n \in Slots : NightMoves(n)
  \/ \E to \in PHASES : PhaseMoves(to)
  \/ CloseRollCall

Next == Tick \/ Admins \/ \E j \in Procs : Polling(j) \/ Calling(j) \/ Fails(j)
Spec == Init /\ [][Next]_vars

-----------------------------------------------------------------------------
TypeOK ==
  /\ now \in 0 .. MaxNow /\ closesAt \in [Polls -> 0 .. MaxNow + 1 \cup {None}]
  /\ \A p \in Polls, u \in Players :
       ballots[p][u] # None => closesAt[p] # None /\ ballots[p][u] \in Marks
  /\ signed \subseteq Players /\ night \in Slots \cup {None} /\ phase \in PHASES
  /\ answers \in [Players -> Slots \cup {None}]
  /\ \A m \in markers : m[1] \in Polls /\ m[2] \in 0 .. MaxNow

\* At most one poll is open, though admins create, move, reopen and close
\* polls at once: two would split the league's votes.  (createPoll,
\* setPollClosesAt)
OneOpenPoll == \A p, q \in Polls : Open(p, now) /\ Open(q, now) => p = q

\* A result reaches Discord at most once for each time a poll closed, whoever
\* presses Announce and whatever fails.  (announceMatchNightPollResult)
AnnouncedOnce == \A p \in Polls : \A t \in DOMAIN posts[p] : posts[p][t] <= 1

\* Whoever counts as in for the season's night said so to a card that named
\* it, however the night moved between the card, the tap and the write.
\* (answerRollCall, buildRollCallView)
InForANightTheySaw == \A u \in Players : Locked(u) => night \in cards[u]

\* What src/lib/match-night-poll-service.ts:7 says of a ballot and "Close
\* voting now": a close that commits first refuses the ballot.
CloseRefusesBallots ==
  \A p \in ended : closesAt[p] # None /\ closesAt'[p] = closesAt[p]
       => ballots'[p] = ballots[p]

\* What every state of the poll and the roll call keeps.
PollsAreSound == TypeOK /\ OneOpenPoll /\ AnnouncedOnce /\ InForANightTheySaw
=============================================================================
