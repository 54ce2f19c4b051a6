------------------------------ MODULE MCSeason ------------------------------
(***************************************************************************)
(* The season around its matches on small instances: reschedules and       *)
(* check-ins, stand-ins, match-night polls and the roll call, signups and  *)
(* captains, Dota accounts and medals, and the queue of the league         *)
(* channel's posts (part "channel"), which this module extends.  One       *)
(* behaviour is about one part, named by `part'; each other part is        *)
(* several instances, whose constants say which of its hazards they are    *)
(* after.                                                                  *)
(***************************************************************************)
EXTENDS OutboxProperties, TLC

CONSTANTS Parts, Admin, A, B, C, a1, a2, b1, d1, d2, m1, m2, q1, q2, s1,
          s2, u1, u2, u3, w1, w2, x1, x2, x3

Captains == A :> a1 @@ B :> b1
\* a2 sits beside its captain, s1 on no side.
SeatsOf(users) == A :> {a1, a2} \cap users @@ B :> {b1}
\* A team with two players, and a free player as good as the worse of them
\* and one who is too strong.
Rosters == A :> {a1, a2} @@ B :> {b1}
Ratings == a1 :> 5 @@ a2 :> 2 @@ b1 :> 5 @@ s1 :> 2 @@ s2 :> 6
Unrated == [Ratings EXCEPT ![s1] = 0]
\* A team of three with one player: two seats to fill one at a time.
ShortRosters == A :> {a1} @@ B :> {b1}
ShortRatings == a1 :> 2 @@ b1 :> 2 @@ s1 :> 2 @@ s2 :> 6 @@ a2 :> 6
\* Both users own an account, or u2's Steam id derives none.
TwoOwners == u1 :> d1 @@ u2 :> d2
OneOwns == u1 :> d1 @@ u2 :> None

VARIABLES
  part,  \* the part of the system this behaviour is about
  match, moveRequests, checkins, moveCaptain, seats, booked, moveNow, txns,
  nights, moveExcused, moveChanges,  \* Reschedule
  roster, coverCaptain, active, matches, outs, bookings, coverRequests,
  coverJobs, coverChanges, results,  \* Standins
  pollNow, closesAt, made, ballots, signed, pollNight, pollPhase, timed,
  rollCall, edits, answers, markers, pollJobs, posts, shown, cards, ended,  \* MatchNight
  poolPhase, draft, version, poolNight, onBlock, regs, medal, linked, seat,
  teams, cover, asked, poolJobs, banned, poolExcused, unchecked, ruled, ready,
  pool,  \* Signups
  user, tx, boot, booting, accountJobs, started, verified  \* DotaAccounts

moveVars == <<match, moveRequests, checkins, moveCaptain, seats, booked,
              moveNow, txns, nights, moveExcused, moveChanges>>
coverVars == <<roster, coverCaptain, active, matches, outs, bookings,
               coverRequests, coverJobs, coverChanges, results>>
pollVars == <<pollNow, closesAt, made, ballots, signed, pollNight, pollPhase,
              timed, rollCall, edits, answers, markers, pollJobs, posts,
              shown, cards, ended>>
poolVars == <<poolPhase, draft, version, poolNight, onBlock, regs, medal,
              linked, seat, teams, cover, asked, poolJobs, banned,
              poolExcused, unchecked, ruled, ready, pool>>
accountVars == <<user, tx, boot, booting, accountJobs, started, verified>>
channelVars == vars
allVars == <<part, channelVars, moveVars, coverVars, pollVars, poolVars, accountVars>>

-----------------------------------------------------------------------------
Answers == INSTANCE Reschedule WITH
  Procs <- {x1, x2}, Sides <- {A, B}, FirstCaptain <- Captains,
  FirstSeats <- SeatsOf({a1, a2, b1}), TEAM_SIZE <- 2, GRACE <- 1,
  Users <- {a1, a2, b1}, Times <- {2}, MaxOptions <- 1, MaxRequests <- 1,
  MaxRevision <- 2, MaxTime <- 0, MaxChanges <- 0, requests <- moveRequests,
  captain <- moveCaptain, now <- moveNow, excused <- moveExcused,
  changes <- moveChanges
Proposals == INSTANCE Reschedule WITH
  Procs <- {x1, x2}, Sides <- {A, B}, FirstCaptain <- Captains,
  FirstSeats <- SeatsOf({a1, b1}), TEAM_SIZE <- 2, GRACE <- 1,
  Users <- {a1, b1}, Times <- {1}, MaxOptions <- 1, MaxRequests <- 2,
  MaxRevision <- 1, MaxTime <- 0, MaxChanges <- 0, requests <- moveRequests,
  captain <- moveCaptain, now <- moveNow, excused <- moveExcused,
  changes <- moveChanges
Moves == INSTANCE Reschedule WITH
  Procs <- {x3}, Sides <- {A, B}, FirstCaptain <- Captains,
  FirstSeats <- SeatsOf({a1, b1, s1}), TEAM_SIZE <- 2, GRACE <- 1,
  Users <- {a1, b1, s1}, Times <- {0, 1}, MaxOptions <- 2, MaxRequests <- 1,
  MaxRevision <- 2, MaxTime <- 0, MaxChanges <- 1, requests <- moveRequests,
  captain <- moveCaptain, now <- moveNow, excused <- moveExcused,
  changes <- moveChanges
Checkins == INSTANCE Reschedule WITH
  Procs <- {x3}, Sides <- {A, B}, FirstCaptain <- Captains,
  FirstSeats <- SeatsOf({a1, b1}), TEAM_SIZE <- 2, GRACE <- 1,
  Users <- {a1, b1}, Times <- {1, 2}, MaxOptions <- 1, MaxRequests <- 1,
  MaxRevision <- 3, MaxTime <- 1, MaxChanges <- 0, requests <- moveRequests,
  captain <- moveCaptain, now <- moveNow, excused <- moveExcused,
  changes <- moveChanges

Booking == INSTANCE Standins WITH
  Procs <- {x1, x2}, Matches <- {m1}, Teams <- {A, B},
  Users <- {a1, a2, b1, s1, s2}, Admins <- {a1}, FirstRoster <- Rosters,
  FirstCaptain <- Captains, Mmr <- Ratings, Nights <- {1}, TEAM_SIZE <- 2,
  STANDIN_MMR_ALLOWANCE <- 1, MaxRequests <- 2, MaxChanges <- 0,
  MaxResults <- 0, captain <- coverCaptain, requests <- coverRequests,
  jobs <- coverJobs, changes <- coverChanges
Asked == INSTANCE Standins WITH
  Procs <- {x3}, Matches <- {m1}, Teams <- {A, B},
  Users <- {a1, a2, b1, s1, s2}, Admins <- {}, FirstRoster <- Rosters,
  FirstCaptain <- Captains, Mmr <- Unrated, Nights <- {1}, TEAM_SIZE <- 2,
  STANDIN_MMR_ALLOWANCE <- 1, MaxRequests <- 2, MaxChanges <- 0,
  MaxResults <- 2, captain <- coverCaptain, requests <- coverRequests,
  jobs <- coverJobs, changes <- coverChanges
TwoNights == INSTANCE Standins WITH
  Procs <- {x3}, Matches <- {m1, m2}, Teams <- {A, B},
  Users <- {a1, a2, b1, s1}, Admins <- {}, FirstRoster <- Rosters,
  FirstCaptain <- Captains, Mmr <- Ratings, Nights <- {1, 2}, TEAM_SIZE <- 2,
  STANDIN_MMR_ALLOWANCE <- 1, MaxRequests <- 0, MaxChanges <- 1,
  MaxResults <- 1, captain <- coverCaptain, requests <- coverRequests,
  jobs <- coverJobs, changes <- coverChanges
Short == INSTANCE Standins WITH
  Procs <- {x3}, Matches <- {m1}, Teams <- {A, B}, Users <- {a1, b1, s1, s2},
  Admins <- {}, FirstRoster <- ShortRosters, FirstCaptain <- Captains,
  Mmr <- ShortRatings, Nights <- {1}, TEAM_SIZE <- 3,
  STANDIN_MMR_ALLOWANCE <- 1, MaxRequests <- 2, MaxChanges <- 1,
  MaxResults <- 0, captain <- coverCaptain, requests <- coverRequests,
  jobs <- coverJobs, changes <- coverChanges
Refill == INSTANCE Standins WITH
  Procs <- {x3}, Matches <- {m1}, Teams <- {A, B},
  Users <- {a1, a2, b1, s1, s2}, Admins <- {}, FirstRoster <- ShortRosters,
  FirstCaptain <- Captains, Mmr <- ShortRatings, Nights <- {1}, TEAM_SIZE <- 3,
  STANDIN_MMR_ALLOWANCE <- 1, MaxRequests <- 1, MaxChanges <- 2,
  MaxResults <- 0, captain <- coverCaptain, requests <- coverRequests,
  jobs <- coverJobs, changes <- coverChanges
Reopened == INSTANCE Standins WITH
  Procs <- {x3}, Matches <- {m1}, Teams <- {A, B},
  Users <- {a1, a2, b1, s1, s2}, Admins <- {}, FirstRoster <- Rosters,
  FirstCaptain <- Captains, Mmr <- Ratings, Nights <- {1}, TEAM_SIZE <- 2,
  STANDIN_MMR_ALLOWANCE <- 1, MaxRequests <- 0, MaxChanges <- 1,
  MaxResults <- 2, captain <- coverCaptain, requests <- coverRequests,
  jobs <- coverJobs, changes <- coverChanges

Poll == INSTANCE MatchNight WITH
  Players <- {u1}, Polls <- {q1, q2}, Procs <- {x1, x2}, Slots <- {18, 42},
  Marks <- {}, MaxEdits <- 0, MaxNow <- 3, now <- pollNow, night <- pollNight,
  phase <- pollPhase, jobs <- pollJobs
Votes == INSTANCE MatchNight WITH
  Players <- {u1}, Polls <- {q1}, Procs <- {x1, x2}, Slots <- {18, 42},
  Marks <- {{18}}, MaxEdits <- 1, MaxNow <- 2, now <- pollNow,
  night <- pollNight, phase <- pollPhase, jobs <- pollJobs
RollCall == INSTANCE MatchNight WITH
  Players <- {u1}, Polls <- {q1}, Procs <- {x1, x2}, Slots <- {18, 42},
  Marks <- {}, MaxEdits <- 3, MaxNow <- 1, now <- pollNow, night <- pollNight,
  phase <- pollPhase, jobs <- pollJobs

Pools == INSTANCE Signups WITH
  Users <- {u1, u2, u3}, Free <- {u1}, Movers <- {u1}, Teams <- {A, B},
  Procs <- {x3}, Accounts <- {d1}, InServer <- {d1}, Numbers <- {1, 2},
  Medals <- FALSE, Links <- FALSE, Nights <- TRUE, Captaining <- FALSE,
  MaxChanges <- 2, phase <- poolPhase, night <- poolNight, jobs <- poolJobs,
  excused <- poolExcused
Admission == INSTANCE Signups WITH
  Users <- {u1, u2, u3}, Free <- {u1}, Movers <- {u1}, Teams <- {A, B},
  Procs <- {x1, x2}, Accounts <- {d1}, InServer <- {d1}, Numbers <- {1},
  Medals <- TRUE, Links <- TRUE, Nights <- FALSE, Captaining <- FALSE,
  MaxChanges <- 0, phase <- poolPhase, night <- poolNight, jobs <- poolJobs,
  excused <- poolExcused
Roster == INSTANCE Signups WITH
  Users <- {u1, u2, u3}, Free <- {u1}, Movers <- {u1}, Teams <- {A, B},
  Procs <- {x1, x2}, Accounts <- {d1}, InServer <- {d1}, Numbers <- {1},
  Medals <- FALSE, Links <- FALSE, Nights <- FALSE, Captaining <- FALSE,
  MaxChanges <- 1, phase <- poolPhase, night <- poolNight, jobs <- poolJobs,
  excused <- poolExcused
Captaincy == INSTANCE Signups WITH
  Users <- {u1, u2, u3}, Free <- {}, Movers <- {u1}, Teams <- {A, B, C},
  Procs <- {x3}, Accounts <- {d1}, InServer <- {d1}, Numbers <- {1},
  Medals <- FALSE, Links <- FALSE, Nights <- FALSE, Captaining <- TRUE,
  MaxChanges <- 3, phase <- poolPhase, night <- poolNight, jobs <- poolJobs,
  excused <- poolExcused

Links == INSTANCE DotaAccounts WITH
  Users <- {u1, u2}, Accounts <- {d1, d2}, Steam <- TwoOwners, Fits <- {d1},
  Tiers <- {m1}, Procs <- {x1, x2}, Early <- {u1, u2}, Modes <- {"manual"},
  Bootstraps <- FALSE, MaxJobs <- 2, jobs <- accountJobs
Owner == INSTANCE DotaAccounts WITH
  Users <- {u1, u2}, Accounts <- {d1, d2}, Steam <- OneOwns, Fits <- {d1},
  Tiers <- {m1}, Procs <- {x1, x2}, Early <- {u1, u2},
  Modes <- {"manual", "automatic"}, Bootstraps <- FALSE, MaxJobs <- 2,
  jobs <- accountJobs
Boots == INSTANCE DotaAccounts WITH
  Users <- {u1, u2}, Accounts <- {d1, d2}, Steam <- TwoOwners,
  Fits <- {d1, d2}, Tiers <- {m1}, Procs <- {x1, x2, x3}, Early <- {},
  Modes <- {}, Bootstraps <- TRUE, MaxJobs <- 3, jobs <- accountJobs

ASSUME OutboxAssumption
ASSUME Answers!RescheduleAssumption
ASSUME Proposals!RescheduleAssumption
ASSUME Moves!RescheduleAssumption
ASSUME Checkins!RescheduleAssumption
ASSUME Booking!StandinsAssumption
ASSUME Asked!StandinsAssumption
ASSUME TwoNights!StandinsAssumption
ASSUME Short!StandinsAssumption
ASSUME Refill!StandinsAssumption
ASSUME Reopened!StandinsAssumption
ASSUME Poll!NightAssumption
ASSUME Votes!NightAssumption
ASSUME RollCall!NightAssumption
ASSUME Pools!SignupAssumption
ASSUME Admission!SignupAssumption
ASSUME Roster!SignupAssumption
ASSUME Captaincy!SignupAssumption
ASSUME Links!AccountAssumption
ASSUME Owner!AccountAssumption
ASSUME Boots!AccountAssumption

-----------------------------------------------------------------------------
MCInit ==
  /\ part \in Parts /\ Init
  /\ CASE part = "answers" -> Answers!Init [] part = "moves" -> Moves!Init
       [] part = "checkins" -> Checkins!Init [] OTHER -> Proposals!Init
  /\ CASE part = "nights" -> TwoNights!Init [] part = "short" -> Short!Init [] part = "asked" -> Asked!Init
       [] part = "refill" -> Refill!Init [] part = "reopened" -> Reopened!Init [] OTHER -> Booking!Init
  /\ CASE part = "polls" -> Poll!Init [] part = "votes" -> Votes!Init [] OTHER -> RollCall!Init
  /\ CASE part = "admission" -> Admission!Init [] part = "captains" -> Captaincy!Init [] part = "pool" -> Pools!Init
       [] OTHER -> Roster!Init
  /\ CASE part = "links" -> Links!Init [] part = "owner" -> Owner!Init [] OTHER -> Boots!Init

\* One part runs, the others stand still.
ChannelRuns ==
  /\ part = "channel" /\ Next
  /\ UNCHANGED <<part, moveVars, coverVars, pollVars, poolVars, accountVars>>
MoveRuns ==
  /\ \/ part = "answers" /\ Answers!Next
     \/ part = "proposals" /\ Proposals!Next
     \/ part = "moves" /\ Moves!Next
     \/ part = "checkins" /\ Checkins!Next
  /\ UNCHANGED <<part, channelVars, coverVars, pollVars, poolVars, accountVars>>
CoverRuns ==
  /\ \/ part = "booking" /\ Booking!Next
     \/ part = "asked" /\ Asked!Next
     \/ part = "nights" /\ TwoNights!Next
     \/ part = "short" /\ Short!Next
     \/ part = "refill" /\ Refill!Next
     \/ part = "reopened" /\ Reopened!Next
  /\ UNCHANGED <<part, channelVars, moveVars, pollVars, poolVars, accountVars>>
PollRuns ==
  /\ \/ part = "polls" /\ Poll!Next
     \/ part = "votes" /\ Votes!Next
     \/ part = "rollcall" /\ RollCall!Next
  /\ UNCHANGED <<part, channelVars, moveVars, coverVars, poolVars, accountVars>>
PoolRuns ==
  /\ \/ part = "pool" /\ Pools!Next
     \/ part = "admission" /\ Admission!Next
     \/ part = "rosters" /\ Roster!Next
     \/ part = "captains" /\ Captaincy!Next
  /\ UNCHANGED <<part, channelVars, moveVars, coverVars, pollVars, accountVars>>
AccountRuns ==
  /\ \/ part = "links" /\ Links!Next
     \/ part = "owner" /\ Owner!Next
     \/ part = "first" /\ Boots!Next
  /\ UNCHANGED <<part, channelVars, moveVars, coverVars, pollVars, poolVars>>

MCNext == \/ ChannelRuns
          \/ MoveRuns
          \/ CoverRuns
          \/ PollRuns
          \/ PoolRuns
          \/ AccountRuns
MCSpec == MCInit /\ [][MCNext]_allVars

-----------------------------------------------------------------------------
\* What every state of each part keeps (see the property of this name in the
\* part's module; that of "channel" is OutboxIsSound itself).
RescheduleIsSound ==
  /\ (part = "answers" => Answers!RescheduleIsSound)
  /\ (part = "proposals" => Proposals!RescheduleIsSound)
  /\ (part = "moves" => Moves!RescheduleIsSound)
  /\ (part = "checkins" => Checkins!RescheduleIsSound)
StandinsAreSound ==
  /\ part = "booking" => Booking!StandinsAreSound
  /\ part = "asked" => Asked!StandinsAreSound
  /\ part = "nights" => TwoNights!StandinsAreSound
  /\ part = "short" => Short!StandinsAreSound
  /\ part = "refill" => Refill!StandinsAreSound
  /\ part = "reopened" => Reopened!TypeOK
PollsAreSound ==
  /\ (part = "polls" => Poll!PollsAreSound) /\ (part = "votes" => Votes!PollsAreSound)
  /\ (part = "rollcall" => RollCall!PollsAreSound)
SignupsAreSound ==
  /\ part = "pool" => Pools!SignupsAreSound /\ Pools!RulingStands
  /\ part = "admission" => Admission!SignupsAreSound
  /\ part = "rosters" => Roster!SignupsAreSound
  /\ part = "captains" => Captaincy!SignupsAreSound
AccountsAreSound ==
  /\ part = "links" => Links!AccountsAreSound
  /\ part = "owner" => Owner!AccountsAreSound /\ Owner!OneOwner
  /\ part = "first" => Boots!AccountsAreSound

\* What every step of each part keeps.
SeasonSteps ==
  [][/\ part = "channel" => OutboxStep
     /\ part = "answers" => Answers!RescheduleStep
     /\ part = "proposals" => Proposals!RescheduleStep
     /\ part = "moves" => Moves!RescheduleStep
     /\ part = "checkins" => Checkins!RescheduleStep
     /\ part = "booking" => Booking!StandinStep /\ Booking!OnlyRefillsOverfill
     /\ part = "asked" => Asked!StandinStep
     /\ part = "nights" => TwoNights!StandinStep
     /\ part = "short" => Short!StandinStep /\ Short!OnlyRefillsOverfill
     /\ part = "refill" => Refill!StandinStep /\ Refill!OnlyRefillsOverfill
     /\ part = "reopened" => Reopened!StandinStep]_allVars

\* What src/app/actions/registration.ts:447 says of a player who left the
\* league: they do not "inject themselves into the live pool between lots".
PoolOnlyShrinks == [][part = "rosters" => Roster!PoolOnlyShrinks]_allVars

\* Requests do the same things.
Symmetry == Permutations({x1, x2})
=============================================================================
