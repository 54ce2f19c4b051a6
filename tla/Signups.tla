------------------------------- MODULE Signups -------------------------------
(***************************************************************************)
(* Who is in the season: players sign up, edit, confirm draft night and    *)
(* leave; admins remove, reinstate, promote and correct them and designate *)
(* captains; and the auction sells from the pool meanwhile.                *)
(*                                                                         *)
(* Saving a signup reads in several round trips, may ask OpenDota for a    *)
(* medal, and writes in one SERIALIZABLE transaction that re-reads some of *)
(* what it read.  Every other operation decides inside its transaction and *)
(* is one step.                                                            *)
(***************************************************************************)
EXTENDS Integers, FiniteSets

CONSTANTS Users, Teams, Procs, Accounts,
          InServer,     \* Discord accounts that are in the league's server
          Numbers,      \* MMRs
          None,
          MaxChanges,   \* bound on writes of the season and draft rows
          Free,         \* users who sign up during the run
          Movers,       \* users that players' and admins' buttons are about
          Medals, Links, Nights, Captaining  \* operations an instance has

SignupAssumption ==
  /\ MaxChanges \in Nat /\ InServer \subseteq Accounts /\ Free \cup Movers \subseteq Users
  /\ {Medals, Links, Nights, Captaining} \subseteq BOOLEAN

VARIABLES phase, draft,
          version,     \* Season.updatedAt and Draft.updatedAt
          night,       \* Season.draftRevision
          onBlock,     \* Draft.nominatedUserId
          regs,        \* Registration rows
          medal,       \* User.rankTier: None, "fits", or "high", above the ceiling
          linked,      \* User.discordId
          seat,        \* TeamMember: the team of each user
          teams,       \* Team rows: captainId and draftOrder
          cover, asked,\* booked standins, and those a captain has asked
          jobs,
          banned,      \* ghost: removed by an admin and not reinstated since
          excused,     \* ghost: let in before their medal rose, or by an admin
          unchecked,   \* ghost: let in on a Discord account not in the server
          ruled,       \* ghost: the MMR an admin set, until the player edits it
          ready,       \* ghost: confirmed a draft night since they last joined
          pool         \* ghost: the MMRs the running auction began with
vars == <<phase, draft, version, night, onBlock, regs, medal, linked, seat, teams,
          cover, asked, jobs, banned, excused, unchecked, ruled, ready, pool>>
league == <<phase, draft, version, night, onBlock, pool>>
people == <<medal, linked>>
squads == <<seat, teams>>
standins == <<cover, asked>>
ghosts == <<banned, excused, unchecked, ruled, ready>>

PHASES == {"SIGNUPS", "DRAFT", "REGULAR_SEASON", "COMPLETE"}
TYPES == {"PLAYER", "STANDIN"}

IsActive(u) == regs[u] # None /\ regs[u].status = "ACTIVE"
Pool == {u \in Users : IsActive(u) /\ regs[u].type = "PLAYER"}
setupOpen == phase \in {"SIGNUPS", "DRAFT"} /\ draft = "SETUP"
Live == draft = "LIVE"
Changes == version < MaxChanges /\ version' = version + 1
Captains == {teams[t].captain : t \in {t \in Teams : teams[t] # None}}

-----------------------------------------------------------------------------
(* registration.ts: what a save may do                                     *)

Wanted(form) == [type |-> form.type, status |-> "ACTIVE", mmr |-> form.mmr, confirmed |-> 0]

registrationGate(form, row, m) ==
  /\ phase # "COMPLETE"
  /\ (row = None \/ row.status # "ACTIVE") => m # "high"
  /\ form.type = "PLAYER" /\ (row = None \/ row.type # "PLAYER") => phase = "SIGNUPS"

\* After the draft, and while it runs, a stored number is kept.
Kept(row, d, ph) ==
  /\ row # None
  /\ \/ ph \in {"REGULAR_SEASON", "COMPLETE"}
     \/ ph = "DRAFT" /\ d = "DONE"
     \/ d = "LIVE" /\ row.type = "PLAYER"

\* While it runs nobody changes type or comes back as a player.
AuctionLock(form, row) ==
  Live /\ row # None => form.type = row.type /\ ~(row.status = "WITHDRAWN" /\ form.type = "PLAYER")

judged(row) == row = None \/ row.status = "WITHDRAWN"

\* The season and draft rows, before anything else.
ReadSeason(j, u, form) ==
  /\ jobs[j] = None /\ phase # "COMPLETE"
  /\ jobs' = [jobs EXCEPT ![j] = [kind |-> "season", user |-> u, form |-> form, version |-> version]]
  /\ UNCHANGED <<league, regs, people, squads, standins, ghosts>>

\* The signup and the user, judged.  The season is the one read before: a
\* change since then is refused at the write, whatever this says.
ReadSignup(j) ==
  /\ jobs[j] # None /\ jobs[j].kind = "season"
  /\ LET u == jobs[j].user  form == jobs[j].form  row == regs[u]
         sent == IF Kept(row, draft, phase) THEN [form EXCEPT !.mmr = row.mmr] ELSE form IN
       /\ jobs[j].version = version
       /\ registrationGate(sent, row, medal[u]) /\ AuctionLock(sent, row)
       /\ judged(row) => linked[u] \in InServer
       /\ sent.type = "STANDIN" => seat[u] = None
       /\ jobs' = [jobs EXCEPT ![j] =
            [kind |-> IF row = None /\ medal[u] = None THEN "fetch" ELSE "write",
             user |-> u, form |-> sent, version |-> version, row |-> row,
             medal |-> medal[u], account |-> linked[u]]]
  /\ UNCHANGED <<league, regs, people, squads, standins, ghosts>>

\* A first signup with no medal on file asks OpenDota; another request may
\* have stored one meanwhile.
FetchMedal(j, found) ==
  /\ jobs[j] # None /\ jobs[j].kind = "fetch"
  /\ LET u == jobs[j].user IN
       /\ medal' = [medal EXCEPT ![u] = IF @ = None THEN found ELSE @]
       /\ excused' = IF IsActive(u) THEN excused \cup {u} ELSE excused
       /\ IF medal'[u] = "high" THEN jobs' = [jobs EXCEPT ![j] = None]
          ELSE jobs' = [jobs EXCEPT ![j].kind = "write", ![j].medal = medal'[u]]
  /\ UNCHANGED <<league, regs, linked, squads, standins, banned, unchecked, ruled, ready>>

\* Mutants: the write trusts what was read.
AnyMedal(job) == TRUE

SameMedal(job) == medal[job.user] = job.medal
SameAccount(job) == judged(job.row) => linked[job.user] = job.account
SameSeason(job) == version = job.version
NoSeat(job) == job.form.type = "STANDIN" => seat[job.user] = None
SameMmr(job) == job.row # None => regs[job.user].mmr = job.row.mmr
\* The claim: a removed signup stays removed, and one whose medal is too high
\* is not brought back.
Claimable(job) ==
  regs[job.user] # None =>
    IF job.medal = "high" THEN regs[job.user].status = "ACTIVE" ELSE regs[job.user].status # "REMOVED"

\* A new commitment clears the confirmation, and one made from a page that
\* showed the current draft night confirms it.
Rejoins(job) == job.row # None /\ (job.row.type # job.form.type \/ job.row.status # "ACTIVE")
Shown(job) ==
  /\ job.form.type = "PLAYER" /\ (job.row = None \/ Rejoins(job))
  /\ job.form.seen = night /\ setupOpen
Confirmed(job) ==
  IF Shown(job) THEN night
  ELSE IF Rejoins(job) \/ regs[job.user] = None THEN 0 ELSE regs[job.user].confirmed

saveRegistration(j) ==
  /\ jobs[j] # None /\ jobs[j].kind = "write"
  /\ LET job == jobs[j]  u == job.user IN
       /\ SameSeason(job) /\ SameMedal(job) /\ SameAccount(job) /\ SameMmr(job)
       /\ NoSeat(job) /\ Claimable(job)
       /\ regs' = [regs EXCEPT ![u] = [Wanted(job.form) EXCEPT !.confirmed = Confirmed(job)]]
       /\ unchecked' = IF judged(job.row) /\ ~IsActive(u) /\ linked[u] \notin InServer
                       THEN unchecked \cup {u} ELSE unchecked
       /\ ruled' = [ruled EXCEPT ![u] =
            IF job.row # None /\ job.row.mmr = @ /\ job.form.mmr # @ THEN None ELSE @]
       /\ ready' = IF Shown(job) THEN ready \cup {u}
                   ELSE IF IsActive(u) /\ regs[u].type = job.form.type THEN ready ELSE ready \ {u}
       /\ jobs' = [jobs EXCEPT ![j] = None]
  /\ UNCHANGED <<league, people, squads, standins, banned, excused>>

Refused(j) ==
  /\ jobs[j] # None /\ jobs' = [jobs EXCEPT ![j] = None]
  /\ UNCHANGED <<league, regs, people, squads, standins, ghosts>>

confirmDraftReadiness(u, seen) ==
  /\ setupOpen /\ seen = night /\ night > 0 /\ u \in Pool
  /\ regs' = [regs EXCEPT ![u].confirmed = seen]
  /\ ready' = ready \cup {u}
  /\ UNCHANGED <<league, people, squads, standins, jobs, banned, excused, unchecked, ruled>>

-----------------------------------------------------------------------------
(* Leaving, by the player's hand or an admin's                             *)

MayLeave(u) == u \notin cover /\ seat[u] = None /\ ~(Live /\ onBlock = u)

\* Requests to stand in are cancelled with the signup.
Leaves(u, status) ==
  /\ phase # "COMPLETE" /\ IsActive(u) /\ MayLeave(u)
  /\ regs' = [regs EXCEPT ![u].status = status, ![u].confirmed = 0]
  /\ asked' = asked \ {u} /\ excused' = excused \ {u} /\ unchecked' = unchecked \ {u}
  /\ ready' = ready \ {u}
  /\ UNCHANGED <<league, people, squads, cover, jobs, ruled>>

leaveLeague(u) == Leaves(u, "WITHDRAWN") /\ UNCHANGED banned
withdrawSignup(u) == Leaves(u, "REMOVED") /\ banned' = banned \cup {u}

PoolOpen(u) == regs[u].type = "PLAYER" => ~Live

reinstateSignup(u) ==
  /\ phase # "COMPLETE" /\ regs[u] # None /\ ~IsActive(u) /\ PoolOpen(u)
  /\ regs' = [regs EXCEPT ![u].status = "ACTIVE", ![u].confirmed = 0]
  /\ banned' = banned \ {u} /\ excused' = excused \cup {u}
  /\ ready' = ready \ {u}
  /\ UNCHANGED <<league, people, squads, standins, jobs, unchecked, ruled>>

promoteStandinToPlayer(u) ==
  /\ phase \notin {"SIGNUPS", "COMPLETE"} /\ ~Live
  /\ IsActive(u) /\ regs[u].type = "STANDIN" /\ u \notin cover
  /\ regs' = [regs EXCEPT ![u].type = "PLAYER", ![u].confirmed = 0] /\ ready' = ready \ {u}
  /\ UNCHANGED <<league, people, squads, standins, jobs, banned, excused, unchecked, ruled>>

\* setRegistrationMmr, and setPlayerRank's number.
setRegistrationMmr(u, n) ==
  /\ phase # "COMPLETE" /\ IsActive(u) /\ PoolOpen(u)
  /\ regs' = [regs EXCEPT ![u].mmr = n] /\ ruled' = [ruled EXCEPT ![u] = n]
  /\ UNCHANGED <<league, people, squads, standins, jobs, banned, excused, unchecked, ready>>

-----------------------------------------------------------------------------
(* What else moves: medals, Discord links, draft night, the auction        *)

\* The hourly refresh, and setPlayerRank's medal.
MedalMoves(u, m) ==
  /\ m # medal[u] /\ medal' = [medal EXCEPT ![u] = m]
  /\ excused' = IF IsActive(u) THEN excused \cup {u} ELSE excused
  /\ UNCHANGED <<league, regs, linked, squads, standins, jobs, banned, unchecked, ruled, ready>>

Relinks(u, a) ==
  /\ a # linked[u] /\ linked' = [linked EXCEPT ![u] = a]
  /\ UNCHANGED <<league, regs, medal, squads, standins, jobs, ghosts>>

setDraftNight ==
  /\ setupOpen /\ Changes /\ night' = night + 1
  /\ UNCHANGED <<phase, draft, onBlock, pool, regs, people, squads, standins, jobs, ghosts>>

startDraft ==
  /\ setupOpen /\ Changes /\ Cardinality(Captains) >= 2
  /\ phase' = "DRAFT" /\ draft' = "LIVE" /\ onBlock' = None
  /\ pool' = [u \in Users |-> IF u \in Pool THEN regs[u].mmr ELSE None]
  /\ UNCHANGED <<night, regs, people, squads, standins, jobs, ghosts>>

Nominate(u) ==
  /\ Live /\ onBlock = None /\ Changes /\ u \in Pool /\ seat[u] = None /\ onBlock' = u
  /\ UNCHANGED <<phase, draft, night, pool, regs, people, squads, standins, jobs, ghosts>>

\* The lot is sold, or voided when its player has left the pool.
Sell(t) ==
  /\ Live /\ onBlock # None /\ Changes /\ teams[t] # None
  /\ onBlock' = None
  /\ seat' = IF onBlock \in Pool THEN [seat EXCEPT ![onBlock] = t] ELSE seat
  /\ UNCHANGED <<phase, draft, night, pool, regs, people, teams, standins, jobs, ghosts>>

DraftCompletes ==
  /\ Live /\ onBlock = None /\ Changes /\ draft' = "DONE"
  /\ UNCHANGED <<phase, night, onBlock, pool, regs, people, squads, standins, jobs, ghosts>>

abortDraft ==
  /\ draft # "SETUP" /\ phase \in {"DRAFT", "REGULAR_SEASON"} /\ Changes
  /\ phase' = "SIGNUPS" /\ draft' = "SETUP" /\ onBlock' = None
  /\ seat' = [u \in Users |-> IF u \in Captains THEN seat[u] ELSE None]
  /\ cover' = {} /\ asked' = {}
  /\ UNCHANGED <<night, pool, regs, people, teams, jobs, ghosts>>

setSeasonPhase(to) ==
  /\ Changes /\ phase' = to
  /\ \/ phase = "SIGNUPS" /\ to = "DRAFT" /\ draft = "SETUP"
     \/ phase = "DRAFT" /\ to = "SIGNUPS" /\ draft = "SETUP"
     \/ phase = "DRAFT" /\ to = "REGULAR_SEASON" /\ draft = "DONE"
     \/ phase = "REGULAR_SEASON" /\ to = "COMPLETE"
  /\ UNCHANGED <<draft, night, onBlock, pool, regs, people, squads, standins, jobs, ghosts>>

signFreeAgent(u, t) ==
  /\ phase \in {"DRAFT", "REGULAR_SEASON"} /\ draft = "DONE" /\ teams[t] # None
  /\ u \in Pool /\ seat[u] = None /\ seat' = [seat EXCEPT ![u] = t]
  /\ UNCHANGED <<league, regs, people, teams, standins, jobs, ghosts>>

releasePlayer(u) ==
  /\ draft = "DONE" /\ phase # "COMPLETE" /\ seat[u] # None /\ u \notin Captains
  /\ seat' = [seat EXCEPT ![u] = None]
  /\ UNCHANGED <<league, regs, people, teams, standins, jobs, ghosts>>

\* A captain asks a standin, who agrees; or books one directly.
Asks(u) ==
  /\ phase = "REGULAR_SEASON" /\ IsActive(u) /\ regs[u].type = "STANDIN"
  /\ \/ asked' = asked \cup {u} /\ UNCHANGED cover
     \/ asked' = asked \ {u} /\ cover' = cover \cup {u}
     \/ u \in cover /\ cover' = cover \ {u} /\ UNCHANGED asked
  /\ UNCHANGED <<league, regs, people, squads, jobs, ghosts>>

-----------------------------------------------------------------------------
(* admin-captains-draft.ts: teams before the draft                         *)

Orders == {teams[t].order : t \in {t \in Teams : teams[t] # None}}

addCaptain(u, t) ==
  /\ setupOpen /\ u \in Pool /\ seat[u] = None /\ teams[t] = None
  /\ teams' = [teams EXCEPT ![t] = [captain |-> u,
                 order |-> IF Orders = {} THEN 0 ELSE 1 + CHOOSE n \in Orders : \A m \in Orders : m <= n]]
  /\ seat' = [seat EXCEPT ![u] = t]
  /\ UNCHANGED <<league, regs, people, standins, jobs, ghosts>>

Renumbered(t) ==
  [s \in Teams |-> IF s = t \/ teams[s] = None THEN None
                   ELSE [teams[s] EXCEPT !.order = IF @ > teams[t].order THEN @ - 1 ELSE @]]

CaptainOnly(t) == \A u \in Users : seat[u] = t => u = teams[t].captain

removeCaptain(t) ==
  /\ setupOpen /\ teams[t] # None /\ CaptainOnly(t)
  /\ teams' = Renumbered(t) /\ seat' = [seat EXCEPT ![teams[t].captain] = None]
  /\ UNCHANGED <<league, regs, people, standins, jobs, ghosts>>

changeCaptain(t, u) ==
  /\ setupOpen /\ teams[t] # None /\ CaptainOnly(t) /\ u \in Pool /\ seat[u] = None
  /\ teams' = [teams EXCEPT ![t].captain = u]
  /\ seat' = [seat EXCEPT ![teams[t].captain] = None, ![u] = t]
  /\ UNCHANGED <<league, regs, people, standins, jobs, ghosts>>

randomizeDraftOrder(order) ==
  /\ setupOpen /\ Cardinality(Captains) >= 2
  /\ \A t \in Teams : (teams[t] # None) <=> (order[t] # None)
  /\ teams' = [t \in Teams |-> IF teams[t] = None THEN None ELSE [teams[t] EXCEPT !.order = order[t]]]
  /\ UNCHANGED <<league, seat, regs, people, standins, jobs, ghosts>>

\* The shuffles of the teams there are.
Shuffles ==
  {o \in [Teams -> 0 .. Cardinality(Teams) - 1 \cup {None}] :
     /\ \A s, t \in Teams : s # t /\ o[s] # None => o[s] # o[t]
     /\ \A s \in Teams : o[s] # None => o[s] < Cardinality({t \in Teams : o[t] # None})}

-----------------------------------------------------------------------------
Forms == [type : TYPES, mmr : Numbers, seen : 0 .. MaxChanges]

InitWith(caps, signed) ==
  /\ phase = "SIGNUPS" /\ draft = "SETUP" /\ version = 0 /\ night = 0 /\ onBlock = None
  /\ teams = caps
  /\ seat = [u \in Users |->
       IF \E t \in Teams : caps[t] # None /\ caps[t].captain = u
       THEN CHOOSE t \in Teams : caps[t] # None /\ caps[t].captain = u ELSE None]
  /\ regs = [u \in Users |-> IF u \notin signed THEN None
             ELSE [type |-> "PLAYER", status |-> "ACTIVE", mmr |-> CHOOSE n \in Numbers : TRUE, confirmed |-> 0]]
  /\ medal = [u \in Users |-> IF u \notin signed THEN None ELSE "fits"]
  /\ linked \in [Users -> InServer] /\ cover = {} /\ asked = {}
  /\ jobs = [j \in Procs |-> None] /\ banned = {} /\ excused = {} /\ unchecked = {}
  /\ ruled = [u \in Users |-> None] /\ ready = {} /\ pool = [u \in Users |-> None]

Saves(j, u) ==
  \/ \E form \in Forms : form.seen \in {0, night} /\ ReadSeason(j, u, form)
  \/ jobs[j] # None /\ jobs[j].user = u
     /\ (ReadSignup(j) \/ (\E m \in {None, "fits", "high"} : FetchMedal(j, m)) \/ saveRegistration(j) \/ Refused(j))

Signs(u) ==
  \/ leaveLeague(u)
  \/ withdrawSignup(u) \/ reinstateSignup(u) \/ promoteStandinToPlayer(u)
  \/ \E n \in Numbers : setRegistrationMmr(u, n)
  \/ \E m \in {None, "fits", "high"} : MedalMoves(u, m)
  \/ \E a \in Accounts \cup {None} : Relinks(u, a)
  \/ Nominate(u) \/ releasePlayer(u) \/ Asks(u)
  \/ \E t \in Teams : signFreeAgent(u, t)

Runs ==
  \/ startDraft \/ DraftCompletes \/ abortDraft
  \/ \E t \in Teams : Sell(t)
  \/ \E to \in PHASES : setSeasonPhase(to)

Captaincy ==
  \/ \E t \in Teams : removeCaptain(t) \/ \E u \in Users : addCaptain(u, t) \/ changeCaptain(t, u)
  \/ \E o \in Shuffles : randomizeDraftOrder(o)

-----------------------------------------------------------------------------
\* Two captains are designated from the start where Captaining is off.
AnyOf(set) == CHOOSE x \in set : TRUE
Designated ==
  LET c == AnyOf(Users \ Free)  t == AnyOf(Teams) IN
  [s \in Teams |-> IF Captaining THEN None
     ELSE IF s = t THEN [captain |-> c, order |-> 0]
     ELSE [captain |-> AnyOf(Users \ (Free \cup {c})), order |-> 1]]
Init == InitWith(Designated, Users \ Free)

Next ==
  \/ Runs
  \/ Captaining /\ Captaincy
  \/ Nights /\ (setDraftNight \/ \E u \in Movers : confirmDraftReadiness(u, night))
  \/ \E u \in Free, j \in Procs : Saves(j, u)
  \/ \E u \in Movers : Signs(u) /\ (Medals \/ UNCHANGED medal) /\ (Links \/ UNCHANGED linked)
Spec == Init /\ [][Next]_vars

-----------------------------------------------------------------------------
TypeOK ==
  /\ phase \in PHASES /\ draft \in {"SETUP", "LIVE", "DONE"}
  /\ draft = "LIVE" => phase = "DRAFT"
  /\ onBlock \in Users \cup {None} /\ (onBlock # None => Live)
  /\ \A u \in Users : regs[u] # None =>
       /\ regs[u].type \in TYPES /\ regs[u].status \in {"ACTIVE", "WITHDRAWN", "REMOVED"}
       /\ regs[u].mmr \in Numbers /\ regs[u].confirmed \in 0 .. night
  /\ seat \in [Users -> Teams \cup {None}]

\* Whoever an admin removed is out until an admin reinstates them, whatever
\* the player had open in another tab.  (saveRegistration, leaveLeague)
RemovedStaysOut == \A u \in banned : regs[u].status = "REMOVED"

\* Nobody whose medal is above the ceiling gets in by themselves: not by a
\* medal that arrives while they sign up, nor by leaving and coming back.
\* (registrationGate, saveRegistration)
CeilingHolds == \A u \in Users : IsActive(u) /\ medal[u] = "high" => u \in excused

\* Whoever signs up, or comes back, can be reached: the account they have
\* linked is in the league's server.  A save that read an active signup is
\* not judged.  (saveRegistration)
AdmittedAreReachable == unchecked = {}

\* Whoever holds a roster spot is an active full player.  (leaveLeague,
\* withdrawSignup, saveRegistration, addCaptain, changeCaptain)
SeatedArePlayers == \A u \in Users : seat[u] # None => u \in Pool

\* Whoever has left covers no match and is asked to cover none.
\* (leaveLeague, withdrawSignup)
GoneOweNothing == \A u \in cover \cup asked : IsActive(u)

\* A running auction sells nobody it did not begin with, at no other number.
\* (saveRegistration, reinstateSignup, promoteStandinToPlayer,
\* setRegistrationMmr)
PoolIsAsStarted == Live => \A u \in Pool : regs[u].mmr = pool[u]

\* A number an admin sets stands until the player, having seen it, submits
\* another.  (saveRegistration)
RulingStands == \A u \in Users : ruled[u] # None => regs[u].mmr = ruled[u]

\* Whoever counts as ready for draft night said so, to that night, since
\* they last joined the pool.  (saveRegistration, confirmDraftReadiness)
ReadyIsTheirs == \A u \in Pool : regs[u].confirmed = night /\ night > 0 => u \in ready

\* Each team has its captain's seat, and the draft order has no gap and no
\* tie.  (addCaptain, removeCaptain, changeCaptain, randomizeDraftOrder)
RotationIsWhole ==
  LET there == {t \in Teams : teams[t] # None} IN
  /\ \A t \in there : seat[teams[t].captain] = t
  /\ Orders = 0 .. Cardinality(there) - 1

\* What src/app/actions/registration.ts:447 says of a player who left: they
\* do not "inject themselves into the live pool between lots".
PoolOnlyShrinks == Live /\ Live' => Pool' \subseteq Pool

\* What every state of the signups keeps.
SignupsAreSound ==
  /\ TypeOK /\ RemovedStaysOut /\ CeilingHolds /\ AdmittedAreReachable /\ SeatedArePlayers
  /\ GoneOweNothing /\ PoolIsAsStarted /\ ReadyIsTheirs /\ RotationIsWhole
=============================================================================
