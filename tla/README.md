# TLA+ model of the under-5k league

The repository is a web application (Next.js, Prisma, PostgreSQL) that runs
amateur Dota 2 leagues: signups, a live auction draft, a season with playoffs,
and ad-hoc "inhouse" games that a bot hosts. There is no long-running game
server. Nearly every operation is a request that runs one or more database
transactions, and every clock is *lazy*: nothing fires when it runs out, the
next request that looks (a room poll, or a worker that is called every minute)
settles it. So the hard part of the program is what two requests do to the same
rows between one's read and its write, what is left behind when one dies half
way, and what an outside service (Discord, Dota, OpenDota) was told meanwhile.
That is what this project models.

Paths are under `src/src/lib` unless they say otherwise.

## 1. Inventory

| Component | State | Operations | What makes it correct | Module |
|---|---|---|---|---|
| **Auction rules** (`draft.ts`) | none | need, maximum bid, legal bid, bid clock, next nominator | a team can always fill its seats | `AuctionRules` |
| **Auction draft service** (`draft-service.ts`, `draft-history.ts`) | `Draft` row, `Bid`, `DraftLot`, `Team.budget`, `TeamMember` | bid, nominate, settle an expired lot, auto-nominate, pause, resume, void, undo, abort | one sale per lot, one clock at a time, money conserved, the turn respected, the auction ends | `DraftAuction` |
| **Captains and draft start** (`app/actions/admin-captains-draft.ts`) | `Team.captainId`, draft order | add, remove, change, transfer, randomize, start | one captain a team; authority follows `captainId` | `DraftAuction`, `Signups` |
| **Roster moves** (`app/actions/admin-roster.ts`) | `TeamMember`, `Registration` | withdraw, reinstate, sign, release | rosters within size; rostered players are signed up | `DraftAuction`, `Signups` |
| **Season lifecycle** (`app/actions/admin-season.ts`, `season-phase-policy.ts`) | `Season.status`, `isActive` | phase, archive, reactivate | an auction only runs in the active season's Draft phase | `DraftAuction`, `Playoffs` |
| **Draft room and inhouse room caches** (`draft-room-*.ts`, `inhouse-room-*.ts`, `room-*.ts`, `components/draft-room.tsx`) | version marker, each process's copy, parked polls, the tab | publish, load, hold, wake, show | what is shown is never older than what was acted on | `LiveRoom` |
| **League announcement outbox** (`league-announcement-outbox.ts`, `discord.ts`, `reminder-service.ts`) | outbox rows, once-only markers | claim a marker, enqueue, lease, deliver, retry | no lost, no double, no outdated post | `LeagueOutbox` |
| **Automation gate and lease** (`automation-*.ts`, `ops/cloudflare-automation-worker`) | lease row, cached due time | call, elect, run, release, tell | one pass at a time; nothing due is forgotten | `Automation` |
| **Dota lobby hosting** (`ops/dota-lobby-bot`) | the bot's claim, saved intents, Dota's lobby | create, start, release, resync, restart | one lobby at a time; a claim is given up only when Dota shows none | `LobbyBot` |
| **Inhouse queue and ready check** (`inhouse-service.ts`, `inhouse.ts`) | queue, lobbies, players, bans | join, leave, form, accept, decline, expire, cancel, ban | nobody in two places; a match starts only when all accepted; nobody is lost | `InhouseQueue` |
| **Inhouse captain vote and draft** (same) | votes, turn, teams | vote, resolve, pick, auto-pick | an alternating snake draft, one pick per turn | `InhouseDraft` |
| **Inhouse results and their posts** (same, `discord.ts`) | match id, Elo stamps, outbox | find, record, stamp, void, scrap, post | one match one result, Elo belongs to it, posts in order | `InhouseResults` |
| **Inhouse duels** (`inhouse-duel-service.ts`) | duel row, queue | pair, accept, host, read, report, give up | as above, for two | `Duels` |
| **Inhouse bans** (`inhouse-ban*.ts`) | ban rows, a Discord role | ban, lift, settle, sweep | nobody banned is queued; an ended ban is settled | `InhouseBans` |
| **Planned inhouse nights** (`inhouse-night*.ts`) | one Setting row, a Discord event, markers | save, move, clear, start post | the night's event is the one that exists | `InhouseNights` |
| **Rescheduling and check-in** (`reschedule*.ts`, `checkin*.ts`) | proposals, answers, kickoff | propose, answer, lock, decline, retime, check in | a match moves once, to a time everyone of now agreed to | `Reschedule` |
| **Stand-ins** (`standin*.ts`) | bookings, requests | book, ask, agree, cancel | one cover a seat, eligible and free that night | `Standins` |
| **Match-night poll, availability, roll call** (`match-night*.ts`, `roll-call*.ts`) | polls, ballots, cards | open, vote, close, announce, answer | a closed poll stays closed; an answer is about the night it was given for | `MatchNight` |
| **Registration** (`app/actions/registration.ts`) | `Registration`, medals | sign up, edit, confirm, leave, admit, correct | caps, no way back into a live pool, rulings stand | `Signups` |
| **Dota account links and medals** (`users.ts`, `dota-account-service.ts`) | account overrides, medals | login, relink, retire, refresh, bootstrap | one owner an account; a medal is its owner's | `DotaAccounts` |
| **Result import and sync** (`match-import.ts`, `result-sync-service.ts`) | games, series score | scan, import, report, rule, reopen, remove | importing twice changes nothing; one session per series | `ResultImport`, `SeriesRules` |
| **Playoffs and tiebreakers** (`playoff*.ts`) | bracket rows, markers, champion | start, reset, withdraw, advance, crown | winners advance once; the crown falls with its final | `Playoffs` |
| **Scrims** (`scrim*.ts`) | scrims, guests, games | post, claim, cancel, record, remove | one team one place; a game has one home | `Scrims` |
| Schedule and standings | none | round robin, table sort | pure algorithms | not yet |
| Inhouse ratings | none | a replay of the results | pure | not yet |
| Lobby relay, external scheduler, health rollup | counters | forward, alert | transport and reads; in the model they are the senders of what they forward | no |
| Authentication and Discord linking; draft presence and scouting; fantasy, pick'em and honors; pages; self-hosting, backups and migrations | sessions, derived data, scripts | | I/O, rendering, read models or operations | no |

**How they interact.** Only through rows and through the outside services. A
bid first settles an expired lot, then reads the Draft row, the season, the
teams, then claims the Draft row with `updateMany({ where: <what it read> })`.
An administrator's page shows rows that may be minutes old and sends back what
it showed. A sale writes budgets and rosters that signings, releases and captain
transfers write too. The season's phase and `isActive` gate everything. A result,
typed or imported, advances the bracket, may close a reschedule, ends a stand-in's
cover and queues a post. Every domain write tells the automation gate to forget its snapshot and
the rooms that their version moved; both are best-effort, so both have a second way to find out.

**Isolation.** PostgreSQL runs some transactions at SERIALIZABLE, where they
abort (P2034) on a dangerous conflict, and the others at READ COMMITTED, where
nothing protects them but the WHERE clause of the claim. Which is which matters
more than anything else here and each module's first comment says it: in the auction `bid`, `settle`,
`stalled`, `pause` and `resume` are READ COMMITTED; in the queue all but `joinQueue`,
`formOneLobby` and `banInhousePlayer` are.

## 2. The modules

| Modules | What they are |
|---|---|
| `AuctionRules`, `DraftRows`, `DraftAuction` | the auction: rules; rows, requests and isolation; operations and `Spec` |
| `Auction` | the abstract auction: every operation one atomic step judged on the rows of that moment |
| `DraftProperties` | its invariants, action properties, the refinement `KeepsThePromise`, fairness |
| `InhouseQueue`, `InhouseProperties` | the queue statement by statement, and what it promises |
| `Inhouse` | the abstract queue: where a player is and whether a match goes on |
| `InhouseDraft`, `SnakeDraft` | the captain vote and draft; the snake draft its players see |
| `InhouseResults`, `Duels`, `InhouseBans`, `InhouseNights` | one component each |
| `LeagueOutbox`, `OutboxProperties`, `LiveRoom`, `Automation`, `LobbyBot` | the machinery |
| `Reschedule`, `Standins`, `MatchNight`, `Signups`, `DotaAccounts` | the season around its matches |
| `SeriesRules`, `SeriesNights`, `ResultImport` | which games make a series, that rule asked of every evening, and the importer that applies it |
| `Playoffs`, `Knockout`, `Scrims` | the bracket; the knockout cup it implements; scrims |
| `MCDraft`, `MCInhouse`, `MCMachinery`, `MCSeason`, `MCResults`, `MCInTheEnd` | the instances TLC checks |
| `SumProofs`, `DraftProofs`, `LotProofs`, `QueueProofs`, `TurnProofs`, `ResultsProofs`, `LeaseProofs`, `OutboxProofs` | the proofs (section 4) |

`AuctionRules` <- `DraftRows` <- `DraftAuction` <- `DraftProperties` <- `MCDraft` by EXTENDS;
`InhouseQueue` <- `InhouseProperties` <- `MCInhouse`; `InhouseResults` <- `MCResults`;
`OutboxProperties` <- `MCSeason`; `Automation` <- `MCInTheEnd`. `DraftProperties` INSTANTIATES `Auction`, `InhouseProperties`
`Inhouse`, `InhouseDraft` `SnakeDraft` and `Playoffs` `Knockout`, each with its refinement mapping.
Definitions whose comment begins with "Mutant" are broken variants of their neighbour: they
are used by no operation and only measure that a property notices the bug.

### The auction: state

`draft` is the `Draft` row. `captain`, `budget` are columns of `Team`; `teamOf`,
`price`, `flagged` (isCaptain) and `soldAs` are `TeamMember` (`soldAs` is the
lot a membership came from, which stands for the row's identity when Undo names
it); `reg` is `Registration`, `bids` the `Bid` table, `lots` the `DraftLot` history in
sequence order, `season` the two columns that gate everything. `expired` says
whether the one clock that is running has passed. `tx[p]` is the request that
process `p` is handling: the call, the operation it is at, its arguments, the
row its page showed (`view`), the row its transaction read (`snap`) and what
it decided.

### The auction: actions

An operation X of the code has up to four parts.

* `XCall`: a request arrives, with what its page showed at that moment.
* `XRead`: the transaction's reads and early returns, judged on one state;
  it remembers the Draft row in `snap`.
* `XClaim`: the WHERE clause of its first conditional write, judged on a *later* state.
* `XLand`: everything it writes, in one step, when the claim matches. When it
  does not match (`count === 0`, P2002, P2034) the step is `Refused`.

`NextOp` chains transactions as the code does: a bid, a nomination and a pause
first let the resolvers run. `Expire` lets time pass.

| Code | Definitions |
|---|---|
| `placeBid` | `BidCall`, `BidRead`, `BidClaim`, `BidLand` |
| `nominatePlayer` | `NominateCall`, `NominateRead`, `NominateClaim`, `NominateLand`, `OpenLot` |
| `resolveStalledNomination` | `StalledRead`, `StalledClaim`, `StalledOpens`, `StalledAdvances`, `StalledCompletes` |
| `resolveExpiredNomination` | `SettleRead`, `SettleClaim`, `SettleSells`, `SettleVoids`, `Rotate` |
| `pauseDraft`, `resumeDraft`, `voidCurrentLot`, `undoLastSale`, `abortDraft` | `PauseX`, `ResumeX`, `VoidX`, `UndoX`, `AbortX` |
| `startDraft`, `transferCaptaincy` | `StartX`, `TransferX` |
| `setSeasonPhase`, archive, reactivate | `PhaseX`, `ArchiveX`, `ReactivateX`, `Park` |
| `withdrawSignup`, `reinstateSignup`, `signFreeAgent`, `releasePlayer` | `WithdrawX`, `ReinstateX`, `SignX`, `ReleaseX` |

### The auction: abstractions

* **Timestamps.** A timestamp is a member of `Stamp`. A write draws one that no
  row, transaction or page still holds, so stamps are recycled and the state space is
  finite; two are equal exactly when one write produced both. The real column
  has millisecond resolution; two writes within one millisecond are not
  modelled. `StampAssumption` makes sure one is always free.
* **Serializable.** Two SERIALIZABLE transactions that overlap and both commit
  must be serializable, and a write of a row that changed under one aborts it.
  The model aborts the later of *any* two overlapping ones (`Conflicts`,
  `stale`). What PostgreSQL would let both commit it would also have let run one after the other,
  and the model contains those runs.
* **READ COMMITTED.** The reads of one transaction are one step, except that
  reads made after the claim are folded into the claim's step.
* **Time.** `Expire` waits for nobody: a clock may run out under any open transaction,
  one that began under an earlier clock included. (A transaction may last 5 s, Prisma's limit, and the
  shortest clock is 3 s.)
* **Data.** Players are a set; roles, names, notes and MMR caps are left out. MMR only
  orders the automatic nomination. A registration is ACTIVE as a player, or REMOVED: the two ways of leaving
  the pool (withdrawn, switched to stand-in) are judged alike by every transaction here.
  `StartBudget` is what `mmrWeightedBudgets` returns. `DraftRun` rows, tenure rows,
  stand-in requests and log entries are written along with these and read by none of them.
* **Not played.** The season's schedule exists and no match has been played,
  so the phase policy's branches about results do not arise.
* **Pages.** The archive and reactivate forms also send the season's
  `updatedAt`; the model lets them through without it, so it allows more.

### The other components: how each is abstracted

* `InhouseQueue`. A transaction is a sequence of statements, one step each; its
  writes appear together at its commit, an UPDATE of a row waits for the
  transaction that wrote it (the locks are state). A queue place is a ticket number, so that "keeps
  their place" can be said. The captain vote and the draft are one state, READY and IN_PROGRESS another;
  a ban does not end. `Overlaps` says whether an accept may fall between a failing
  check's re-read and its commit (section 3, "Disagreements").
* `InhouseDraft`. One lobby. Players are numbered in the order the auto-pick
  ranks them; which two a vote elects is left open. `Late` are the players who had not voted when the behaviour begins.
* `InhouseResults`. The lock on the lobby's row makes recording, voiding and the
  reconciler one step each; a delivery pass is one step per statement or call. Which Dota match a scan
  finds is left open; `Voids` voids any result, whoever is sending it.
* `Duels`. Ages 0 to 3 stand for the clocks; `Panel` are the handlers that read the bot
  for someone looking on, `Hosts` says whether the bot can be asked for a lobby. `Grace` is
  `START_GRACE_SECONDS`: how long before its pairing a 1v1's game may have started.
* `InhouseBans`. One player: bans of different players share nothing. A decision, the call to Discord and the
  stamp after it are steps of their own, which anything may come between; a call may be refused, its answer lost, and
  the player may link another account or none.
* `InhouseNights`. Times are integers. `SwiftPrunes` says that the pruning of the last night's "I'm in" rows
  follows the save at once. The night's note is left out but for the fact that a save may change it.
* `LeagueOutbox`. Rows are kept in the order they committed; a lease is a token; `past` says which clocks
  have passed. Everything a pass does is a step per statement. Its `Overlaps` says whether a claim's INSERT and
  its re-read may both fall inside another transaction's life.
* `LiveRoom`. The room's rows are the number of commits they show, a version is such a number. Several
  processes each have a copy; a tab polls one of them at a time.
* `Automation`. Time is an integer that runs while any process stalls. A piece of work is a deadline, and a pass
  does all that is due or dies. `LEASE`, `BUDGET`, `HORIZON` keep the order of the real constants.
* `LobbyBot`. Dota's Game Coordinator and the players are external: at most one lobby for the account,
  commands acted on in order (`wire`, at most `MaxWire`), snapshots back (`news`); a drop loses both. `Omits`:
  a welcome may leave an up-to-date lobby out; `Quiet`: an update may stay unsent; `Presses`: somebody asks for a Release.
* `Reschedule`. Two-step SERIALIZABLE transactions; a commit is refused when *anything* the transaction
  read was written since, more often than the database would. Season phase and match status are one flag.
* `Standins`, `Scrims`, `Playoffs`. A signing names its team at once and leaves cover in place while seats stay open. A SERIALIZABLE transaction is one step; reads made before it are a step
  of their own. The playoffs take the final table as an input; `Known` is the number of roster accounts a game must show.
* `ResultImport`. As those; that a transaction may lose is `Conflict`. Games are members of a small set with start hours and
  winners; `Ordered`: the provider lists a series' earlier games first; `Ticketed`: whether the league has a ticket.
* `MatchNight`, `Signups`. A request reads its clock, or its rows, when it arrives and writes in a later step.
  `Signups` keeps one version counter for the season and draft rows it compares.
* `DotaAccounts`. A login is READ COMMITTED, a step per statement, with row locks until it ends.

## 3. What is checked

`MCDraft` has six runs, `MCSeason` two and each other MC module one. The five that cover many
components have a variable `part`: a behaviour is about one part and the others stand still, which
is sound because the parts share no row, and each part is an instance whose constants aim at some of the
hazards. So a run's properties are conjunctions such as `DuelsAreSound`,
`part = "x" => X!DuelsAreSound` for each instance, and the module of the component
lists what is in it. An MC module EXTENDS the module whose properties a theorem states (section 4),
so that the run and the theorem speak of the same definition.

| Run | Instances | Question |
|---|---|---|
| `bidding` | 2 free players, 3 seats, $4 and $3 for the teams, bids of $2 and $3, two requests | Do bids, nominations and resolvers keep lot, price, clock and receipt together, and is every outcome one an atomic auction has? |
| `corrections` | five workloads: nominations of captains and an admin; pause, resume, void against bids; pause, void, undo against turns and against bids; withdrawals against the resolvers and undo | Is there always exactly one clock, does the room show the current lot's bids, does a step ever do what it may not? |
| `rosters` | two free players and teams of two, so that one signing too many overfills a team; six workloads: withdraw, reinstate, release, sign; withdraw and undo around late sales; release, sign, undo, phase; transfer, undo, abort; pause, abort, phase; archive, reactivate, pause, undo, phase | Is money conserved, are rosters sound, does an auction only run in its phase? |
| `reopened` | one request at a time, 3 free players, 4 lots, release, transfer, undo | Does an auction that was reopened for a team that cannot pay advance the turn as promised? |
| `auction_ends` | `FairSpec`: bids, nominations, polls | Does a started auction end? |
| `inhouse` | `check` a lobby of two, two requests, one lobby; `games` two games at once; `crossing` accepts inside a failing check's transaction; `draft` six players, three picks a side; `pairing`, `matches`, `hosting` two or three duellists with a worker, with and without the bot and its panel; `events`, `lists`, `starts` a planned night that two admins save, that players join, that the worker starts | Is everyone in one place and nobody lost, and do the queue and the draft implement what players see? |
| `machinery` | `slow`, `nights`, `claims` the outbox with slow senders, a moving night, overlapping transactions; `posts` inhouse posts by two senders; `copies`, `fleet`, `acting` a room of one process, of two, and with an acting tab; `lease`, `gate`, `gates` two runners, one gate with every kind of call, two gates; `lobby`, `again`, `omits` the bot with a drop or restart, two lobbies in a row, an incomplete welcome | Is a post sent once and in order, is a room never shown backwards, is there one pass at a time, one lobby at a time? |
| `results` | `inhouse` games recorded, voided and rated; `rulings`, `meetings`, `series` one fixture under rulings, two meetings with a scrim between, a Bo3 with a fourth game; `rules` every evening of up to five games; `bracket`, `eight`, `forms` a racing bracket of four, one of eight, rival forms; `booking`, `scores`, `pairs` scrims | Does importing twice change nothing, does the right session become the series, does the bracket implement a cup? |
| `season` | `channel` the outbox with crashing senders and lost answers; `answers`, `proposals`, `moves`, `checkins`; `booking`, `asked`, `nights`, `short`, `refill`, `reopened`; `polls`, `votes`, `rollcall`; `pool`, `admission`, `rosters`, `captains`; `links`, `owner`, `first` | Do requests that read, wait and write across each other keep posts, proposals, cover, polls, signups and accounts sound? |
| `in_the_end` | `gate` one runner, `room` two processes and a tab, `cup` four teams, `pair` a 1v1 with a worker, a player's page and the bot, `ban` a ban with a refused call, a lost answer and a new account, `bans` two bans and a lost answer; each with a fault | Is due work done, a commit shown, a bracket finished, an ended ban settled? Does a dead pass let go of the lease and a 1v1 of its players? |
| `stale_trail` | as `reopened` | *(violated)* Does the room's bid trail only show the lot on the block? |
| `revived` | part `rosters` of `season` | *(violated)* Does the pool of a live auction only shrink? |

**Bounds.** Two requests in flight nearly everywhere: each race that the code's comments describe has two
parties, and a chained request (settle, then bid) counts as one. Where a third matters it is there: an admin
or a worker beside two players, two senders beside a producer. `MaxLots` is the horizon of an auction in lots,
`Amount` what captains may type; two lots are enough for a lot to close and another to open under a stale
request, and with the `reopened` instance's four a whole auction ends, is corrected and goes on. In `bidding`
the money is uneven on purpose: after an opening at $1 either team has two raises to race with, and $3
is within the one team's reserve and beyond the other's. In the other parts the bounds
(`MaxTickets`, `MaxDuels`, `MaxFaults`, `MaxRevision`, ...) are the smallest at which
the thing can happen *again* after it was undone: a second ban after a lift, a second kickoff after a move,
a second pass after a crash. `LEASE`, `HORIZON` and the ages are as small as keeps their order.
Requests, and players that nothing tells apart, are symmetry sets where no property is temporal over them.

**Deadlock** checking is on for the draft, where a request can always be made. In the other
runs a bounded part really stops when its tickets, saves or hours are used up.

**The refinements.** `KeepsThePromise` (three runs): the auction implements `Auction`, in which a bid,
a sale, an undo or an abort happens at once and is judged on the state it changes. It is the strongest
statement here, since it says that no interleaving of reads and claims has an effect that an atomic program would not
have had. `KeepsInhouse`: the queue implements `Inhouse`, in which an accept counts from the moment
it was answered. `IsSnake` and `IsKnockout` likewise.

**Fairness.** `FairSpec` (`auction_ends`) assumes weak fairness of `Expire` (clocks run), of each
process's reads and writes (a transaction ends) and strong fairness of each
process's `PollCall`: the minute worker and every open room call the resolvers
however busy the captains are. Nothing is assumed of captains or of the
admin, and admin calls are not enabled in that run: an admin who pauses for ever stops the auction.
`in_the_end` assumes that the scheduler keeps calling, started calls go on and signals are sent, that timers
fire, the database answers and a tab polls again (`RoomFairness`), that players play what is
scheduled and the worker runs an advance on every pass, that a 1v1's clocks pass and the retry time of a role
comes, and that the minute worker comes to every 1v1 and to the bans. The steps of different parts share
the conditions `Passes`, `Called`, `GoesOn` and `Ends`: a behaviour is about one part, so each names one step of it. Only giving up
a 1v1 is strongly fair (`GivesUp`), because the worker's pass tries every step of it, and another step of the same
pass may have it for a while. Nobody has to accept, play, answer or press anything, and no fault is required to
stop; each instance has a bounded number of them.

### Disagreements with the code's comments

Two are runs, whose counterexample TLC prints.

* `stale_trail`. `Bid` rows are keyed by draft and player. Undo, void and abort delete
  them for the reason `draft-service.ts:890-893` gives; `releasePlayer`
  (`app/actions/admin-roster.ts:1413`) does not. A player is
  sold, the auction ends, the player is released, another sale is undone, which
  reopens the auction, and the released player is nominated again: the room
  shows the first lot's bids as the second's.
* `revived`. A signup save that read its player ACTIVE, and lands after they left in another tab,
  writes them ACTIVE again while the auction is live (`app/actions/registration.ts:464`), the door that
  `registration.ts:447` says is closed.

The others were met while modelling. Each is stated in its module by the property named, which is
kept out of the runs' conjunctions (or holds under the named constant only).

| Where | What | Property |
|---|---|---|
| `reminder-service.ts:478` | a claim and its re-read inside another transaction's life announce the old night | `NeverAnOldNight`; fails with `LeagueOutbox`'s `Overlaps` |
| `inhouse-service.ts:447` | an accept between a failing check's re-read and its commit is answered ok and dropped | `AcceptIsKept`; fails with `InhouseQueue`'s `Overlaps` (part `crossing`). What is kept then is `AnsweredInTimeIsKept` |
| `app/actions/admin-roster.ts:288-295` | "let a ROSTERED player withdraw" is closed, the comment says, by pairing two SERIALIZABLE transactions; but the sale is READ COMMITTED. A withdrawal that read before a turn ran out commits after the automatically opened lot was sold | `PutUpByNobody` in `RosteredAreActive` and, in `Auction`, `Signup`'s last guard say how far the pool's rule holds |
| `inhouse-duel.ts:480`, `constants.ts:691-693` | the grace is meant for two clocks' skew; a game that was launched for a 1v1 and starts in the last two minutes before the rematch of the same two is paired can be recorded as the rematch's result | `ResultsAreTheirOwn` holds up to `Grace` |
| `app/actions/admin-roster.ts:906-910` | a signing that leaves the roster short leaves its cover too, so that a side has more than a full team until its captain removes one (the code tells the admin so); and so may a match that was reopened | `OnlyRefillsOverfill` says when; "no side fields more than a full team" is false |
| `components/draft-room.tsx:1115` | an action's older reply is painted over a tick's newer one and then held | `HeldTabShowsItsVersion` |
| `ops/dota-lobby-bot/controller.mjs:1532` | a claim is freed although an incomplete welcome hid its lobby | `ClaimsAreNotGuessed`; fails with `LobbyBot`'s `Omits` |
| `ops/dota-lobby-bot/controller.mjs:1526` | a releasing job whose Leave was lost, with a server that never comes, is left by no clock | `BotComesFree`; fails with `Quiet` |
| `match-import.ts:1634` | a bigger session of an earlier meeting is chosen for the next one for ever | `SeriesLands` |
| `match-import.ts:1685` | a warm-up that is the only session listed becomes game one | `OneSession` |
| `match-import.ts:468` | a game for fun close after a Bo2 splits the session | `BonusNeverPicked` |
| `app/actions/admin-schedule-results.ts:1707` | a reopened match revives the cover of a now rostered player | `CoverIsEligible`; the part `reopened` checks only what still holds |
| `scrim-result-service.ts:639` | a game removed while a scan fetches is recorded again | `RemovedStaysOut` |
| `match-night-poll-service.ts:292` | a ballot with an earlier clock lands after a close | `CloseRefusesBallots` |
| `app/actions/registration.ts:681` | a first submit that lost overwrites an admin's correction | `RulingStands`; holds with one request (part `pool`) |
| `users.ts:101` | a login beside a refresh of the same account leaves it two owners until the next login | `OneOwner`; fails with two owners (part `links`) |
| `dota-account-service.ts:19` | a medal made automatic between two statements survives the account | `MedalIsTheirs`; fails with a third request and an account that only a legacy login knows |
| `inhouse-ban-service.ts:287`, `:409`, `inhouse-ban.ts:286`, `:287` | a decision or a stamp that is overtaken, an answer that is lost or an account that is unlinked leaves the role on when every ban is settled, or a banned player without it | `RoleComesOff`, `BannedWearIt`; what holds is `BansSettle` |
| `inhouse-night-service.ts:226` | two saves' updates of the event overtake each other: it tells the older time | `EventTellsTheTime` |

**Stated, not in a run**: the liveness properties `WaitersMeet`, `QueueDrains`, `NightIsAnnounced`, `DraftEnds`,
`ResultIsFinished`, `VoidIsCorrected`, `NewsWakesHolds`, `FreeUnlessStalled` and `CheckEnds`, each with
the fairness it needs, were checked on instances of their own while the modules were written. A run has room for few of them: they stand beside
the module they are about.

**Mutants.** Each property of each passing run names one mutation of a mapped definition that
TLC finds violating it: a dropped conjunct of a claim, a missing
SERIALIZABLE, an off-by-one in a rule, a reset that is forgotten.

## 4. What is proved

TLAPS checks 28 theorems and the lemmas under them, in eight modules, each for *every* value of the constants: any number of teams,
players, requests, passes, lots, posts, any horizon. Proofs about the auction rest on the named `ASSUME`s of `AuctionRules` and
`DraftRows`, which TLC evaluates in every draft run. In the other proof modules a theorem begins
`ASSUME XAssumption PROVE ...`; the MC modules `ASSUME` the same formula of each of their instances. Where a
theorem has a further hypothesis (`"release" \notin Calls`, `~Overlaps`, a finite
`Player`) it is because the claim is false without it, or, for the finite set, because only then is it about a league; section 3 has the counterexamples.
The code does not justify the first two. A theorem under one of them says what is left of a promise
once the named disagreement is set aside, and no more.

| Module | Theorems | What they say |
|---|---|---|
| `DraftProofs` | `ClockInvariant`, `ClocksAreDisciplined`, `RowsAreTyped`, `AuctionStaysInDraftPhase`, `MoneyIsConserved` | one clock at a time, types, the season's phase, money |
| `LotProofs` | `LotInvariant`, `RostersStaySound`, `LotStaysPayable`, `StepsStayLegal`, `TrailInvariant`, `TrailStaysCurrent`, `LotStaysSound` | the lot, the rosters, every step of the auction; without releases the bid trail and the receipts |
| `QueueProofs` | `QueueInvariant`, `QueueStaysSound` | everyone in one place, distinct slots, no banned player queued |
| `TurnProofs` | `GamesGoOnComplete`, `AnswersInTimeAreKept`, `TurnsInvariant`, `QueueKeepsInhouse` | no game starts incomplete; no accept answered before a failing check re-reads is lost; with `~Overlaps` the queue implements `Inhouse` |
| `ResultsProofs` | `ResultsInvariant`, `ResultsStaySound`, `ResultStepsHold` | one result a match, Elo of that result, posts in order |
| `LeaseProofs` | `LeaseInvariant`, `LeaseStaysSound`, `GateStepsHold` | one pass at a time, failures counted once, no work is slept through that the gate was told of in time |
| `OutboxProofs` | `OutboxInvariant`, `OutboxStaysSound`, `OutboxStepsHold`, `WithdrawnStaysWithdrawn` | duplicates are paid for by faults, outcomes recorded, order kept, one row a night; a post taken back is not sent |
| `SumProofs` | (lemmas) | sums, minima and subsets that the others cite |

In all of them the property itself is not inductive. The argument has the same shape each time: say what every open
request *relies on* of what it read, show that a step of another request leaves that standing or makes the first one's claim
fail, and the property follows at the moment of the claim.

### The auction's clocks, phase and money (`DraftProofs`)

`ClockInv` adds to `ClockDiscipline`

* `RowsTyped`, the types;
* `RequestsHonest`: a request that has decided names what its operation needs (the
  resolver of a stalled turn read a clock that was running, a bid read a player);
* `VersionNamesRow`: an open transaction that still sees the row's `updatedAt` has read exactly that row.
  Resume needs it: it decides on `snap` which clock to arm and claims only on the version;
* `SomeonesTurn`: an auction that has begun has a team on turn, so that the
  rotation it is rotated by is defined.

There is one lemma per kind of step: a request arrives (`Arrival`), reads
(`Reading`), is refused or lands (`Commits`, one case per operation), on top of lemmas
about what a commit does to the other open requests (`LandedRequests`) and what
a written row looks like (`WrittenRow`, `RowAndRows`). `NextNominatorTyped` needs that a nonempty set of
places has a first one (`LeastExists`).

`PhaseInv` says of an open request what its claim still relies on of the season (`PhaseSeen`). Undo, Start and the phase
buttons are SERIALIZABLE, so a commit that changes what they read makes them stale. Resume is not, and nothing in its
claim names the season; it is safe because archiving a season whose auction is paused writes the Draft row
too (`Park`), so that the version Resume claims on has moved. Without that write the archive case of the proof is false.

`MoneyInv` adds that only a rostered player has a price (or a signing would charge a team for an old
sale), that nobody has one before Start (which sets every budget anew) and
that a lot on the block has a high bidder to charge. An operation moves nothing
(`MoneyStays`) or one player and that player's price (`OneMoves`), or it is Start or an
abort. A sum over players is characterised without induction: it counts the
*coins* `<<u, i>>` with `i` in `1..price[u]` (`SumIsCount`), and the library's
facts about cardinality do the rest (`SumAdd`, `SumSame`, `SumZero`).

### The lot and the rosters (`LotProofs`)

`LotInv` is `LotKept` (`LotIsWhole`, `HighBidderCanPay`, `BidClockFitsLot`, no lot outside an auction),
`RostersKept` (budgets never negative, rosters within size, rostered players active or put up by a turn that ran out, prices
are sales) and, of every open transaction, `LotSeen`: what it decided from the rows it read is right of the rows *as they are*, as
long as the row it read stands (`DecidedRight`), or as long as the clock it read does (`ClockSeen`: since a clock may run out under
any transaction, a resolver's claim on the clock's value has to name one row). That is the reason `placeBid` may check the bidder's money before it claims the Draft row: money
and rosters move only with that row while an auction is under way. Where a claim compares less than the version
(Undo, the roster moves) the case needs that the transaction is SERIALIZABLE (`StillSo`). It protects a
withdrawal from captains and admins and not from the two resolvers, which are READ COMMITTED: the player of a withdrawal
that lands late can have been put up and sold by nobody but them (`OnlyByNobody`), which is why `RosteredAreActive`
has its exception. The lemmas go operation by operation, from
what it writes (`BidEffect`, `OpenEffect`, `PassEffect`, `RotateEffect`) to what it keeps (`BidKeeps`, `SaleKeeps`, ...),
and to every other request (`OthersOnNewRow`, `OthersOnOldRow`). `StepsStayLegal` comes from the same lemmas.

`TrailInv` says that every `Bid` row is of the lot on the block or of a player some team has, and that a sold lot's
receipt ends in the bid that won it. It needs `"release" \notin Calls`: a release takes the player off the roster and
leaves the Bid rows, which is what `stale_trail` shows. Under that hypothesis `LotStaysSound` is the whole of the
`bidding` run's invariant.

### The queue (`QueueProofs`, `TurnProofs`)

`QueueInv` says who is in which game, and what an open accept, decline, resolver, cancel or ban may rely on of
what it read and of the rows it has locked; `QueueStaysSound` needs nothing about `Overlaps`.
Neither does `AnswersInTimeAreKept`: a failing check re-reads who accepted under the lobby's lock, no accept that was answered is
undone before it, and so who was answered by then is among those it puts back (`PutsBack`). `TurnsInv` is for `~Overlaps`: what an
open accept is about to write is new and its check still on, a player has one writer at a time, whoever is in was
told so, and a failing check puts back everyone who keeps their place.

`QueueKeepsInhouse` is a refinement. `Placed` and `WhereIs` give the abstract place of every player, and there
is one lemma per group of steps (`QueuesKeepPace`, `FormKeepsPace`, `AcceptKeepsPace`, `ResolverKeepsPace`, ...)
that it is a step of `Inhouse` or none. Forming a game needs that a slot is free for it, a pigeonhole argument
(`RoomForOne`).

### Results (`ResultsProofs`)

`ResultsInv`: a send token exactly while a row is being sent, one Dota match per lobby, Elo of the stored result, leases that are held,
posts that come in order (what a pass loaded was queued, a correction waits for what it corrects) and an account of how
often a post was accepted.

### The lease and its gate (`LeaseProofs`)

The hard part is the cached snapshot: it is of a row that other passes may have taken, finished or recovered since.
What makes it safe to sleep on is `Outlasts`: each of these leaves the row with an excuse to sleep at least as long, since a lease
only ends in a finish and a finish is good for a horizon, which is longer than a lease. So a snapshot, a load that is
about to store one and the row it was read from stay backed (`Backed`, `Fits`), and `HoldersKeepTheirRow`,
`EveryPassIsCounted` and `HealthyIsBacked` follow. A call is turned away only under a standing lease or within a horizon of a
finished pass, and only if no due work had been told in time (`GateStepsHold`).

### The league channel's queue (`OutboxProofs`)

Of each row the invariant is an account, `Sound`: what Discord has heard, plus the passes that may still make
it hear the row, plus one if the row may be leased again, is at most one plus the faults the row met (`Afford`);
and of a row no fault met, who leased it has it, and its status says what Discord heard (`Tells`). `InLine` says that a
pass aims only at a row before which nothing waits, so that `InCreationOrder` holds even when a lease
runs out under its sender. Of each night it is the history of its marker (`NightInv`): event ids are drawn once, a
marker names the one event its posts name, so a night has one event and an event one row. Hence `WithdrawnStaysWithdrawn`: nothing
makes a marker name an event again that it once stopped naming, and the source check before a post finds it gone. That needs
no condition. It does not say that an old night is never sent: a claim that is inserted and
re-read while an admin's transaction is under way is not among the markers that transaction takes back (section 3). `NeverSendsAnOldNight`, which is in the module, shows that this and a pass that
outlives its lease are the only ways; it assumes both away and is no result about the code as it is.

## 5. Only model-checked, and why

* **Liveness.** `AuctionCompletes`, `WorkIsDone` and the liveness properties that are only stated: fairness and ENABLED are out of the prover's reach.
* **Recursive data.** What a definition by induction computes for every input: nothing here is claimed of it beyond the bounds TLC covers.
  The choice of a series out of an evening (`SeriesIsSound`) is such a function of all its inputs; TLC tries every evening of up to five games.
* **The auction's refinement.** `KeepsThePromise` is what `LotInv` prepares: `LotSeen` is the reason each claim is a step of
  `Auction`. The step simulation itself is not proved.
* **The draft's and the bracket's refinements**, `IsSnake` and `IsKnockout`.
* **The other components**: the properties of rooms, bot, duels, bans, planned nights, the captains' draft, reschedules, stand-ins, polls, signups,
  accounts, imports, brackets and scrims (`RoomIsSound`, `BotIsSound`, `DuelsAreSound`, ...), the trail and the receipts where players are released, and
  `MachinerySteps`, `SeasonSteps`, `InhouseSteps`, `ResultSteps` for those parts.

A property of a run that a theorem states is the same definition: `MCDraft`, `MCInhouse`, `MCResults` and
`MCSeason` extend the module that it is in. (`LeaseIsSound` and the step rules are parts of what `machinery` and the
others check of each instance.) An MC module that extends a module has no instance of it
with other values for the constants that its constant definitions mention, since TLC evaluates those once.

## 6. Not modelled

* *Schedule and standings, inhouse ratings*: pure functions of rows, a round robin, a sort and a replay. They would be operators
  checked against reference definitions.
* *Lobby relay, external scheduler, health rollup*: transport and reads; the models have them as the senders of what they forward.
* *Authentication and Discord linking, draft presence and scouting, fantasy, pick'em and honors*: sessions, heartbeats and
  read models on which no rule of the modelled components depends.
* *Pages and components*: rendering, except for the order of requests and replies of a room's tab (`LiveRoom`).
* *Self-hosting, backups, migrations*: operations scripts around the database.
* Parts of modelled components: `mmrWeightedBudgets` (its result is `StartBudget`), `DraftRun` rows, promotion and whole-team withdrawal, who wakes at
  which clock of a room, scan back-offs and provider budgets, invitations and chat of the lobby bot, the week mover, the text of every post. `PROJECT.json` says which, component by component.

Next worth proving: the step simulation of `Auction` on top of `LotInv`; `OneLobbyAtATime` of `LobbyBot`; `IsSnake`; the
proposals of `Reschedule`; the event of `InhouseNights`. Next worth modelling: the standings and the playoffs' seeding from them.
