-------------------------- MODULE DraftProperties --------------------------
(***************************************************************************)
(* What makes the auction draft correct.  Each property relates what one   *)
(* transaction decided on the rows it read to the rows it finally wrote    *)
(* behind its claim, or one operation's rows to another's.                 *)
(***************************************************************************)
EXTENDS DraftAuction

\* Every row but the money has its columns' types, and so has every request.
RowsTyped ==
  /\ season \in [status : {"SIGNUPS", "DRAFT", "REGULAR_SEASON"}, active : BOOLEAN]
  /\ draft \in DraftRow /\ expired \in BOOLEAN
  /\ captain \in [Team -> User]
  /\ teamOf \in [User -> Orl(Team)] /\ price \in [User -> Nat]
  /\ flagged \subseteq User /\ soldAs \in [User -> Nat]
  /\ reg \in [User -> {"ACTIVE", "REMOVED"}]
  /\ bids \subseteq BidRow /\ lots \in Seq(Lot)
  /\ tx \in [Proc -> Tx]

\* All rows have their columns' types, and no team's budget is ever negative:
\* the sale decrements it unguarded (draft-service.ts:187-190).
TypeOK == RowsTyped /\ budget \in [Team -> Nat]

-----------------------------------------------------------------------------
(* The Draft row *)

\* A running auction has exactly one clock: the bid clock while a lot is on the
\* block, the nomination clock while none is.  An auction that is paused, over
\* or not begun has none (draft-service.ts:884-892, undo against a resolver).
ClockDiscipline ==
  IF draft.status = "IN_PROGRESS"
  THEN /\ (draft.bidEndsAt # None) <=> (draft.nominatedUser # None)
       /\ (draft.nominationEndsAt # None) <=> (draft.nominatedUser = None)
  ELSE draft.bidEndsAt = None /\ draft.nominationEndsAt = None

\* The lot on the block is the one open lot of the history, on a player no team
\* has, and its price and high bidder are those of the last accepted bid.
LotIsWhole ==
  LET open == {k \in DOMAIN lots : lots[k].status = "OPEN"} IN
  IF draft.nominatedUser = None
  THEN draft.bidTeam = None /\ draft.currentBid = 0 /\ draft.currentLot = 0 /\ open = {}
  ELSE /\ open = {draft.currentLot}
       /\ lots[draft.currentLot].user = draft.nominatedUser
       /\ teamOf[draft.nominatedUser] = None
       /\ \E b \in lots[draft.currentLot].receipt :
            b.amount = draft.currentBid /\ b.team = draft.bidTeam

\* The high bidder can pay and still fill its other seats at MinBid each, on
\* the money and roster it has now, whatever they were when it bid.
HighBidderCanPay ==
  draft.nominatedUser # None =>
    /\ draft.currentBid >= MinBid
    /\ draft.currentBid <= MaxBid(budget[draft.bidTeam], Count(teamOf)[draft.bidTeam])

\* A running bid clock has the length this lot deserves: the short one exactly
\* when no other team can top the price (draft-service.ts:58-74, the deadline
\* is computed before the claim that writes it).
BidClockFitsLot ==
  draft.bidEndsAt # None => draft.clock = ClockOf(draft.currentBid, draft.bidTeam)

\* An auction runs only in the active season's Draft phase, and is paused only
\* in that phase (draft-service.ts:784-787, phase advance against undo).
AuctionOnlyInDraftPhase ==
  /\ draft.status = "IN_PROGRESS" => Live
  /\ draft.status = "PAUSED" => season.status = "DRAFT"

-----------------------------------------------------------------------------
(* What makes the clocks provable *)

\* An open request names what its operation needs.
NamesAUser == {"nominate", "undo", "withdraw", "reinstate", "sign", "release", "transfer"}
NamesATeam == {"sign", "release", "transfer"}
Honest(t) ==
  /\ t.pc # "idle" /\ (t.op \in NamesAUser \/ t.call = "nominate") => t.user \in User
  /\ t.pc # "idle" /\ t.op \in NamesATeam => t.team \in Team
  /\ t.pc = "claim" =>
       /\ t.op = "bid" => t.team \in Team /\ t.snap.nominatedUser \in User
       /\ t.op = "settle" => t.snap.nominatedUser \in User
       /\ t.op = "nominate" => t.team \in Team
       /\ t.op = "stalled" => t.snap.nominationEndsAt # None
       /\ t.op = "stalled" /\ t.plan = "open" => t.user \in User /\ t.team \in Team
       /\ t.op = "stalled" /\ t.plan = "advance" => t.team \in Team
       /\ t.op = "phase" => t.plan \in {"SIGNUPS", "DRAFT", "REGULAR_SEASON"}
RequestsHonest == \A p \in Proc : Honest(tx[p])

\* A Draft row that still has the version a transaction read is the row it read.
VersionNamesRow ==
  \A p \in Proc : tx[p].pc = "claim" /\ tx[p].snap.updatedAt = draft.updatedAt
                    => tx[p].snap = draft

\* An auction that has begun always has a team on turn.
SomeonesTurn == draft.status # "NOT_STARTED" => draft.nominatorTeam \in Team

ClockInv ==
  RowsTyped /\ RequestsHonest /\ VersionNamesRow /\ SomeonesTurn /\ ClockDiscipline

-----------------------------------------------------------------------------
(* What makes the phase provable *)

\* What a request read of the season and its auction still holds at its claim:
\* a SERIALIZABLE one is stale when it does not, and Resume, which is READ
\* COMMITTED, finds that the row it read has moved.
PhaseSeen(t) == t.pc = "claim" =>
  /\ t.op = "undo" /\ ~t.stale => Live
  /\ t.op = "start" /\ ~t.stale => season.active
  /\ t.op = "phase" /\ ~t.stale /\ t.plan # "DRAFT" =>
       draft.status \in {"NOT_STARTED", "COMPLETE"}
  /\ t.op = "resume" /\ t.snap.updatedAt = draft.updatedAt /\ draft.status = "PAUSED" => Live

PhaseInv == AuctionOnlyInDraftPhase /\ \A p \in Proc : PhaseSeen(tx[p])

-----------------------------------------------------------------------------
(* Money and rosters *)

\* No money appears or vanishes: what a team has left and what its roster cost
\* is what it started with, through sales, undos, releases and aborts.
MoneyConserved == \A t \in Team : budget[t] + Spent(t) = StartBudget[t]

\* What makes the money provable: only a rostered player has a price, nobody
\* has one before Start, and a lot on the block has a high bidder to charge.
MoneyInv ==
  /\ budget \in [Team -> Int] /\ MoneyConserved
  /\ \A u \in User : teamOf[u] = None => price[u] = 0
  /\ draft.status = "NOT_STARTED" => \A u \in User : price[u] = 0
  /\ draft.nominatedUser # None => draft.bidTeam \in Team

\* No roster outgrows the season's team size.
RosterWithinSize == \A t \in Team : Count(teamOf)[t] <= TeamSize

\* Everyone on a roster holds an active signup, but a player whom a turn that ran
\* out put up: that lot opens and sells in READ COMMITTED transactions, and a
\* withdrawal that began before it may land after the sale
\* (admin-roster.ts:270-331 against the resolvers).
PutUpByNobody(u) == soldAs[u] \in DOMAIN lots /\ lots[soldAs[u]].by = None
RosteredAreActive ==
  \A u \in User : teamOf[u] # None /\ reg[u] # "ACTIVE" => PutUpByNobody(u)

\* A priced roster row is the sale its lot records: same player, team, price.
PricesAreSales ==
  \A u \in User : price[u] > 0 =>
    /\ soldAs[u] \in DOMAIN lots
    /\ lots[soldAs[u]].status = "SOLD" /\ lots[soldAs[u]].user = u
    /\ lots[soldAs[u]].soldTeam = teamOf[u] /\ lots[soldAs[u]].soldPrice = price[u]

-----------------------------------------------------------------------------
(* Bids and receipts *)

\* The room's bid trail, every Bid row of the nominated player, holds only bids
\* made on the lot now on the block (draft-service.ts:890-893).
TrailIsCurrentLot ==
  draft.nominatedUser # None => \A b \in Trail(draft.nominatedUser) : b.lot = draft.currentLot

\* A lot's receipt holds bids of that lot alone, one per price, and the bid a
\* sold lot was sold on is the highest of them.
ReceiptTellsTheSale ==
  \A k \in DOMAIN lots :
    /\ \A b \in lots[k].receipt : b.lot = k /\ b.user = lots[k].user
    /\ \A b, c \in lots[k].receipt : b.amount = c.amount => b = c
    /\ lots[k].soldTeam # None =>
         \E b \in lots[k].receipt :
           /\ b.team = lots[k].soldTeam /\ b.amount = lots[k].soldPrice
           /\ \A c \in lots[k].receipt : c.amount <= b.amount

-----------------------------------------------------------------------------
(* What makes the lot and the rosters provable *)

\* No lot is on the block before the auction begins or when it is over.
NoLotAtRest == draft.status \in {"NOT_STARTED", "COMPLETE"} => draft.nominatedUser = None

UnderWay == draft.status \in {"IN_PROGRESS", "PAUSED"}

\* A running clock names the row it was written with.
ClockSeen(t) ==
  /\ draft.bidEndsAt # None /\ t.snap.bidEndsAt = draft.bidEndsAt => t.snap = draft
  /\ draft.nominationEndsAt # None /\ t.snap.nominationEndsAt = draft.nominationEndsAt
       => t.snap = draft

\* As long as the row a transaction read stands, what it decided is still right:
\* while an auction is under way money and rosters move only with the row.
OpensALot(t) == t.op = "nominate" \/ (t.op = "stalled" /\ t.plan = "open")
Opening(t) == IF t.op = "nominate" THEN t.amount ELSE MinBid
DecidedRight(t) == t.snap = draft =>
  /\ t.op \in {"bid", "nominate", "settle", "stalled"} => draft.status = "IN_PROGRESS"
  /\ t.op \in {"resume", "void"} => draft.status = "PAUSED"
  /\ t.op \in {"bid", "settle", "void"} => draft.nominatedUser # None
  /\ t.op \in {"nominate", "stalled"} => draft.nominatedUser = None
  /\ t.op \in {"settle", "stalled"} => expired
  /\ t.op = "bid" =>
       /\ draft.bidTeam # t.team /\ t.clock = ClockOf(t.amount, t.team)
       /\ CanBid(budget[t.team], Count(teamOf)[t.team], t.amount, draft.currentBid)
  /\ OpensALot(t) =>
       /\ t.team = draft.nominatorTeam /\ teamOf[t.user] = None
       /\ t.clock = ClockOf(Opening(t), t.team)
       /\ CanBid(budget[t.team], Count(teamOf)[t.team], Opening(t), 0)
  /\ t.op = "nominate" => MayNominate(t.team, t.by)
  /\ t.op = "stalled" /\ t.plan = "complete" =>
       Pool(teamOf) = {} \/ \A m \in Team : ~CanNominate(budget[m], Count(teamOf)[m])
  /\ t.op = "resume" /\ draft.nominatedUser # None =>
       t.clock = ClockOf(draft.currentBid, draft.bidTeam)

\* If u is on the block or on a roster, no captain and no admin put them there.
OnlyByNobody(u) ==
  /\ draft.nominatedUser = u => lots[draft.currentLot].by = None
  /\ teamOf[u] # None => PutUpByNobody(u)

\* What a SERIALIZABLE transaction read is still so, or it is stale; only what a
\* READ COMMITTED resolver did to the player of a withdrawal goes unnoticed.
StillSo(t) == ~t.stale =>
  /\ t.op \in {"reinstate", "sign", "release", "transfer"} => ~UnderWay
  /\ t.op = "sign" => reg[t.user] = "ACTIVE" /\ Count(teamOf)[t.team] < TeamSize
  /\ t.op = "withdraw" => OnlyByNobody(t.user)
  /\ t.op = "undo" => \A u \in Purchases : soldAs[u] <= t.lot

LotSeen(t) == t.pc = "claim" => ClockSeen(t) /\ DecidedRight(t) /\ StillSo(t)

LotKept     == LotIsWhole /\ HighBidderCanPay /\ BidClockFitsLot /\ NoLotAtRest
RostersKept == budget \in [Team -> Nat] /\ RosterWithinSize /\ RosteredAreActive /\ PricesAreSales
LotInv      == LotKept /\ RostersKept /\ \A p \in Proc : LotSeen(tx[p])

\* What makes the receipts provable where no player is released: every Bid row
\* is of the lot on the block, and on its receipt, or of a player who is still
\* on the roster it was sold to; no bid of the lot is above its price.
TrailInv ==
  /\ \A b \in bids :
       \/ /\ b.user = draft.nominatedUser /\ b.lot = draft.currentLot
          /\ b \in lots[draft.currentLot].receipt
       \/ teamOf[b.user] # None
  /\ draft.nominatedUser # None =>
       \A b \in lots[draft.currentLot].receipt : b.amount <= draft.currentBid
  /\ \A k \in DOMAIN lots : lots[k].status = "OPEN" => lots[k].soldTeam = None
  /\ ReceiptTellsTheSale

-----------------------------------------------------------------------------
(* What a step may never do *)

\* While a lot is on the block its price only rises, and it changes hands
\* exactly when it rises: two accepted bids never share a price, and nobody
\* outbids themselves.
PriceOnlyRises ==
  draft.currentLot # 0 /\ draft'.currentLot = draft.currentLot =>
    \/ UNCHANGED <<draft.currentBid, draft.bidTeam>>
    \/ draft'.currentBid > draft.currentBid /\ draft'.bidTeam # draft.bidTeam

\* A lot opens for the team whose turn it is, on a player no team has, by that
\* team's captain or an admin, or by nobody once the turn's clock has run out.
TurnRespected ==
  Len(lots') > Len(lots) =>
    LET new == lots'[Len(lots')] IN
    /\ new.nominator = draft.nominatorTeam /\ draft.nominatedUser = None
    /\ teamOf[new.user] = None
    /\ \/ new.by \in Admins \cup {captain[draft.nominatorTeam]}
       \/ new.by = None /\ expired

\* A player is sold, or the auction ends, only once the clock then running has
\* run out: a clock a bid or a resume restarted is never cut short.
OnlyAnExpiredClockCloses ==
  ((\E u \in User : price'[u] > price[u])
     \/ (draft.status = "IN_PROGRESS" /\ draft'.status = "COMPLETE"))
    => expired

\* The auction ends only when no team can take a turn or nobody is left to
\* nominate, on the rows of that moment.
EndsOnlyWhenDone ==
  draft.status = "IN_PROGRESS" /\ draft'.status = "COMPLETE" =>
    \/ Pool(teamOf)' = {}
    \/ \A t \in Team : ~CanNominate(budget'[t], Count(teamOf')[t])

\* The history only moves forward: a closed lot stays closed, only a sale can
\* be taken back, and a closed receipt never changes.
HistoryOnlyMovesForward ==
  \A k \in DOMAIN lots :
    /\ k \in DOMAIN lots'
    /\ lots[k].status # "OPEN" =>
         /\ lots'[k].receipt = lots[k].receipt
         /\ lots'[k].status # lots[k].status =>
              lots[k].status = "SOLD" /\ lots'[k].status \in {"UNDONE", "ABORTED"}

\* Undo takes back the newest purchase still rostered, and never takes money
\* from anyone: the other teams' budgets and rosters stay as they are.
UndoTakesTheNewest ==
  \A k \in DOMAIN lots :
    lots[k].status = "SOLD" /\ lots'[k].status = "UNDONE" =>
      /\ \A u \in Purchases : soldAs[u] <= k
      /\ \A u \in User \ {lots[k].user} : teamOf'[u] = teamOf[u]
      /\ \A t \in Team : t # lots[k].soldTeam => budget'[t] = budget[t]

-----------------------------------------------------------------------------
(* The same, in the groups the runs check together *)

\* What every state keeps of the lot on the block, its price, clock and receipt
\* and of the rows' types.
LotIsSound == TypeOK /\ LotIsWhole /\ HighBidderCanPay /\ BidClockFitsLot /\ ReceiptTellsTheSale

\* What every state keeps of the rosters and the prices paid for them.
RostersAreSound == RosterWithinSize /\ RosteredAreActive /\ PricesAreSales

\* What every step keeps of turns, prices, clocks, undos and the history.
StepIsLegal ==
  /\ PriceOnlyRises /\ TurnRespected /\ OnlyAnExpiredClockCloses
  /\ EndsOnlyWhenDone /\ HistoryOnlyMovesForward /\ UndoTakesTheNewest
StepsAreLegal == [][StepIsLegal]_vars

-----------------------------------------------------------------------------
(* What the auction promises *)

\* The rows as the promise sees them.
Promise == INSTANCE Auction WITH
  phase <- CASE draft.status = "NOT_STARTED" -> "closed"
             [] draft.status = "IN_PROGRESS" -> "running"
             [] draft.status = "PAUSED"      -> "held"
             [] draft.status = "COMPLETE"    -> "over",
  turn <- draft.nominatorTeam,
  lot <- [user |-> draft.nominatedUser, price |-> draft.currentBid, high |-> draft.bidTeam],
  money <- budget, owner <- teamOf, paid <- price,
  signups <- {u \in User : reg[u] = "ACTIVE"},
  InitOwner <- [u \in User |-> TeamCaptainedAtStart(u)]

\* Whatever the requests do between their reads and their writes, the rows move
\* as if every operation were one step judged at the moment it takes effect.
KeepsThePromise == Promise!Spec

-----------------------------------------------------------------------------
(* Progress *)

\* Clocks run out, open requests finish, and the minute worker and the room's
\* polls keep calling the resolvers.
Fairness ==
  /\ WF_vars(Expire)
  /\ \A p \in Proc : WF_vars(ReadsRows(p)) /\ WF_vars(Writes(p)) /\ SF_vars(PollCall(p))

FairSpec == Spec /\ Fairness

\* Without the admin, a started auction comes to its end whatever the captains
\* do or fail to do.
AuctionCompletes == draft.status = "IN_PROGRESS" ~> draft.status = "COMPLETE"
=============================================================================
