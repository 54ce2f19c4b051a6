---------------------------- MODULE DraftAuction ----------------------------
(***************************************************************************)
(* The live auction draft, one request at a time: bids, nominations, the   *)
(* two lazy resolvers, the admin's corrections and the season and roster   *)
(* operations that touch the same rows.  An operation X has its request    *)
(* XCall, its first half XRead, the WHERE clause of its claim XClaim and   *)
(* its second half XLand.                                                  *)
(***************************************************************************)
EXTENDS DraftRows

-----------------------------------------------------------------------------
(* Bidding *)

TeamCaptainedBy(u) ==
  IF \E t \in Team : captain[t] = u THEN CHOOSE t \in Team : captain[t] = u ELSE None
BidRecord(k, u, t, a) == [user |-> u, team |-> t, amount |-> a, lot |-> k]

\* A request arrives.
Begins(p, request) ==
  /\ tx[p].pc = "idle" /\ request.call \in Calls
  /\ tx' = [tx EXCEPT ![p] = request]
  /\ UNCHANGED db
Request(call, op) == [Idle EXCEPT !.call = call, !.op = op, !.pc = "begin"]

\* A captain types an amount against the lot the page shows.
BidCall(p) ==
  \E t \in Team, a \in Amount :
    /\ draft.bidEndsAt # None
    /\ Begins(p, [Request("bid", "settle") EXCEPT !.by = captain[t], !.amount = a,
                                                  !.view = draft])

BidRead(p) ==
  LET me == tx[p]  t == TeamCaptainedBy(me.by) IN
  Reads(p, "bid",
    /\ Live
    /\ SameLot(me.view) /\ draft.updatedAt = me.view.updatedAt
    /\ draft.bidEndsAt = me.view.bidEndsAt
    /\ draft.status = "IN_PROGRESS" /\ draft.nominatedUser # None
    /\ draft.bidEndsAt # None /\ ~expired
    /\ t # None /\ draft.bidTeam # t
    /\ CanBid(budget[t], Count(teamOf)[t], me.amount, draft.currentBid),
    [me EXCEPT !.team = t, !.view = NoRow, !.clock = ClockOf(me.amount, t)])

\* Mutant: any bid on the same player wins, whatever landed in between.
BidClaimOnLotOnly(t) ==
  draft.status = "IN_PROGRESS" /\ draft.nominatedUser = t.snap.nominatedUser
BidClaim(t) ==
  /\ draft.status = "IN_PROGRESS" /\ SameLot(t.snap)
  /\ draft.bidEndsAt = t.snap.bidEndsAt /\ draft.updatedAt = t.snap.updatedAt
\* An accepted bid enters the Bid table and the lot's receipt together.
BidLand(p) ==
  LET me  == tx[p]
      k   == draft.currentLot
      row == BidRecord(k, draft.nominatedUser, me.team, me.amount) IN
  /\ Lands(p, "bid", BidClaim(tx[p]))
  /\ Write([draft EXCEPT !.currentBid = me.amount, !.bidTeam = me.team,
                         !.bidEndsAt = Now, !.clock = me.clock])
  /\ bids' = bids \cup {row}
  /\ lots' = [lots EXCEPT ![k].receipt = @ \cup {row}]
  /\ UNCHANGED <<season, ledger, reg>>

-----------------------------------------------------------------------------
(* Nominations *)

\* A lot opens on u at amount a for team t, with its first bid.
OpenLot(u, t, a, clock, by) ==
  LET k   == Len(lots) + 1
      row == BidRecord(k, u, t, a) IN
  /\ Write([draft EXCEPT !.nominatedUser = u, !.currentBid = a, !.bidTeam = t,
                         !.bidEndsAt = Now, !.nominationEndsAt = None,
                         !.currentLot = k, !.clock = clock])
  /\ bids' = bids \cup {row}
  /\ lots' = Append(lots, [user |-> u, nominator |-> t, status |-> "OPEN", by |-> by,
                           soldTeam |-> None, soldPrice |-> 0, receipt |-> {row}])
  /\ UNCHANGED <<season, ledger, reg>>

\* A captain, or an admin on a captain's behalf, picks a player off the page.
NominateCall(p) ==
  \E u \in User, a \in Amount, by \in {captain[t] : t \in Team} \cup Admins :
    /\ draft.nominationEndsAt # None
    /\ Begins(p, [Request("nominate", "settle") EXCEPT !.by = by, !.user = u,
                                                       !.amount = a, !.view = draft])

\* The captain of the team on turn, or an admin on its behalf.
MayNominate(t, by) == captain[t] = by \/ by \in Admins

NominateRead(p) ==
  LET me == tx[p]  t == draft.nominatorTeam IN
  Reads(p, "nominate",
    /\ Live
    /\ draft.updatedAt = me.view.updatedAt
    /\ draft.nominatorTeam = me.view.nominatorTeam
    /\ draft.nominationEndsAt = me.view.nominationEndsAt
    /\ draft.status = "IN_PROGRESS" /\ draft.nominatedUser = None
    /\ t # None /\ MayNominate(t, me.by)
    /\ me.user \in Pool(teamOf)
    /\ me.amount >= MinBid /\ me.amount <= MaxBid(budget[t], Count(teamOf)[t]),
    [me EXCEPT !.team = t, !.view = NoRow, !.clock = ClockOf(me.amount, t)])

NominateClaim(t) ==
  /\ draft.status = "IN_PROGRESS" /\ draft.nominatedUser = None
  /\ draft.nominatorTeam = t.snap.nominatorTeam
  /\ draft.nominationEndsAt = t.snap.nominationEndsAt
  /\ draft.updatedAt = t.snap.updatedAt /\ RoomForALot
NominateLand(p) ==
  /\ Lands(p, "nominate", NominateClaim(tx[p]))
  /\ OpenLot(tx[p].user, tx[p].team, tx[p].amount, tx[p].clock, tx[p].by)

\* Mutant: the team's money is not looked at.
CanTakeTurnUnpaid(t) == Count(teamOf)[t] < TeamSize
CanTakeTurn(t) == CanNominate(budget[t], Count(teamOf)[t])

\* The clock of the team on turn ran out.  A team that cannot take the turn is
\* passed over; else its best available player goes up at MinBid; with nobody
\* left to nominate, or no team able to, the auction is complete.
StalledRead(p) ==
  LET t    == draft.nominatorTeam
      best == {u \in Pool(teamOf) : \A v \in Pool(teamOf) : Mmr[v] <= Mmr[u]}
      me   == tx[p] IN
  IF /\ draft.status = "IN_PROGRESS" /\ draft.nominatedUser = None /\ t # None
     /\ draft.nominationEndsAt # None /\ expired /\ Live
  THEN IF ~CanTakeTurn(t)
       THEN IF SomeoneCanNominate(budget, Count(teamOf), t)
            THEN Reads(p, "stalled", TRUE,
                   [me EXCEPT !.plan = "advance",
                              !.team = NextNominator(budget, Count(teamOf), t)])
            ELSE Reads(p, "stalled", TRUE, [me EXCEPT !.plan = "complete"])
       ELSE IF best = {}
            THEN Reads(p, "stalled", TRUE, [me EXCEPT !.plan = "complete"])
            ELSE \E u \in best :
                   Reads(p, "stalled", TRUE,
                     [me EXCEPT !.plan = "open", !.user = u, !.team = t,
                                !.clock = ClockOf(MinBid, t)])
  ELSE Reads(p, "stalled", FALSE, me)

\* Mutant: the claim does not ask for the turn's clock.
StalledClaimOnStatus(t) ==
  /\ draft.status = "IN_PROGRESS"
  /\ t.plan = "open" => draft.nominatedUser = None /\ RoomForALot
StalledClaim(t) ==
  /\ draft.status = "IN_PROGRESS"
  /\ draft.nominationEndsAt = t.snap.nominationEndsAt
  /\ t.plan = "open" => draft.nominatedUser = None /\ RoomForALot
StalledOpens(p) ==
  /\ Lands(p, "stalled", StalledClaim(tx[p])) /\ tx[p].plan = "open"
  /\ OpenLot(tx[p].user, tx[p].team, MinBid, tx[p].clock, None)

StalledAdvances(p) ==
  /\ Lands(p, "stalled", StalledClaim(tx[p])) /\ tx[p].plan = "advance"
  /\ Write([draft EXCEPT !.nominatorTeam = tx[p].team, !.nominationEndsAt = Now])
  /\ UNCHANGED <<season, ledger, reg, bids, lots>>

StalledCompletes(p) ==
  /\ Lands(p, "stalled", StalledClaim(tx[p])) /\ tx[p].plan = "complete"
  /\ Write([draft EXCEPT !.status = "COMPLETE", !.nominationEndsAt = None])
  /\ UNCHANGED <<season, ledger, reg, bids, lots>>

-----------------------------------------------------------------------------
(* The sale *)

\* The room's poll and the minute worker settle whatever clock has run out.
PollCall(p) == Begins(p, Request("poll", "settle"))

SettleRead(p) ==
  Reads(p, "settle",
    /\ draft.status = "IN_PROGRESS" /\ draft.nominatedUser # None
    /\ draft.bidTeam # None /\ draft.bidEndsAt # None /\ expired /\ Live,
    tx[p])

\* Mutant: the next turn gets no clock.
RotateWithoutClock(money, roster) ==
  LET row == NoLot(draft)  last == draft.nominatorTeam IN
  IF SomeoneCanNominate(money, Count(roster), last) /\ Pool(roster) # {}
  THEN Write([row EXCEPT !.nominatorTeam = NextNominator(money, Count(roster), last)])
  ELSE Write([row EXCEPT !.status = "COMPLETE", !.nominationEndsAt = None])
\* The next turn after a lot closed, or the end of the auction.
Rotate(money, roster) ==
  LET row == NoLot(draft)  last == draft.nominatorTeam IN
  IF SomeoneCanNominate(money, Count(roster), last) /\ Pool(roster) # {}
  THEN Write([row EXCEPT !.nominatorTeam = NextNominator(money, Count(roster), last),
                         !.nominationEndsAt = Now])
  ELSE Write([row EXCEPT !.status = "COMPLETE", !.nominationEndsAt = None])

\* Mutant: the claim does not ask for the lot's clock.
SettleClaimOnLot(t) ==
  /\ draft.status = "IN_PROGRESS" /\ SameLot(t.snap)
  /\ reg[t.snap.nominatedUser] = "ACTIVE" => teamOf[t.snap.nominatedUser] = None
\* The last conjunct is TeamMember's unique key: one roster row a player.
SettleClaim(t) ==
  /\ draft.status = "IN_PROGRESS" /\ SameLot(t.snap)
  /\ draft.bidEndsAt = t.snap.bidEndsAt
  /\ reg[t.snap.nominatedUser] = "ACTIVE" => teamOf[t.snap.nominatedUser] = None
SettleSells(p) ==
  LET u == draft.nominatedUser  t == draft.bidTeam  k == draft.currentLot IN
  /\ Lands(p, "settle", SettleClaim(tx[p])) /\ reg[u] = "ACTIVE"
  /\ teamOf' = [teamOf EXCEPT ![u] = t]
  /\ price' = [price EXCEPT ![u] = draft.currentBid]
  /\ soldAs' = [soldAs EXCEPT ![u] = k]
  /\ budget' = [budget EXCEPT ![t] = @ - draft.currentBid]
  /\ lots' = [lots EXCEPT ![k] = [Closing(k, "SOLD") EXCEPT !.soldTeam = t,
                                                            !.soldPrice = draft.currentBid]]
  /\ Rotate(budget', teamOf')
  /\ UNCHANGED <<season, captain, flagged, reg, bids>>

\* The player left the pool while on the block: nobody is charged.
SettleVoids(p) ==
  LET u == draft.nominatedUser  k == draft.currentLot IN
  /\ Lands(p, "settle", SettleClaim(tx[p])) /\ reg[u] # "ACTIVE"
  /\ lots' = [lots EXCEPT ![k] = Closing(k, "VOIDED")]
  /\ bids' = WithoutTrail(u)
  /\ Rotate(budget, teamOf)
  /\ UNCHANGED <<season, ledger, reg>>

\* Time passes.  A clock waits for nobody: it may run out under any transaction,
\* one that began before it was set included.
Expire ==
  /\ draft.bidEndsAt # None \/ draft.nominationEndsAt # None
  /\ ~expired
  /\ expired' = TRUE
  /\ UNCHANGED <<season, draft, ledger, reg, bids, lots, tx>>

-----------------------------------------------------------------------------
(* The admin's corrections *)

AdminCalls == {"resume", "void", "abort", "start", "phase", "archive", "reactivate"}

\* A button of the admin's with nothing to name but itself.
AdminCall(p) ==
  \/ Begins(p, Request("pause", "settle"))
  \/ \E op \in AdminCalls : Begins(p, Request(op, op))

\* Pause first lets both resolvers run, then parks whichever clock is set.
PauseRead(p) == Reads(p, "pause", Live, tx[p])
\* Mutant: any auction can be paused, an aborted or finished one too.
PauseClaimAlways(t) == TRUE
PauseClaim(t) == draft.status = "IN_PROGRESS"
PauseLand(p) ==
  /\ Lands(p, "pause", PauseClaim(tx[p]))
  /\ Write([Parked(draft) EXCEPT !.status = "PAUSED"])
  /\ UNCHANGED <<season, ledger, reg, bids, lots>>

ResumeRead(p) ==
  Reads(p, "resume", Live /\ draft.status = "PAUSED",
    [tx[p] EXCEPT !.clock = IF draft.nominatedUser = None THEN "none"
                            ELSE ClockOf(draft.currentBid, draft.bidTeam)])
ResumeClaim(t) == draft.status = "PAUSED" /\ draft.updatedAt = t.snap.updatedAt
ResumeLand(p) ==
  /\ Lands(p, "resume", ResumeClaim(tx[p]))
  /\ Write(IF tx[p].snap.nominatedUser = None
           THEN [draft EXCEPT !.status = "IN_PROGRESS", !.nominationEndsAt = Now]
           ELSE [draft EXCEPT !.status = "IN_PROGRESS", !.bidEndsAt = Now,
                              !.clock = tx[p].clock])
  /\ UNCHANGED <<season, ledger, reg, bids, lots>>

VoidRead(p) ==
  Reads(p, "void", Live /\ draft.status = "PAUSED" /\ draft.nominatedUser # None, tx[p])
VoidClaim(t) ==
  draft.status = "PAUSED" /\ SameLot(t.snap) /\ draft.updatedAt = t.snap.updatedAt
VoidLand(p) ==
  /\ Lands(p, "void", VoidClaim(tx[p]))
  /\ Write([NoLot(draft) EXCEPT !.nominationEndsAt = None])
  /\ lots' = [lots EXCEPT ![draft.currentLot] = Closing(draft.currentLot, "VOIDED")]
  /\ bids' = WithoutTrail(draft.nominatedUser)
  /\ UNCHANGED <<season, ledger, reg>>

\* The confirm names the sale that was the newest when the page was drawn.
UndoCall(p) ==
  /\ Purchases # {}
  /\ Begins(p, [Request("undo", "undo") EXCEPT !.user = NewestPurchase,
                                               !.lot = soldAs[NewestPurchase]])
UndoRead(p) ==
  Reads(p, "undo",
    /\ Live /\ draft.status # "NOT_STARTED" /\ draft.nominatedUser = None
    /\ Purchases # {} /\ NewestPurchase = tx[p].user /\ soldAs[tx[p].user] = tx[p].lot,
    tx[p])
\* Mutant: the refund is forgotten.
LeavesTeamUnpaid(u, t) ==
  /\ teamOf' = [teamOf EXCEPT ![u] = None]
  /\ price' = [price EXCEPT ![u] = 0]
  /\ soldAs' = [soldAs EXCEPT ![u] = 0]
  /\ UNCHANGED budget
\* A roster row is deleted and its price goes back to the team.
LeavesTeam(u, t) ==
  /\ teamOf' = [teamOf EXCEPT ![u] = None]
  /\ price' = [price EXCEPT ![u] = 0]
  /\ soldAs' = [soldAs EXCEPT ![u] = 0]
  /\ budget' = [budget EXCEPT ![t] = @ + price[u]]

UndoClaim(t) ==
  /\ t.user \in Purchases /\ soldAs[t.user] = t.lot
  /\ draft.status = t.snap.status /\ draft.nominatedUser = None
UndoLand(p) ==
  LET u == tx[p].user  t == teamOf[u] IN
  /\ Lands(p, "undo", UndoClaim(tx[p]))
  /\ LeavesTeam(u, t)
  /\ bids' = WithoutTrail(u)
  /\ lots' = [lots EXCEPT ![soldAs[u]].status = "UNDONE"]
  /\ Write(IF draft.status = "PAUSED"
           THEN [draft EXCEPT !.nominatorTeam = t, !.nominationEndsAt = None]
           ELSE [draft EXCEPT !.status = "IN_PROGRESS", !.nominatorTeam = t,
                              !.nominationEndsAt = Now])
  /\ UNCHANGED <<season, captain, flagged, reg>>

\* Back to captain-only teams: Team.captainId says who stays, every price on a
\* roster is credited back, the run's lots that are still rostered are undone.
AbortRead(p) ==
  Reads(p, "abort",
    season.active /\ draft.status # "NOT_STARTED"
    /\ \A t \in Team : teamOf[captain[t]] = t, tx[p])
AbortClaim(t) == draft.status = t.snap.status /\ draft.updatedAt = t.snap.updatedAt
\* The open lot and the sales still on a roster are taken back.
AbortedLots ==
  LET sold == {soldAs[u] : u \in {v \in User : teamOf[v] # None}} IN
  [k \in DOMAIN lots |->
     IF k = draft.currentLot THEN Closing(k, "ABORTED")
     ELSE IF k \in sold /\ lots[k].status = "SOLD"
          THEN [lots[k] EXCEPT !.status = "ABORTED"] ELSE lots[k]]

AbortLand(p) ==
  LET stays == {captain[t] : t \in Team} IN
  /\ Lands(p, "abort", AbortClaim(tx[p]))
  /\ Write([NoRow EXCEPT !.updatedAt = draft.updatedAt])
  /\ season' = [season EXCEPT !.status = "SIGNUPS"]
  /\ budget' = [t \in Team |-> budget[t] + Spent(t)]
  /\ teamOf' = [u \in User |-> IF u \in stays THEN teamOf[u] ELSE None]
  /\ price' = [u \in User |-> 0]
  /\ soldAs' = [u \in User |-> IF u \in stays THEN soldAs[u] ELSE 0]
  /\ flagged' = stays
  /\ bids' = {}
  /\ lots' = AbortedLots
  /\ UNCHANGED <<captain, reg>>

StartRead(p) ==
  Reads(p, "start",
    /\ season.active /\ season.status \in {"SIGNUPS", "DRAFT"}
    /\ draft.status = "NOT_STARTED"
    /\ Cardinality(Team) >= 2
    /\ \A t \in Team : /\ reg[captain[t]] = "ACTIVE"
                       /\ {u \in flagged : teamOf[u] = t} = {captain[t]}
    /\ {u \in User \ flagged : teamOf[u] # None} = {}
    /\ Pool(teamOf) # {}, tx[p])
StartClaim(t) == draft.status = "NOT_STARTED"
StartLand(p) ==
  /\ Lands(p, "start", StartClaim(tx[p]))
  /\ Write([NoRow EXCEPT !.status = "IN_PROGRESS", !.nominatorTeam = Order[0],
                         !.nominationEndsAt = Now])
  /\ budget' = StartBudget
  /\ season' = [season EXCEPT !.status = "DRAFT"]
  /\ UNCHANGED <<captain, teamOf, price, flagged, soldAs, reg, bids, lots>>

-----------------------------------------------------------------------------
(* The season around the auction *)

\* setSeasonPhase's moves between Signups, Draft and Regular season, with the
\* schedule generated and nothing played.
PhaseTarget ==
  CASE season.status = "SIGNUPS" /\ draft.status = "NOT_STARTED" -> "DRAFT"
    [] season.status = "DRAFT" /\ draft.status = "NOT_STARTED"   -> "SIGNUPS"
    [] season.status = "DRAFT" /\ draft.status = "COMPLETE" -> "REGULAR_SEASON"
    [] season.status # "DRAFT" /\ draft.status \in {"IN_PROGRESS", "PAUSED"} -> "DRAFT"
    [] OTHER -> "none"
PhaseRead(p) == Reads(p, "phase", season.active /\ PhaseTarget # "none",
                      [tx[p] EXCEPT !.plan = PhaseTarget])
PhaseClaim(t) ==
  season.active /\ ((season.status = "DRAFT") <=> (t.plan # "DRAFT"))
PhaseLand(p) ==
  /\ Lands(p, "phase", PhaseClaim(tx[p]))
  /\ season' = [season EXCEPT !.status = tx[p].plan]
  /\ UNCHANGED <<draft, expired, ledger, reg, bids, lots>>

\* Cancelling a season parks its auction, a paused one's version included.
Park ==
  IF draft.status \in {"IN_PROGRESS", "PAUSED"}
  THEN Write([Parked(draft) EXCEPT !.status = "PAUSED"])
  ELSE UNCHANGED <<draft, expired>>

ArchiveRead(p) == Reads(p, "archive", season.active, tx[p])
ArchiveClaim(t) == season.active
ArchiveLand(p) ==
  /\ Lands(p, "archive", ArchiveClaim(tx[p]))
  /\ season' = [season EXCEPT !.active = FALSE]
  /\ Park
  /\ UNCHANGED <<ledger, reg, bids, lots>>

ReactivateRead(p) == Reads(p, "reactivate", ~season.active, tx[p])
ReactivateClaim(t) == ~season.active
ReactivateLand(p) ==
  /\ Lands(p, "reactivate", ReactivateClaim(tx[p]))
  /\ season' = [season EXCEPT !.active = TRUE]
  /\ Park
  /\ UNCHANGED <<ledger, reg, bids, lots>>

-----------------------------------------------------------------------------
(* Signups and rosters *)

\* The admin's forms that name a player, and a team where one is needed.
MemberCall(p) ==
  \E u \in User :
    \/ reg[u] = "ACTIVE" /\ Begins(p, [Request("withdraw", "withdraw") EXCEPT !.user = u])
    \/ reg[u] = "REMOVED" /\ Begins(p, [Request("reinstate", "reinstate") EXCEPT !.user = u])
    \/ \E t \in Team : teamOf[u] = None
         /\ Begins(p, [Request("sign", "sign") EXCEPT !.user = u, !.team = t])
    \/ /\ teamOf[u] # None
       /\ \/ Begins(p, [Request("release", "release") EXCEPT
                          !.user = u, !.team = teamOf[u], !.lot = soldAs[u]])
          \/ Begins(p, [Request("transfer", "transfer") EXCEPT
                          !.user = u, !.team = teamOf[u], !.by = captain[teamOf[u]]])

OnTheBlock(u) == draft.status \in {"IN_PROGRESS", "PAUSED"} /\ draft.nominatedUser = u

WithdrawRead(p) ==
  LET u == tx[p].user IN
  Reads(p, "withdraw", season.active /\ ~OnTheBlock(u) /\ teamOf[u] = None, tx[p])
WithdrawClaim(t) == reg[t.user] = "ACTIVE"
WithdrawLand(p) ==
  /\ Lands(p, "withdraw", WithdrawClaim(tx[p]))
  /\ reg' = [reg EXCEPT ![tx[p].user] = "REMOVED"]
  /\ UNCHANGED <<season, draft, expired, ledger, bids, lots>>

ReinstateRead(p) ==
  Reads(p, "reinstate",
    season.active /\ reg[tx[p].user] = "REMOVED"
    /\ draft.status \notin {"IN_PROGRESS", "PAUSED"}, tx[p])
ReinstateClaim(t) == reg[t.user] = "REMOVED"
ReinstateLand(p) ==
  /\ Lands(p, "reinstate", ReinstateClaim(tx[p]))
  /\ reg' = [reg EXCEPT ![tx[p].user] = "ACTIVE"]
  /\ UNCHANGED <<season, draft, expired, ledger, bids, lots>>

SignRead(p) ==
  LET me == tx[p] IN
  Reads(p, "sign",
    RostersOpen /\ reg[me.user] = "ACTIVE" /\ Count(teamOf)[me.team] < TeamSize, me)
SignClaim(t) == teamOf[t.user] = None
SignLand(p) ==
  /\ Lands(p, "sign", SignClaim(tx[p]))
  /\ teamOf' = [teamOf EXCEPT ![tx[p].user] = tx[p].team]
  /\ UNCHANGED <<season, draft, expired, captain, budget, price, flagged, soldAs,
                 reg, bids, lots>>

\* Release frees the seat and refunds the price; the Bid rows stay.
ReleaseRead(p) ==
  Reads(p, "release", RostersOpen /\ teamOf[tx[p].user] = tx[p].team, tx[p])
ReleaseClaim(t) ==
  /\ teamOf[t.user] = t.team /\ soldAs[t.user] = t.lot
  /\ t.user \notin flagged /\ captain[t.team] # t.user
ReleaseLand(p) ==
  /\ Lands(p, "release", ReleaseClaim(tx[p]))
  /\ LeavesTeam(tx[p].user, tx[p].team)
  /\ UNCHANGED <<season, draft, expired, captain, flagged, reg, bids, lots>>

TransferRead(p) ==
  LET me == tx[p] IN
  Reads(p, "transfer",
    /\ season.active /\ draft.status \notin {"IN_PROGRESS", "PAUSED"}
    /\ captain[me.team] = me.by /\ me.by # me.user /\ me.by \in flagged
    /\ teamOf[me.by] = me.team /\ teamOf[me.user] = me.team
    /\ reg[me.user] = "ACTIVE" /\ TeamCaptainedBy(me.user) = None, me)
TransferClaim(t) == captain[t.team] = t.by
TransferLand(p) ==
  LET me == tx[p] IN
  /\ Lands(p, "transfer", TransferClaim(tx[p]))
  /\ captain' = [captain EXCEPT ![me.team] = me.user]
  /\ flagged' = {u \in flagged : teamOf[u] # me.team} \cup {me.user}
  /\ UNCHANGED <<season, draft, expired, budget, teamOf, price, soldAs, reg, bids, lots>>

-----------------------------------------------------------------------------
(* What the claim of a transaction asks, and its refusal *)

Claim(t) ==
  CASE t.op = "bid"        -> BidClaim(t)
    [] t.op = "nominate"   -> NominateClaim(t)
    [] t.op = "settle"     -> SettleClaim(t)
    [] t.op = "stalled"    -> StalledClaim(t)
    [] t.op = "pause"      -> PauseClaim(t)
    [] t.op = "resume"     -> ResumeClaim(t)
    [] t.op = "void"       -> VoidClaim(t)
    [] t.op = "undo"       -> UndoClaim(t)
    [] t.op = "abort"      -> AbortClaim(t)
    [] t.op = "start"      -> StartClaim(t)
    [] t.op = "phase"      -> PhaseClaim(t)
    [] t.op = "archive"    -> ArchiveClaim(t)
    [] t.op = "reactivate" -> ReactivateClaim(t)
    [] t.op = "withdraw"   -> WithdrawClaim(t)
    [] t.op = "reinstate"  -> ReinstateClaim(t)
    [] t.op = "sign"       -> SignClaim(t)
    [] t.op = "release"    -> ReleaseClaim(t)
    [] t.op = "transfer"   -> TransferClaim(t)

\* The claim matched no row, or the database reported a conflict (P2034).
Refused(p) ==
  /\ tx[p].pc = "claim" /\ (Claim(tx[p]) => tx[p].stale)
  /\ tx' = [tx EXCEPT ![p] = After(tx[p])]
  /\ UNCHANGED db

-----------------------------------------------------------------------------
TeamCaptainedAtStart(u) ==
  IF \E t \in Team : InitCaptain[t] = u THEN CHOOSE t \in Team : InitCaptain[t] = u ELSE None

Init ==
  /\ season = [status |-> "SIGNUPS", active |-> TRUE]
  /\ draft = [NoRow EXCEPT !.updatedAt = CHOOSE s \in Stamp : TRUE]
  /\ expired = FALSE
  /\ captain = InitCaptain
  /\ budget = StartBudget
  /\ teamOf = [u \in User |-> TeamCaptainedAtStart(u)]
  /\ price = [u \in User |-> 0]
  /\ flagged = {InitCaptain[t] : t \in Team}
  /\ soldAs = [u \in User |-> 0]
  /\ reg = [u \in User |-> "ACTIVE"]
  /\ bids = {} /\ lots = <<>>
  /\ tx = [p \in Proc |-> Idle]

Arrives(p) == BidCall(p) \/ NominateCall(p) \/ PollCall(p) \/ AdminCall(p) \/ UndoCall(p)
              \/ MemberCall(p)
ReadsRows(p) ==
  \/ BidRead(p) \/ NominateRead(p) \/ SettleRead(p) \/ StalledRead(p) \/ PauseRead(p)
  \/ ResumeRead(p) \/ VoidRead(p) \/ UndoRead(p) \/ AbortRead(p) \/ StartRead(p)
  \/ PhaseRead(p) \/ ArchiveRead(p) \/ ReactivateRead(p) \/ WithdrawRead(p)
  \/ ReinstateRead(p) \/ SignRead(p) \/ ReleaseRead(p) \/ TransferRead(p)
Writes(p) ==
  \/ BidLand(p) \/ NominateLand(p) \/ StalledOpens(p) \/ StalledAdvances(p)
  \/ StalledCompletes(p) \/ SettleSells(p) \/ SettleVoids(p) \/ PauseLand(p)
  \/ ResumeLand(p) \/ VoidLand(p) \/ UndoLand(p) \/ AbortLand(p) \/ StartLand(p)
  \/ PhaseLand(p) \/ ArchiveLand(p) \/ ReactivateLand(p) \/ WithdrawLand(p)
  \/ ReinstateLand(p) \/ SignLand(p) \/ ReleaseLand(p) \/ TransferLand(p)
  \/ Refused(p)

Next == Expire \/ \E p \in Proc : Arrives(p) \/ ReadsRows(p) \/ Writes(p)

Spec == Init /\ [][Next]_vars
=============================================================================
