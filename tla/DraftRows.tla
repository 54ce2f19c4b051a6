---------------------------- MODULE DraftRows ----------------------------
(***************************************************************************)
(* The rows the auction draft lives in, the requests that work on them and  *)
(* the two halves of a database transaction.  DraftAuction has the actions. *)
(*                                                                         *)
(* A request is a chain of transactions (NextOp).  A transaction is two    *)
(* steps: it reads the Draft row and decides, then it writes behind a      *)
(* claim, the WHERE clause of its updateMany, judged against the rows of   *)
(* that later moment.  Between the two any other transaction may commit.   *)
(* Operations in Serializable run at that isolation level and abort when a *)
(* committed transaction conflicts with them; the rest are READ COMMITTED. *)
(*                                                                         *)
(* A timestamp is a member of Stamp: every write of the Draft row draws    *)
(* one that no row, open transaction or open page still holds, so two      *)
(* timestamps are equal exactly when one write produced both.              *)
(***************************************************************************)
EXTENDS AuctionRules, Sequences, FiniteSetsExt

CONSTANTS User,         \* everyone signed up for the season
          InitCaptain,  \* InitCaptain[t] captains t when Start is pressed
          StartBudget,  \* StartBudget[t], what mmrWeightedBudgets gives t
          Mmr,          \* Mmr[u], the rating resolveStalledNomination sorts by
          Admins,       \* viewers whose role is ADMIN
          Proc,         \* requests the server handles at the same time
          Stamp,        \* timestamps
          None,         \* null
          Calls,        \* the requests enabled in this instance
          Amount,       \* the amounts a captain may type
          MaxLots       \* horizon: how many lots a behaviour may open

ASSUME UserAssumption ==
  /\ IsFiniteSet(User)
  /\ None \notin User \cup Team \cup Stamp \cup Admins
  /\ Admins \cap User = {}
ASSUME CaptainAssumption ==
  /\ InitCaptain \in [Team -> User]
  /\ \A s, t \in Team : InitCaptain[s] = InitCaptain[t] => s = t
ASSUME BudgetAssumption ==
  /\ StartBudget \in [Team -> Nat]
  /\ \A t \in Team : StartBudget[t] >= (TeamSize - 1) * MinBid
ASSUME StampAssumption ==
  /\ IsFiniteSet(Proc) /\ IsFiniteSet(Stamp)
  /\ Cardinality(Stamp) > 3 + 6 * Cardinality(Proc)
ASSUME DataAssumption ==
  Mmr \in [User -> Nat] /\ Amount \subseteq Nat /\ MaxLots \in Nat

VARIABLES
  season,   \* Season.status and isActive
  draft,    \* the Draft row
  expired,  \* the running clock of the Draft row has passed
  captain,  \* Team.captainId
  budget,   \* Team.budget
  teamOf,   \* TeamMember: the team a user is rostered on, or None
  price,    \* TeamMember.price
  flagged,  \* TeamMember.isCaptain
  soldAs,   \* the lot a membership row came from, 0 for captains and signings
  reg,      \* Registration: ACTIVE player signup, or REMOVED
  bids,     \* the Bid table
  lots,     \* DraftLot, in sequence order
  tx        \* the request each process is handling

db == <<season, draft, expired, captain, budget, teamOf, price, flagged,
        soldAs, reg, bids, lots>>
ledger == <<captain, budget, teamOf, price, flagged, soldAs>>
vars == <<db, tx>>

-----------------------------------------------------------------------------
(* Rows *)

Status == {"NOT_STARTED", "IN_PROGRESS", "PAUSED", "COMPLETE"}
Orl(S) == S \cup {None}

\* clock is the one field no column holds: which of the season's two bid
\* clocks bidEndsAt was computed with.
DraftRow ==
  [status : Status, nominatorTeam : Orl(Team), nominatedUser : Orl(User),
   currentBid : Nat, bidTeam : Orl(Team), bidEndsAt : Orl(Stamp),
   nominationEndsAt : Orl(Stamp), currentLot : Nat, updatedAt : Orl(Stamp),
   clock : {"none", "full", "short"}]

NoRow ==
  [status |-> "NOT_STARTED", nominatorTeam |-> None, nominatedUser |-> None,
   currentBid |-> 0, bidTeam |-> None, bidEndsAt |-> None,
   nominationEndsAt |-> None, currentLot |-> 0, updatedAt |-> None,
   clock |-> "none"]

\* A Bid row carries the team, the player and the amount.  lot is not a
\* column: it records the lot the bid was made in, and so tells rows apart.
BidRow == [user : User, team : Team, amount : Nat, lot : Nat]
LotStatus == {"OPEN", "SOLD", "VOIDED", "UNDONE", "ABORTED"}
Lot == [user : User, nominator : Team, status : LotStatus, by : Orl(User \cup Admins),
        soldTeam : Orl(Team), soldPrice : Nat, receipt : SUBSET BidRow]

\* The open request of a process.  view is the Draft row its page showed, snap
\* the row its transaction read; the rest are arguments and what it decided.
Ops == {"settle", "stalled", "bid", "nominate", "pause", "resume", "void",
        "undo", "abort", "start", "phase", "archive", "reactivate",
        "withdraw", "reinstate", "sign", "release", "transfer"}
Plans == {"none", "open", "advance", "complete", "SIGNUPS", "DRAFT", "REGULAR_SEASON"}
Tx == [call : Ops \cup {"poll", "none"}, op : Ops \cup {"none"},
       pc : {"idle", "begin", "claim"}, by : Orl(User \cup Admins),
       user : Orl(User), team : Orl(Team), amount : Nat, lot : Nat, view : DraftRow,
       snap : DraftRow, plan : Plans,
       clock : {"none", "full", "short"}, stale : BOOLEAN]
Idle ==
  [call |-> "none", op |-> "none", pc |-> "idle", by |-> None, user |-> None,
   team |-> None, amount |-> 0, lot |-> 0, view |-> NoRow, snap |-> NoRow,
   plan |-> "none", clock |-> "none", stale |-> FALSE]

-----------------------------------------------------------------------------
(* Reading the rows *)

Count(roster) == [t \in Team |-> Cardinality({u \in User : roster[u] = t})]
Pool(roster)  == {u \in User : reg[u] = "ACTIVE" /\ roster[u] = None}
Live          == season.active /\ season.status = "DRAFT"
ClockOf(amount, team) == BidClock(budget, Count(teamOf), amount, team)

\* The newest auction purchase still on a roster: undo's only target.
Purchases == {u \in User : teamOf[u] # None /\ u \notin flagged /\ price[u] > 0}
NewestPurchase == CHOOSE u \in Purchases : \A v \in Purchases : soldAs[v] <= soldAs[u]

\* The free agents and roster moves of after the auction.
RostersOpen ==
  /\ season.active
  /\ \/ season.status = "REGULAR_SEASON"
     \/ season.status = "DRAFT" /\ draft.status = "COMPLETE"

Spent(t) == MapThenSumSet(LAMBDA u : price[u], {u \in User : teamOf[u] = t})

\* Every Bid row of a player: Bid is keyed by (draft, player), not by lot.
Trail(u) == {b \in bids : b.user = u}
\* Mutant: the rows are left behind.
WithoutTrailKept(u) == bids
WithoutTrail(u) == bids \ Trail(u)

\* A lot about to close first takes in the player's rows it has no receipt of.
Closing(k, status) == [lots[k] EXCEPT !.status = status,
                                      !.receipt = @ \cup Trail(lots[k].user)]

-----------------------------------------------------------------------------
(* Transactions *)

HeldStamps ==
  LET Of(row) == {row.bidEndsAt, row.nominationEndsAt, row.updatedAt}
  IN  Of(draft) \cup UNION {Of(tx[p].view) \cup Of(tx[p].snap) : p \in Proc}
Now == CHOOSE s \in Stamp \ HeldStamps : TRUE

\* Mutants: one operation runs at the default isolation level.
SerializableButPhase ==
  {"nominate", "void", "undo", "abort", "start", "archive", "reactivate", "withdraw",
   "reinstate", "sign", "release", "transfer"}
SerializableButSign ==
  {"nominate", "void", "undo", "abort", "start", "phase", "archive", "reactivate",
   "withdraw", "reinstate", "release", "transfer"}
Serializable == {"nominate", "void", "undo", "abort", "start", "phase",
                 "archive", "reactivate", "withdraw", "reinstate", "sign",
                 "release", "transfer"}
WritesDraft == {"settle", "stalled", "bid", "nominate", "pause", "resume",
                "void", "undo", "abort", "start", "archive", "reactivate"}

\* A commit of a makes the open transaction b unserializable: both run at that
\* level, or a rewrote the Draft row b is about to write.
Conflicts(a, b) ==
  b \in Serializable /\ (a \in Serializable \/ {a, b} \subseteq WritesDraft)

\* What a request does after one of its transactions.
NextOp(t) ==
  CASE t.op = "settle" /\ t.call \in {"poll", "pause"}   -> "stalled"
    [] t.op = "settle" /\ t.call \in {"bid", "nominate"} -> t.call
    [] t.op = "stalled" /\ t.call = "pause"              -> "pause"
    [] OTHER                                             -> "none"
After(t) ==
  IF NextOp(t) = "none" THEN Idle
  ELSE [t EXCEPT !.op = NextOp(t), !.pc = "begin", !.snap = NoRow, !.plan = "none",
                 !.clock = "none", !.stale = FALSE,
                 !.user = IF t.op = "stalled" THEN None ELSE @,
                 !.team = IF t.op = "stalled" THEN None ELSE @]

\* The first half: ok is what the transaction checks on the rows it reads, t
\* the request with what it decided; a refusal ends the transaction.
Reads(p, op, ok, t) ==
  /\ tx[p].pc = "begin" /\ tx[p].op = op
  /\ tx' = [tx EXCEPT ![p] = IF ok THEN [t EXCEPT !.pc = "claim", !.snap = draft]
                             ELSE After(tx[p])]
  /\ UNCHANGED db

\* The same auction as the row s: lot, price and high bidder.
SameLot(s) ==
  /\ draft.nominatedUser = s.nominatedUser /\ draft.currentLot = s.currentLot
  /\ draft.currentBid = s.currentBid /\ draft.bidTeam = s.bidTeam
RoomForALot == Len(lots) < MaxLots

\* A commit of op spoils the open transactions it conflicts with.
Spoils(op, t) == IF t.pc = "claim" /\ Conflicts(op, t.op) THEN [t EXCEPT !.stale = TRUE] ELSE t

\* The second half: claim is the WHERE clause of op's claim, with the rows its
\* writes need, and the transaction commits when it matches.
Lands(p, op, claim) ==
  /\ tx[p].pc = "claim" /\ tx[p].op = op
  /\ claim /\ ~tx[p].stale
  /\ tx' = [q \in Proc |-> IF q = p THEN After(tx[p]) ELSE Spoils(op, tx[q])]

\* Every write of the Draft row moves updatedAt, and none leaves a clock that
\* was already running in place.
Write(row) ==
  /\ Stamp \ HeldStamps # {}
  /\ draft' = [row EXCEPT !.updatedAt = Now]
  /\ expired' = FALSE

NoLot(row) == [row EXCEPT !.nominatedUser = None, !.currentBid = 0, !.bidTeam = None,
                          !.bidEndsAt = None, !.currentLot = 0, !.clock = "none"]
\* Mutant: the turn's clock keeps running.
ParkedOnLotClock(row) == [row EXCEPT !.bidEndsAt = None, !.clock = "none"]
Parked(row) == [row EXCEPT !.bidEndsAt = None, !.nominationEndsAt = None,
                           !.clock = "none"]
=============================================================================
