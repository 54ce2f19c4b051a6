------------------------------ MODULE LotProofs ------------------------------
(***************************************************************************)
(* The lot on the block, the rosters and the steps that move them, for any *)
(* number of teams, players, requests and bids.  LotInv says why a         *)
(* transaction may write on what it read earlier: as long as the row it    *)
(* read stands, so does everything it decided, because money and rosters   *)
(* move only with the row while an auction is under way, and whatever the  *)
(* claim does not compare is read at the SERIALIZABLE level.               *)
(***************************************************************************)
EXTENDS DraftProofs

-----------------------------------------------------------------------------
(* Counting seats *)

\* A team has finitely many players.
LEMMA CountType ==
  ASSUME NEW roster, NEW t \in Team
  PROVE  /\ IsFiniteSet({u \in User : roster[u] = t}) /\ Count(roster)[t] \in Nat
         /\ Count(roster)[t] = Cardinality({u \in User : roster[u] = t})
<1>1. IsFiniteSet({u \in User : roster[u] = t})
  BY UserAssumption, FS_Subset
<1>2. QED
  BY <1>1, FS_CardinalityType DEF Count

\* A roster nobody joins has no more players than before.
LEMMA NobodyJoins ==
  ASSUME NEW roster, NEW other, NEW t \in Team,
         \A u \in User : other[u] = t => roster[u] = t
  PROVE  Count(other)[t] <= Count(roster)[t]
<1> DEFINE S == {u \in User : roster[u] = t}
           T == {u \in User : other[u] = t}
<1>1. IsFiniteSet(S) /\ Count(roster)[t] = Cardinality(S) /\ Count(other)[t] = Cardinality(T)
  BY CountType
<1>2. T \in SUBSET S
  OBVIOUS
<1>3. QED
  BY <1>1, <1>2, FS_Subset

\* A roster one player joins has one more.
LEMMA OneJoins ==
  ASSUME NEW roster, NEW other, NEW t \in Team, NEW v \in User,
         roster[v] # t, other[v] = t,
         \A u \in User : u # v => other[u] = roster[u]
  PROVE  Count(other)[t] = Count(roster)[t] + 1
<1> DEFINE S == {u \in User : roster[u] = t}
<1>1. {u \in User : other[u] = t} = S \cup {v} /\ v \notin S
  OBVIOUS
<1>2. IsFiniteSet(S) /\ Count(roster)[t] = Cardinality(S)
      /\ Count(other)[t] = Cardinality({u \in User : other[u] = t})
  BY CountType
<1>3. Cardinality(S \cup {v}) = Cardinality(S) + 1
  BY <1>1, <1>2, FS_AddElement
<1>4. QED
  BY <1>1, <1>2, <1>3

-----------------------------------------------------------------------------
(* The auction's rules *)

\* A team that may spend an amount has a seat to fill and the money.
LEMMA BidIsCovered ==
  ASSUME NEW money \in Nat, NEW count \in Nat, NEW a \in Nat,
         a >= MinBid, a <= MaxBid(money, count)
  PROVE  /\ TeamNeed(count) > 0 /\ count < TeamSize /\ a <= money
         /\ CanBid(money, count, a, 0)
<1>1. a > 0 /\ TeamSize \in Nat
  BY MoneyAssumption, SizeAssumption
<1>2. TeamNeed(count) \in Nat
  BY <1>1 DEF TeamNeed
<1>3. TeamNeed(count) # 0
  BY <1>1 DEF MaxBid
<1>4. (TeamNeed(count) - 1) * MinBid >= 0 /\ (TeamNeed(count) - 1) * MinBid \in Int
  BY <1>2, <1>3, MoneyAssumption
<1>5. a <= money
  BY <1>1, <1>3, <1>4 DEF MaxBid
<1>6. count < TeamSize
  BY <1>3 DEF TeamNeed
<1>7. QED
  BY <1>1, <1>2, <1>3, <1>5, <1>6 DEF CanBid

\* A team that can nominate can open a lot at the minimum.
LEMMA OpensAtMinimum ==
  ASSUME NEW money \in Nat, NEW count \in Nat, CanNominate(money, count)
  PROVE  CanBid(money, count, MinBid, 0)
<1>1. MinBid \in Nat /\ MinBid > 0
  BY MoneyAssumption
<1>2. QED
  BY <1>1 DEF CanNominate, CanBid

\* The rotation goes all the way round: if none of its places is able, no team is.
LEMMA RotationIsWhole ==
  ASSUME NEW money, NEW count, NEW last \in Team,
         ~SomeoneCanNominate(money, count, last)
  PROVE  \A t \in Team : ~CanNominate(money[t], count[t])
<1> SUFFICES ASSUME NEW t \in Team PROVE ~CanNominate(money[t], count[t])
  OBVIOUS
<1> DEFINE j == Place(last)
<1>1. N \in Nat /\ N > 0
  BY TeamAssumption, FS_CardinalityType, FS_EmptySet DEF N
<1>2. j \in 0 .. N - 1
  BY OrderAssumption DEF Place
<1>3. PICK i \in 0 .. N - 1 : Order[i] = t
  BY OrderAssumption
<1> HIDE DEF j
<1>4. \E k \in 1 .. N : (j + k) % N = i
  <2>1. CASE i > j
    <3>1. i - j \in 1 .. N /\ j + (i - j) = i /\ i % N = i
      BY <1>1, <1>2, <2>1
    <3>2. QED
      BY <3>1
  <2>2. CASE i <= j
    <3>1. i + N - j \in 1 .. N /\ j + (i + N - j) = i + N /\ (i + N) % N = i
      BY <1>1, <1>2, <2>2
    <3>2. QED
      BY <3>1
  <2>3. QED
    BY <1>2, <2>1, <2>2
<1>5. QED
  BY <1>3, <1>4 DEF SomeoneCanNominate, AbleSteps, j

\* The pool has a best player as soon as it has one.
LEMMA BestExists ==
  ASSUME Pool(teamOf) # {}
  PROVE  {u \in Pool(teamOf) : \A v \in Pool(teamOf) : Mmr[v] <= Mmr[u]} # {}
<1> DEFINE f == [u \in User |-> -Mmr[u]]
<1>1. f \in [User -> Int] /\ Pool(teamOf) \in SUBSET User
      /\ \A u \in User : Mmr[u] \in Nat /\ f[u] = -Mmr[u]
  BY DataAssumption DEF Pool
<1> HIDE DEF f
<1>2. PICK m \in Pool(teamOf) : \A i \in Pool(teamOf) : f[m] <= f[i]
  BY <1>1, UserAssumption, LeastExists
<1>3. \A v \in Pool(teamOf) : Mmr[v] <= Mmr[m]
  BY <1>1, <1>2
<1>4. QED
  BY <1>3

-----------------------------------------------------------------------------
(* The rows and the requests *)

\* The types the lot rests on.
LEMMA LotTypes ==
  ASSUME ClockInv
  PROVE  /\ draft \in DraftRow /\ expired \in BOOLEAN
         /\ teamOf \in [User -> Orl(Team)] /\ price \in [User -> Nat]
         /\ soldAs \in [User -> Nat] /\ reg \in [User -> {"ACTIVE", "REMOVED"}]
         /\ bids \subseteq BidRow
         /\ Len(lots) \in Nat /\ DOMAIN lots = 1 .. Len(lots)
         /\ \A k \in DOMAIN lots : lots[k] \in Lot
         /\ \A q \in Proc : tx[q] \in Tx /\ Honest(tx[q])
<1>1. lots \in Seq(Lot)
  BY DEF ClockInv, RowsTyped
<1>2. Len(lots) \in Nat /\ DOMAIN lots = 1 .. Len(lots)
  BY <1>1, LenProperties
<1>3. \A k \in DOMAIN lots : lots[k] \in Lot
  BY <1>1, <1>2, ElementOfSeq
<1>4. QED
  BY <1>2, <1>3 DEF ClockInv, RowsTyped, RequestsHonest

\* What makes the invariant, part by part.
Kept == LotKept /\ RostersKept

\* Rows nobody writes stay as they are.
LEMMA RowsStay ==
  ASSUME UNCHANGED db, Kept
  PROVE  Kept'
<1>1. LotKept'
  BY DEF db, Kept, LotKept, LotIsWhole, HighBidderCanPay, BidClockFitsLot, NoLotAtRest, ClockOf
<1>2. RostersKept'
  BY DEF db, Kept, RostersKept, RosterWithinSize, RosteredAreActive, PricesAreSales,
         PutUpByNobody
<1>3. QED
  BY <1>1, <1>2 DEF Kept

\* A step that changes one request and no row.
LEMMA OneLotRequest ==
  ASSUME ClockInv, LotInv, NEW p \in Proc, UNCHANGED db, NEW r, LotSeen(r),
         tx' = [tx EXCEPT ![p] = r]
  PROVE  LotInv'
<1>1. \A q \in Proc : tx'[q] = IF q = p THEN r ELSE tx[q]
  BY DEF ClockInv, RowsTyped
<1>2. Kept'
  BY RowsStay DEF LotInv, Kept
<1>3. ASSUME NEW q \in Proc PROVE LotSeen(tx[q])'
  <2>1. LotSeen(tx'[q])
    BY <1>1 DEF LotInv
  <2>2. /\ UNCHANGED <<draft, expired, budget, teamOf, captain, reg>>
        /\ UNCHANGED <<price, flagged, soldAs, lots>>
    BY DEF db
  <2>3. QED
    BY <2>1, <2>2
    DEF LotSeen, ClockSeen, DecidedRight, StillSo, OpensALot, Opening, MayNominate, Pool,
        Purchases, UnderWay, ClockOf, OnlyByNobody, PutUpByNobody
<1>4. QED
  BY <1>2, <1>3 DEF LotInv, Kept

\* A refused transaction ends.
LEMMA LotEndsQuietly ==
  ASSUME ClockInv, LotInv, NEW p \in Proc, tx[p].pc # "idle", UNCHANGED db,
         tx' = [tx EXCEPT ![p] = After(tx[p])]
  PROVE  LotInv'
<1>1. After(tx[p]).pc # "claim"
  BY AfterTyped, LotTypes
<1>2. LotSeen(After(tx[p]))
  BY <1>1 DEF LotSeen
<1>3. QED
  BY <1>2, OneLotRequest

\* An arrival decides nothing yet.
LEMMA LotArrival ==
  ASSUME ClockInv, LotInv, NEW p \in Proc, Arrives(p)
  PROVE  LotInv'
<1>1. ASSUME NEW r, r.pc = "begin", Begins(p, r) PROVE LotInv'
  <2>1. LotSeen(r)
    BY <1>1 DEF LotSeen
  <2>2. QED
    BY <1>1, <2>1, OneLotRequest DEF Begins
<1>2. \A call, op : Request(call, op).pc = "begin"
  BY DEF Request, Idle
<1>3. CASE BidCall(p)
  BY <1>1, <1>3 DEF BidCall, Request, Idle
<1>4. CASE NominateCall(p)
  BY <1>1, <1>4 DEF NominateCall, Request, Idle
<1>5. CASE PollCall(p) \/ AdminCall(p)
  BY <1>1, <1>2, <1>5 DEF PollCall, AdminCall
<1>6. CASE UndoCall(p)
  BY <1>1, <1>6 DEF UndoCall, Request, Idle
<1>7. CASE MemberCall(p)
  BY <1>1, <1>7 DEF MemberCall, Request, Idle
<1>8. QED
  BY <1>3, <1>4, <1>5, <1>6, <1>7 DEF Arrives

-----------------------------------------------------------------------------
(* Transactions read *)

\* What a transaction has just decided is right of the rows it has just read.
LEMMA DecidedNow ==
  ASSUME ClockInv, LotInv, NEW p \in Proc, NEW ok, NEW t \in Tx, NEW op, Reads(p, op, ok, t),
         t.op = op, ok => DecidedRight(Decided(t)) /\ StillSo(Decided(t))
  PROVE  LotInv'
<1>1. CASE ~ok
  BY <1>1, LotEndsQuietly DEF Reads
<1>2. CASE ok
  <2>1. Decided(t).snap = draft
    BY DEF Decided, Tx
  <2>2. LotSeen(Decided(t))
    BY <1>2, <2>1 DEF LotSeen, ClockSeen
  <2>3. QED
    BY <1>2, <2>2, OneLotRequest DEF Reads, Decided
<1>3. QED
  BY <1>1, <1>2

\* A row that was read as it is.
LEMMA DecidedFields ==
  ASSUME ClockInv, NEW t \in Tx
  PROVE  LET d == Decided(t) IN
         /\ d.op = t.op /\ d.plan = t.plan /\ d.user = t.user /\ d.team = t.team
         /\ d.amount = t.amount /\ d.lot = t.lot /\ d.by = t.by /\ d.clock = t.clock
         /\ d.stale = t.stale /\ d.snap = draft /\ d.pc = "claim"
BY DEF Decided, Tx

\* A transaction that has decided is right as long as its row stands.
LEMMA LotReading ==
  ASSUME ClockInv, PhaseInv, LotInv, NEW p \in Proc, ReadsRows(p)
  PROVE  LotInv'
<1> DEFINE me == tx[p]
<1>1. /\ me \in Tx /\ Honest(me) /\ draft \in DraftRow /\ ClockDiscipline
      /\ budget \in [Team -> Nat] /\ NoLotAtRest
  BY LotTypes DEF ClockInv, LotInv, RostersKept, LotKept
<1>2. \A t \in Team : Count(teamOf)[t] \in Nat
  BY CountType
<1>3. CASE BidRead(p)
  <2> DEFINE c == TeamCaptainedBy(me.by)
             t == [me EXCEPT !.team = c, !.view = NoRow, !.clock = ClockOf(me.amount, c)]
             ok == /\ Live
                   /\ SameLot(me.view) /\ draft.updatedAt = me.view.updatedAt
                   /\ draft.bidEndsAt = me.view.bidEndsAt
                   /\ draft.status = "IN_PROGRESS" /\ draft.nominatedUser # None
                   /\ draft.bidEndsAt # None /\ ~expired
                   /\ c # None /\ draft.bidTeam # c
                   /\ CanBid(budget[c], Count(teamOf)[c], me.amount, draft.currentBid)
  <2>1. Reads(p, "bid", ok, t) /\ me.op = "bid"
    BY <1>3 DEF BidRead, Reads
  <2>2. c \in Orl(Team)
    BY DEF TeamCaptainedBy, Orl
  <2>3. t \in Tx
    BY <1>1, <2>2, ClockOfTyped, NoRowTyped, Zenon DEF Tx
  <2>4. t.op = "bid" /\ t.team = c /\ t.amount = me.amount /\ t.clock = ClockOf(me.amount, c)
    BY <1>1, <2>1 DEF Tx
  <2> HIDE DEF t, c
  <2>5. ok => DecidedRight(Decided(t)) /\ StillSo(Decided(t))
    BY <2>3, <2>4, DecidedFields DEF DecidedRight, StillSo, OpensALot
  <2>6. QED
    BY <2>1, <2>3, <2>4, <2>5, DecidedNow
<1>4. CASE NominateRead(p)
  <2> DEFINE c == draft.nominatorTeam
             t == [me EXCEPT !.team = c, !.view = NoRow, !.clock = ClockOf(me.amount, c)]
             ok == /\ Live
                   /\ draft.updatedAt = me.view.updatedAt
                   /\ draft.nominatorTeam = me.view.nominatorTeam
                   /\ draft.nominationEndsAt = me.view.nominationEndsAt
                   /\ draft.status = "IN_PROGRESS" /\ draft.nominatedUser = None
                   /\ c # None /\ MayNominate(c, me.by)
                   /\ me.user \in Pool(teamOf)
                   /\ me.amount >= MinBid /\ me.amount <= MaxBid(budget[c], Count(teamOf)[c])
  <2>1. Reads(p, "nominate", ok, t) /\ me.op = "nominate"
    BY <1>4 DEF NominateRead, Reads
  <2>2. c \in Orl(Team) /\ (c # None => c \in Team) /\ me.amount \in Nat
    BY <1>1 DEF Orl, DraftRow, Tx
  <2>3. t \in Tx
    BY <1>1, <2>2, ClockOfTyped, NoRowTyped, Zenon DEF Tx
  <2>4. /\ t.op = "nominate" /\ t.team = c /\ t.amount = me.amount
        /\ t.clock = ClockOf(me.amount, c) /\ t.user = me.user /\ t.by = me.by
    BY <1>1, <2>1 DEF Tx
  <2>5. ok => CanBid(budget[c], Count(teamOf)[c], me.amount, 0)
    BY <1>1, <1>2, <2>2, BidIsCovered
  <2> HIDE DEF t
  <2>6. ok => DecidedRight(Decided(t)) /\ StillSo(Decided(t))
    BY <2>3, <2>4, <2>5, DecidedFields DEF DecidedRight, StillSo, OpensALot, Opening, Pool
  <2>7. QED
    BY <2>1, <2>3, <2>4, <2>6, DecidedNow
<1>5. CASE StalledRead(p)
  <2> DEFINE c == draft.nominatorTeam
             best == {u \in Pool(teamOf) : \A v \in Pool(teamOf) : Mmr[v] <= Mmr[u]}
             next == NextNominator(budget, Count(teamOf), c)
             here == /\ draft.status = "IN_PROGRESS" /\ draft.nominatedUser = None
                     /\ c # None /\ draft.nominationEndsAt # None /\ expired /\ Live
             advance == [me EXCEPT !.plan = "advance", !.team = next]
             complete == [me EXCEPT !.plan = "complete"]
             open(u) == [me EXCEPT !.plan = "open", !.user = u, !.team = c,
                                   !.clock = ClockOf(MinBid, c)]
  <2>1. me.op = "stalled"
    BY <1>5 DEF StalledRead, Reads
  <2>2. c # None => c \in Team
    BY <1>1 DEF Orl, DraftRow
  <2>3. {"advance", "complete", "open"} \subseteq Plans
    BY DEF Plans
  <2>4. CASE Reads(p, "stalled", FALSE, me)
    BY <1>1, <2>1, <2>4, DecidedNow
  <2>5. CASE here /\ SomeoneCanNominate(budget, Count(teamOf), c)
             /\ Reads(p, "stalled", TRUE, advance)
    <3>1. next \in Orl(Team)
      BY <2>2, <2>5, NextNominatorTyped DEF Orl
    <3> HIDE DEF next
    <3>2. advance \in Tx
      BY <1>1, <2>3, <3>1, Zenon DEF Tx
    <3>3. advance.op = "stalled" /\ advance.plan = "advance"
      BY <1>1, <2>1 DEF Tx
    <3> HIDE DEF advance
    <3>4. DecidedRight(Decided(advance)) /\ StillSo(Decided(advance))
      BY <2>5, <3>2, <3>3, DecidedFields DEF DecidedRight, StillSo, OpensALot
    <3>5. QED
      BY <2>5, <3>2, <3>3, <3>4, DecidedNow
  <2>6. CASE /\ here /\ Reads(p, "stalled", TRUE, complete)
             /\ \/ best = {}
                \/ ~CanTakeTurn(c) /\ ~SomeoneCanNominate(budget, Count(teamOf), c)
    <3>1. complete \in Tx
      BY <1>1, <2>3, Zenon DEF Tx
    <3>2. complete.op = "stalled" /\ complete.plan = "complete"
      BY <1>1, <2>1 DEF Tx
    <3>3. \/ Pool(teamOf) = {}
          \/ \A m \in Team : ~CanNominate(budget[m], Count(teamOf)[m])
      <4>1. CASE best = {}
        BY <4>1, BestExists
      <4>2. CASE ~SomeoneCanNominate(budget, Count(teamOf), c)
        BY <2>2, <2>6, <4>2, RotationIsWhole
      <4>3. QED
        BY <2>6, <4>1, <4>2
    <3> HIDE DEF complete
    <3>4. DecidedRight(Decided(complete)) /\ StillSo(Decided(complete))
      BY <2>6, <3>1, <3>2, <3>3, DecidedFields DEF DecidedRight, StillSo, OpensALot
    <3>5. QED
      BY <2>6, <3>1, <3>2, <3>4, DecidedNow
  <2>7. CASE here /\ CanTakeTurn(c) /\ \E u \in best : Reads(p, "stalled", TRUE, open(u))
    <3>1. PICK u \in best : Reads(p, "stalled", TRUE, open(u))
      BY <2>7
    <3>2. u \in User /\ u \in Orl(User) /\ teamOf[u] = None /\ c \in Team /\ c \in Orl(Team)
      BY <2>2, <2>7 DEF Pool, Orl
    <3> DEFINE t == open(u)
    <3>3. t \in Tx
      BY <1>1, <2>3, <3>2, ClockOfTyped, Zenon DEF Tx
    <3>4. t.op = "stalled" /\ t.plan = "open" /\ t.user = u /\ t.team = c
          /\ t.clock = ClockOf(MinBid, c)
      BY <1>1, <2>1 DEF Tx
    <3>5. CanBid(budget[c], Count(teamOf)[c], MinBid, 0)
      BY <1>1, <1>2, <2>7, <3>2, OpensAtMinimum DEF CanTakeTurn
    <3>6. Reads(p, "stalled", TRUE, t)
      BY <3>1
    <3> HIDE DEF t
    <3>7. DecidedRight(Decided(t)) /\ StillSo(Decided(t))
      BY <2>7, <3>2, <3>3, <3>4, <3>5, DecidedFields
      DEF DecidedRight, StillSo, OpensALot, Opening
    <3>8. QED
      BY <3>3, <3>4, <3>6, <3>7, DecidedNow
  <2>8. QED
    BY <1>5, <2>4, <2>5, <2>6, <2>7 DEF StalledRead
<1>6. CASE SettleRead(p)
  <2>1. Reads(p, "settle", /\ draft.status = "IN_PROGRESS" /\ draft.nominatedUser # None
                           /\ draft.bidTeam # None /\ draft.bidEndsAt # None
                           /\ expired /\ Live, me) /\ me.op = "settle"
    BY <1>6 DEF SettleRead, Reads
  <2>2. draft.status = "IN_PROGRESS" /\ draft.nominatedUser # None /\ expired
          => DecidedRight(Decided(me)) /\ StillSo(Decided(me))
    BY <1>1, <2>1, DecidedFields DEF DecidedRight, StillSo, OpensALot
  <2>3. QED
    BY <1>1, <2>1, <2>2, DecidedNow
<1>7. CASE ResumeRead(p)
  <2> DEFINE c == IF draft.nominatedUser = None THEN "none"
                  ELSE ClockOf(draft.currentBid, draft.bidTeam)
             t == [me EXCEPT !.clock = c]
  <2>1. Reads(p, "resume", Live /\ draft.status = "PAUSED", t) /\ me.op = "resume"
    BY <1>7 DEF ResumeRead, Reads
  <2>2. c \in {"none", "full", "short"}
    BY ClockOfTyped
  <2>3. t \in Tx
    BY <1>1, <2>2, Zenon DEF Tx
  <2>4. t.op = "resume" /\ t.clock = c
    BY <1>1, <2>1 DEF Tx
  <2> HIDE DEF t
  <2>5. draft.status = "PAUSED" => DecidedRight(Decided(t)) /\ StillSo(Decided(t))
    BY <2>3, <2>4, DecidedFields DEF DecidedRight, StillSo, OpensALot
  <2>6. QED
    BY <2>1, <2>3, <2>4, <2>5, DecidedNow
<1>8. CASE VoidRead(p)
  <2>1. Reads(p, "void", Live /\ draft.status = "PAUSED" /\ draft.nominatedUser # None, me)
        /\ me.op = "void"
    BY <1>8 DEF VoidRead, Reads
  <2>2. draft.status = "PAUSED" /\ draft.nominatedUser # None
          => DecidedRight(Decided(me)) /\ StillSo(Decided(me))
    BY <1>1, <2>1, DecidedFields DEF DecidedRight, StillSo, OpensALot
  <2>3. QED
    BY <1>1, <2>1, <2>2, DecidedNow
<1>9. CASE UndoRead(p)
  <2> DEFINE ok == /\ Live /\ draft.status # "NOT_STARTED" /\ draft.nominatedUser = None
                   /\ Purchases # {} /\ NewestPurchase = me.user
                   /\ soldAs[me.user] = me.lot
  <2>1. Reads(p, "undo", ok, me) /\ me.op = "undo"
    BY <1>9 DEF UndoRead, Reads
  <2>2. RowsTyped
    BY DEF ClockInv
  <2>3. ok => \A u \in Purchases : soldAs[u] <= me.lot
    BY <2>2, NewestTyped
  <2>4. ok => DecidedRight(Decided(me)) /\ StillSo(Decided(me))
    BY <1>1, <2>1, <2>3, DecidedFields DEF DecidedRight, StillSo, OpensALot
  <2>5. QED
    BY <1>1, <2>1, <2>4, DecidedNow
<1>10. ASSUME NEW op, NEW ok, Reads(p, op, ok, me),
              op \in {"pause", "abort", "start", "archive", "reactivate"}
       PROVE  LotInv'
  <2>1. me.op = op
    BY <1>10 DEF Reads
  <2>2. DecidedRight(Decided(me)) /\ StillSo(Decided(me))
    BY <1>1, <1>10, <2>1, DecidedFields DEF DecidedRight, StillSo, OpensALot
  <2>3. QED
    BY <1>1, <1>10, <2>1, <2>2, DecidedNow
<1>11. CASE PauseRead(p) \/ AbortRead(p) \/ StartRead(p)
  BY <1>10, <1>11 DEF PauseRead, AbortRead, StartRead
<1>12. CASE ArchiveRead(p) \/ ReactivateRead(p)
  BY <1>10, <1>12 DEF ArchiveRead, ReactivateRead
<1>13. CASE PhaseRead(p)
  <2> DEFINE t == [me EXCEPT !.plan = PhaseTarget]
             ok == season.active /\ PhaseTarget # "none"
  <2>1. Reads(p, "phase", ok, t) /\ me.op = "phase"
    BY <1>13 DEF PhaseRead, Reads
  <2>2. PhaseTarget \in Plans
    BY DEF PhaseTarget, Plans
  <2>3. t \in Tx
    BY <1>1, <2>2, Zenon DEF Tx
  <2>4. t.op = "phase"
    BY <1>1, <2>1 DEF Tx
  <2> HIDE DEF t
  <2>5. DecidedRight(Decided(t)) /\ StillSo(Decided(t))
    BY <2>3, <2>4, DecidedFields DEF DecidedRight, StillSo, OpensALot
  <2>6. QED
    BY <2>1, <2>3, <2>4, <2>5, DecidedNow
<1>14. CASE WithdrawRead(p)
  <2>1. Reads(p, "withdraw", season.active /\ ~OnTheBlock(me.user) /\ teamOf[me.user] = None, me)
        /\ me.op = "withdraw" /\ me.pc = "begin"
    BY <1>14 DEF WithdrawRead, Reads
  <2>2. me.user \in User /\ me.user # None
    BY <1>1, <2>1, NoneApart DEF Honest, NamesAUser
  <2>3. ~OnTheBlock(me.user) => draft.nominatedUser # me.user
    BY <1>1, <2>2 DEF OnTheBlock, NoLotAtRest, DraftRow, Status
  <2>4. ~OnTheBlock(me.user) /\ teamOf[me.user] = None
          => DecidedRight(Decided(me)) /\ StillSo(Decided(me))
    BY <1>1, <2>1, <2>3, DecidedFields DEF DecidedRight, StillSo, OpensALot, OnlyByNobody
  <2>5. QED
    BY <1>1, <2>1, <2>4, DecidedNow
<1>15. CASE ReinstateRead(p) \/ TransferRead(p)
  <2>1. PICK op \in {"reinstate", "transfer"}, ok \in BOOLEAN :
          Reads(p, op, ok, me) /\ (ok => draft.status \notin {"IN_PROGRESS", "PAUSED"})
    BY <1>15 DEF ReinstateRead, TransferRead, Reads
  <2>2. me.op = op
    BY <2>1 DEF Reads
  <2>3. ok => DecidedRight(Decided(me)) /\ StillSo(Decided(me))
    BY <1>1, <2>1, <2>2, DecidedFields DEF DecidedRight, StillSo, OpensALot, UnderWay
  <2>4. QED
    BY <1>1, <2>1, <2>2, <2>3, DecidedNow
<1>16. RostersOpen => ~UnderWay
  BY <1>1 DEF RostersOpen, UnderWay, PhaseInv, AuctionOnlyInDraftPhase, Live
<1>17. CASE SignRead(p)
  <2>1. Reads(p, "sign", RostersOpen /\ reg[me.user] = "ACTIVE"
                         /\ Count(teamOf)[me.team] < TeamSize, me) /\ me.op = "sign"
    BY <1>17 DEF SignRead, Reads
  <2>2. RostersOpen /\ reg[me.user] = "ACTIVE" /\ Count(teamOf)[me.team] < TeamSize
          => DecidedRight(Decided(me)) /\ StillSo(Decided(me))
    BY <1>1, <1>16, <2>1, DecidedFields DEF DecidedRight, StillSo, OpensALot
  <2>3. QED
    BY <1>1, <2>1, <2>2, DecidedNow
<1>18. CASE ReleaseRead(p)
  <2>1. Reads(p, "release", RostersOpen /\ teamOf[me.user] = me.team, me) /\ me.op = "release"
    BY <1>18 DEF ReleaseRead, Reads
  <2>2. RostersOpen => DecidedRight(Decided(me)) /\ StillSo(Decided(me))
    BY <1>1, <1>16, <2>1, DecidedFields DEF DecidedRight, StillSo, OpensALot
  <2>3. QED
    BY <1>1, <2>1, <2>2, DecidedNow
<1>19. QED
  BY <1>3, <1>4, <1>5, <1>6, <1>7, <1>8, <1>9, <1>11, <1>12, <1>13, <1>14, <1>15, <1>17,
     <1>18 DEF ReadsRows

-----------------------------------------------------------------------------
(* What the others saw survives a commit *)

\* The open transactions after a commit are those before it, some of them stale.
LEMMA StillOpen ==
  ASSUME ClockInv, NEW p \in Proc, NEW op, Landed(p, op), NEW q \in Proc, tx'[q].pc = "claim"
  PROVE  LET s == tx'[q]  t == tx[q] IN
         /\ q # p /\ t.pc = "claim" /\ t \in Tx
         /\ s.op = t.op /\ s.plan = t.plan /\ s.user = t.user /\ s.team = t.team
         /\ s.amount = t.amount /\ s.lot = t.lot /\ s.by = t.by /\ s.clock = t.clock
         /\ s.snap = t.snap
         /\ ~s.stale => ~t.stale /\ ~Conflicts(op, t.op)
<1>1. tx[p] \in Tx /\ tx[q] \in Tx /\ (tx[p].pc # "idle" => After(tx[p]).pc # "claim")
  BY LotTypes, AfterTyped
<1>2. q # p /\ tx'[q] = Spoils(op, tx[q])
  BY <1>1 DEF Landed
<1>3. QED
  BY <1>1, <1>2 DEF Spoils, Tx

\* The Draft row after a write: a version and clocks nobody has read.
RowIsNew ==
  /\ expired' = FALSE /\ Now \in Stamp /\ Now # None /\ Now \notin HeldStamps
  /\ draft'.bidEndsAt \in {None, Now} /\ draft'.nominationEndsAt \in {None, Now}
  /\ \A q \in Proc : tx[q].snap.updatedAt # draft'.updatedAt

LEMMA WrittenRowIsNew ==
  ASSUME ClockInv, ClockInv', NEW row, Write(row),
         draft'.bidEndsAt \in {None, Now}, draft'.nominationEndsAt \in {None, Now}
  PROVE  RowIsNew
<1>1. expired' = FALSE /\ Now \in Stamp /\ Now # None /\ Now \notin HeldStamps
  BY NoneApart DEF Write, Now
<1>2. QED
  BY <1>1, NewVersion DEF RowIsNew

\* When the Draft row is written nobody's row stands.  The transactions that did
\* not read the row's clocks are SERIALIZABLE: the write made them stale, but for
\* one by a resolver or a button, and those put nobody up but without an opener.
LEMMA OthersOnNewRow ==
  ASSUME ClockInv, LotInv, NEW p \in Proc, NEW op \in Ops, Landed(p, op), RowIsNew,
         \/ op \in Serializable
         \/ UnderWay /\ \A u \in User : OnlyByNobody(u) => OnlyByNobody(u)'
  PROVE  \A q \in Proc : LotSeen(tx[q])'
<1> SUFFICES ASSUME NEW q \in Proc, tx'[q].pc = "claim" PROVE LotSeen(tx[q])'
  BY DEF LotSeen
<1> DEFINE s == tx'[q]
           t == tx[q]
<1>1. /\ t.pc = "claim" /\ t \in Tx /\ s.op = t.op /\ s.user = t.user /\ s.lot = t.lot
      /\ s.snap = t.snap /\ (~s.stale => ~t.stale /\ ~Conflicts(op, t.op))
  BY StillOpen
<1>2. StillSo(t) /\ Honest(t)
  BY <1>1, LotTypes DEF LotInv, LotSeen
<1>3. t.snap.bidEndsAt \in HeldStamps /\ t.snap.nominationEndsAt \in HeldStamps
  BY DEF HeldStamps
<1>4. s.snap # draft'
  BY <1>1 DEF RowIsNew
<1>5. ClockSeen(tx[q])'
  BY <1>1, <1>3 DEF ClockSeen, RowIsNew
<1>6. DecidedRight(tx[q])'
  BY <1>4 DEF DecidedRight
<1>7. StillSo(tx[q])'
  <2>1. CASE s.stale \/ s.op \notin {"reinstate", "sign", "release", "transfer", "withdraw", "undo"}
    BY <2>1 DEF StillSo
  <2>2. CASE ~s.stale /\ s.op \in {"reinstate", "sign", "release", "transfer", "withdraw", "undo"}
    <3>1. op \notin Serializable /\ ~t.stale
      BY <1>1, <2>2 DEF Conflicts, Serializable
    <3>2. s.op # "undo"
      BY <1>1, <2>2, <3>1 DEF Conflicts, Serializable, WritesDraft, Ops
    <3>3. s.op \notin {"reinstate", "sign", "release", "transfer"}
      BY <1>1, <1>2, <2>2, <3>1 DEF StillSo
    <3>4. s.op = "withdraw" /\ t.user \in User /\ OnlyByNobody(t.user)
      BY <1>1, <1>2, <2>2, <3>1, <3>2, <3>3 DEF StillSo, Honest, NamesAUser
    <3>5. \A u \in User : OnlyByNobody(u) => OnlyByNobody(u)'
      BY <3>1
    <3>6. /\ draft'.nominatedUser = t.user => lots'[draft'.currentLot].by = None
          /\ teamOf'[t.user] # None =>
               soldAs'[t.user] \in DOMAIN lots' /\ lots'[soldAs'[t.user]].by = None
      BY <3>4, <3>5 DEF OnlyByNobody, PutUpByNobody
    <3>7. QED
      BY <1>1, <2>2, <3>4, <3>6 DEF StillSo, OnlyByNobody, PutUpByNobody
  <2>3. QED
    BY <2>1, <2>2
<1>8. QED
  BY <1>5, <1>6, <1>7 DEF LotSeen

\* A lot keeps whom it was put up by.
OpenersStand == \A k \in DOMAIN lots : k \in DOMAIN lots' /\ lots'[k].by = lots[k].by

\* Whoever was put up by nobody stays so while the lot stands or leaves the block
\* and no roster moves.
LEMMA NobodysStay ==
  ASSUME OpenersStand, UNCHANGED <<teamOf, soldAs>>,
         draft.nominatedUser # None => draft.currentLot \in DOMAIN lots,
         \/ draft'.nominatedUser = None
         \/ /\ draft'.nominatedUser = draft.nominatedUser
            /\ draft'.currentLot = draft.currentLot
  PROVE  \A u \in User : OnlyByNobody(u) => OnlyByNobody(u)'
BY NoneApart DEF OpenersStand, OnlyByNobody, PutUpByNobody

\* A SERIALIZABLE operation that leaves the Draft row alone moves no money and
\* no roster while an auction is under way.
LEMMA OthersOnOldRow ==
  ASSUME ClockInv, LotInv, NEW p \in Proc, NEW op \in Serializable, Landed(p, op),
         UNCHANGED <<draft, expired>>,
         UnderWay => /\ UNCHANGED <<budget, teamOf, captain>>
                     /\ \A u \in User : reg'[u] = "ACTIVE" => reg[u] = "ACTIVE"
  PROVE  \A q \in Proc : LotSeen(tx[q])'
<1> SUFFICES ASSUME NEW q \in Proc, tx'[q].pc = "claim" PROVE LotSeen(tx[q])'
  BY DEF LotSeen
<1> DEFINE s == tx'[q]
           t == tx[q]
<1>1. /\ t.pc = "claim" /\ t \in Tx /\ s.op = t.op /\ s.user = t.user /\ s.lot = t.lot
      /\ s.plan = t.plan /\ s.team = t.team /\ s.amount = t.amount /\ s.by = t.by
      /\ s.clock = t.clock
      /\ s.snap = t.snap /\ (~s.stale => ~t.stale /\ ~Conflicts(op, t.op))
  BY StillOpen
<1>2. ClockSeen(t) /\ DecidedRight(t) /\ StillSo(t)
  BY <1>1 DEF LotInv, LotSeen
<1>3. ClockSeen(tx[q])'
  BY <1>1, <1>2 DEF ClockSeen
<1>4. StillSo(tx[q])'
  <2>1. ~s.stale => s.op \notin Serializable
    BY <1>1 DEF Conflicts
  <2>2. QED
    BY <2>1 DEF StillSo, Serializable
<1>5. DecidedRight(tx[q])'
  <2>1. CASE UnderWay
    <3>1. UNCHANGED <<budget, teamOf, captain>> /\ Pool(teamOf)' \subseteq Pool(teamOf)
      BY <2>1 DEF Pool
    <3>2. \A a, c : ClockOf(a, c)' = ClockOf(a, c)
      BY <3>1 DEF ClockOf
    <3> HIDE DEF s, t
    <3>3. QED
      BY <1>1, <1>2, <3>1, <3>2 DEF DecidedRight, OpensALot, Opening, MayNominate, s, t
  <2>2. CASE ~UnderWay
    <3>1. t.snap = draft =>
            t.op \notin {"bid", "nominate", "settle", "stalled", "resume", "void"}
      BY <1>2, <2>2 DEF DecidedRight, UnderWay
    <3>2. QED
      BY <1>1, <3>1 DEF DecidedRight, OpensALot
  <2>3. QED
    BY <2>1, <2>2
<1>6. QED
  BY <1>3, <1>4, <1>5 DEF LotSeen

-----------------------------------------------------------------------------
(* What the rows keep *)

\* The claims that compare the version or the clock match the row that was read.
LEMMA ReadThisRow ==
  ASSUME ClockInv, LotInv, NEW p \in Proc, tx[p].pc = "claim",
         \/ draft.updatedAt = tx[p].snap.updatedAt
         \/ tx[p].op = "settle" /\ SettleClaim(tx[p])
         \/ tx[p].op = "stalled" /\ StalledClaim(tx[p])
  PROVE  tx[p].snap = draft /\ DecidedRight(tx[p])
<1> DEFINE me == tx[p]
<1>1. Honest(me) /\ ClockDiscipline /\ ClockSeen(me) /\ DecidedRight(me)
  BY LotTypes DEF LotInv, LotSeen, ClockInv
<1>2. CASE draft.updatedAt = me.snap.updatedAt
  BY <1>1, <1>2 DEF ClockInv, VersionNamesRow
<1>3. CASE me.op = "settle" /\ SettleClaim(me)
  <2>1. draft.nominatedUser # None /\ draft.status = "IN_PROGRESS"
        /\ draft.bidEndsAt = me.snap.bidEndsAt
    BY <1>1, <1>3, NoneApart DEF SettleClaim, SameLot, Honest
  <2>2. QED
    BY <1>1, <2>1 DEF ClockDiscipline, ClockSeen
<1>4. CASE me.op = "stalled" /\ StalledClaim(me)
  BY <1>1, <1>4 DEF StalledClaim, Honest, ClockSeen
<1>5. QED
  BY <1>1, <1>2, <1>3, <1>4

\* No lot is on the block any more, and the one that was is closed.
LEMMA LotCloses ==
  ASSUME LotKept,
         draft'.nominatedUser = None, draft'.bidTeam = None, draft'.currentBid = 0,
         draft'.currentLot = 0, draft'.bidEndsAt = None,
         \A k \in DOMAIN lots' : lots'[k].status = "OPEN" =>
           k \in DOMAIN lots /\ lots[k].status = "OPEN" /\ k # draft.currentLot
  PROVE  LotKept'
<1>1. {k \in DOMAIN lots' : lots'[k].status = "OPEN"} = {}
  BY DEF LotKept, LotIsWhole
<1>2. LotIsWhole'
  BY <1>1 DEF LotIsWhole
<1>3. QED
  BY <1>2 DEF LotKept, HighBidderCanPay, BidClockFitsLot, NoLotAtRest

\* The lot on the block stays as it is.
LEMMA LotStands ==
  ASSUME LotKept, UNCHANGED <<budget, teamOf, lots>>,
         draft'.nominatedUser = draft.nominatedUser, draft'.bidTeam = draft.bidTeam,
         draft'.currentBid = draft.currentBid, draft'.currentLot = draft.currentLot,
         \/ draft'.bidEndsAt = None
         \/ draft'.clock = ClockOf(draft.currentBid, draft.bidTeam)
         \/ UNCHANGED draft,
         draft'.status \in {"NOT_STARTED", "COMPLETE"} => draft.nominatedUser = None
  PROVE  LotKept'
<1>1. LotIsWhole' /\ HighBidderCanPay' /\ NoLotAtRest'
  BY DEF LotKept, LotIsWhole, HighBidderCanPay, NoLotAtRest
<1>2. BidClockFitsLot'
  BY DEF LotKept, BidClockFitsLot, ClockOf
<1>3. QED
  BY <1>1, <1>2 DEF LotKept

\* A sold lot is still the sale it was.
SaleStands(k) ==
  /\ k \in DOMAIN lots' /\ lots'[k].status = lots[k].status /\ lots'[k].user = lots[k].user
  /\ lots'[k].soldTeam = lots[k].soldTeam /\ lots'[k].soldPrice = lots[k].soldPrice

\* Nobody joins or leaves a roster.
LEMMA RostersStand ==
  ASSUME RostersKept, UNCHANGED <<teamOf, price, soldAs>>, budget' \in [Team -> Nat],
         \A u \in User : teamOf[u] # None /\ reg'[u] # "ACTIVE" =>
           reg[u] # "ACTIVE" \/ PutUpByNobody(u),
         OpenersStand, \A k \in DOMAIN lots : lots[k].status = "SOLD" => SaleStands(k)
  PROVE  RostersKept'
<1>1. RosterWithinSize' /\ RosteredAreActive'
  BY DEF RostersKept, RosterWithinSize, RosteredAreActive, PutUpByNobody, OpenersStand
<1>2. PricesAreSales'
  BY DEF RostersKept, PricesAreSales, SaleStands
<1>3. QED
  BY <1>1, <1>2 DEF RostersKept

\* A player leaves a roster, and no other player's sale is touched.
LEMMA PlayerLeaves ==
  ASSUME ClockInv, RostersKept, NEW u \in User, NEW t \in Team, teamOf[u] = t,
         LeavesTeam(u, t), UNCHANGED reg, OpenersStand,
         \A k \in DOMAIN lots : lots[k].status = "SOLD" /\ lots[k].user # u => SaleStands(k)
  PROVE  RostersKept'
<1>1. /\ teamOf \in [User -> Orl(Team)] /\ price \in [User -> Nat]
      /\ soldAs \in [User -> Nat] /\ budget \in [Team -> Nat]
  BY LotTypes DEF RostersKept
<1>2. /\ teamOf' = [teamOf EXCEPT ![u] = None] /\ price' = [price EXCEPT ![u] = 0]
      /\ soldAs' = [soldAs EXCEPT ![u] = 0] /\ budget' = [budget EXCEPT ![t] = @ + price[u]]
  BY DEF LeavesTeam
<1>3. budget' \in [Team -> Nat]
  BY <1>1, <1>2
<1>4. RosterWithinSize'
  <2> SUFFICES ASSUME NEW m \in Team PROVE Count(teamOf')[m] <= TeamSize
    BY DEF RosterWithinSize, Count
  <2>1. \A v \in User : teamOf'[v] = m => teamOf[v] = m
    BY <1>1, <1>2, NoneApart
  <2>2. Count(teamOf')[m] <= Count(teamOf)[m] /\ Count(teamOf)[m] <= TeamSize
    BY <2>1, NobodyJoins DEF RostersKept, RosterWithinSize
  <2>3. Count(teamOf')[m] \in Nat /\ Count(teamOf)[m] \in Nat /\ TeamSize \in Nat
    BY CountType, SizeAssumption
  <2>4. QED
    BY <2>2, <2>3
<1>5. RosteredAreActive'
  BY <1>1, <1>2 DEF RostersKept, RosteredAreActive, PutUpByNobody, OpenersStand
<1>6. PricesAreSales'
  <2> SUFFICES ASSUME NEW v \in User, price'[v] > 0
               PROVE  /\ soldAs'[v] \in DOMAIN lots'
                      /\ lots'[soldAs'[v]].status = "SOLD" /\ lots'[soldAs'[v]].user = v
                      /\ lots'[soldAs'[v]].soldTeam = teamOf'[v]
                      /\ lots'[soldAs'[v]].soldPrice = price'[v]
    BY DEF PricesAreSales
  <2>1. v # u /\ price'[v] = price[v] /\ soldAs'[v] = soldAs[v] /\ teamOf'[v] = teamOf[v]
    BY <1>1, <1>2
  <2>2. QED
    BY <2>1 DEF RostersKept, PricesAreSales, SaleStands
<1>7. QED
  BY <1>3, <1>4, <1>5, <1>6 DEF RostersKept

\* A player joins a roster that has a seat, at no price or as the sale of a lot.
LEMMA PlayerJoins ==
  ASSUME ClockInv, RostersKept, NEW u \in User, NEW t \in Team,
         teamOf[u] = None, reg[u] = "ACTIVE", UNCHANGED reg, Count(teamOf)[t] < TeamSize,
         teamOf'[u] = t, budget' \in [Team -> Nat], OpenersStand,
         \A v \in User \ {u} : /\ teamOf'[v] = teamOf[v]
                              /\ price'[v] = price[v] /\ soldAs'[v] = soldAs[v],
         \A k \in DOMAIN lots : lots[k].status = "SOLD" => SaleStands(k),
         price'[u] > 0 =>
           /\ soldAs'[u] \in DOMAIN lots'
           /\ lots'[soldAs'[u]].status = "SOLD" /\ lots'[soldAs'[u]].user = u
           /\ lots'[soldAs'[u]].soldTeam = t /\ lots'[soldAs'[u]].soldPrice = price'[u]
  PROVE  RostersKept'
<1>1. teamOf \in [User -> Orl(Team)]
  BY LotTypes
<1>2. teamOf'[u] = t /\ \A v \in User : v # u => teamOf'[v] = teamOf[v]
  OBVIOUS
<1>3. RosterWithinSize'
  <2> SUFFICES ASSUME NEW m \in Team PROVE Count(teamOf')[m] <= TeamSize
    BY DEF RosterWithinSize, Count
  <2>1. Count(teamOf')[m] \in Nat /\ Count(teamOf)[m] \in Nat /\ TeamSize \in Nat
        /\ Count(teamOf)[m] <= TeamSize
    BY CountType, SizeAssumption DEF RostersKept, RosterWithinSize
  <2>2. CASE m = t
    <3>1. teamOf[u] # t
      BY NoneApart
    <3>2. Count(teamOf')[t] = Count(teamOf)[t] + 1
      BY <1>2, <3>1, OneJoins
    <3>3. QED
      BY <2>1, <2>2, <3>2
  <2>3. CASE m # t
    <3>1. \A v \in User : teamOf'[v] = m => teamOf[v] = m
      BY <1>2, <2>3
    <3>2. Count(teamOf')[m] <= Count(teamOf)[m]
      BY <3>1, NobodyJoins
    <3>3. QED
      BY <2>1, <3>2
  <2>4. QED
    BY <2>2, <2>3
<1>4. RosteredAreActive'
  BY <1>2 DEF RostersKept, RosteredAreActive, PutUpByNobody, OpenersStand
<1>5. PricesAreSales'
  BY <1>2 DEF RostersKept, PricesAreSales, SaleStands
<1>6. QED
  BY <1>3, <1>4, <1>5 DEF RostersKept

-----------------------------------------------------------------------------
(* What each commit does *)

\* What there is to know of the rows before a commit.
LEMMA BlockFacts ==
  ASSUME ClockInv, LotInv
  PROVE  /\ draft.nominatedUser # None =>
              /\ draft.currentLot \in DOMAIN lots /\ draft.currentLot # 0
              /\ lots[draft.currentLot].status = "OPEN"
              /\ lots[draft.currentLot].user = draft.nominatedUser
              /\ \A k \in DOMAIN lots : lots[k].status = "OPEN" => k = draft.currentLot
              /\ draft.nominatedUser \in User /\ teamOf[draft.nominatedUser] = None
              /\ draft.bidTeam \in Team /\ draft.currentBid \in Nat
              /\ draft.currentBid >= MinBid
              /\ draft.currentBid <= MaxBid(budget[draft.bidTeam],
                                            Count(teamOf)[draft.bidTeam])
              /\ UnderWay
         /\ draft.nominatedUser = None =>
              /\ draft.bidTeam = None /\ draft.currentBid = 0 /\ draft.currentLot = 0
              /\ \A k \in DOMAIN lots : lots[k].status # "OPEN"
<1>1. /\ draft \in DraftRow /\ LotKept /\ DOMAIN lots = 1 .. Len(lots) /\ Len(lots) \in Nat
      /\ \A k \in DOMAIN lots : lots[k] \in Lot
  BY LotTypes DEF LotInv
<1>2. CASE draft.nominatedUser = None
  BY <1>1, <1>2 DEF LotKept, LotIsWhole
<1>3. CASE draft.nominatedUser # None
  <2>1. /\ draft.currentLot \in DOMAIN lots
        /\ lots[draft.currentLot].status = "OPEN"
        /\ \A k \in DOMAIN lots : lots[k].status = "OPEN" => k = draft.currentLot
        /\ lots[draft.currentLot].user = draft.nominatedUser
        /\ teamOf[draft.nominatedUser] = None
        /\ \E b \in lots[draft.currentLot].receipt :
             b.amount = draft.currentBid /\ b.team = draft.bidTeam
    BY <1>1, <1>3 DEF LotKept, LotIsWhole
  <2>2. draft.bidTeam \in Team
    BY <1>1, <2>1 DEF Lot, BidRow
  <2>3. draft.nominatedUser \in User /\ draft.currentBid \in Nat /\ UnderWay
    BY <1>1, <1>3 DEF DraftRow, Orl, Status, UnderWay, LotKept, NoLotAtRest
  <2>4. draft.currentLot # 0
    BY <1>1, <2>1
  <2>5. QED
    BY <1>1, <1>3, <2>1, <2>2, <2>3, <2>4 DEF LotKept, HighBidderCanPay
<1>4. QED
  BY <1>2, <1>3

\* A bid beats the price it read and is made by another team, which can pay it.
LEMMA BidEffect ==
  ASSUME ClockInv, ClockInv', LotInv, NEW p \in Proc, BidLand(p)
  PROVE  LET me  == tx[p]
             bid == BidRecord(draft.currentLot, draft.nominatedUser, me.team, me.amount)
         IN
         /\ Landed(p, "bid") /\ RowIsNew
         /\ draft.status = "IN_PROGRESS" /\ draft.nominatedUser # None
         /\ me.team \in Team /\ me.amount \in Nat /\ draft.bidTeam # me.team
         /\ CanBid(budget[me.team], Count(teamOf)[me.team], me.amount, draft.currentBid)
         /\ draft'.status = draft.status /\ draft'.nominatorTeam = draft.nominatorTeam
         /\ draft'.nominatedUser = draft.nominatedUser /\ draft'.currentBid = me.amount
         /\ draft'.bidTeam = me.team /\ draft'.currentLot = draft.currentLot
         /\ draft'.clock = ClockOf(me.amount, me.team)
         /\ bids' = bids \cup {bid} /\ DOMAIN lots' = DOMAIN lots
         /\ \A k \in DOMAIN lots :
              /\ lots'[k].status = lots[k].status /\ lots'[k].user = lots[k].user
              /\ lots'[k].by = lots[k].by
              /\ lots'[k].soldTeam = lots[k].soldTeam
              /\ lots'[k].soldPrice = lots[k].soldPrice
              /\ lots'[k].receipt = IF k = draft.currentLot THEN lots[k].receipt \cup {bid}
                                    ELSE lots[k].receipt
         /\ Len(lots') = Len(lots)
         /\ UNCHANGED <<season, ledger, reg>>
<1> DEFINE me == tx[p]
           bid == BidRecord(draft.currentLot, draft.nominatedUser, me.team, me.amount)
           row == [draft EXCEPT !.currentBid = me.amount, !.bidTeam = me.team,
                                !.bidEndsAt = Now, !.clock = me.clock]
<1>1. /\ Landed(p, "bid") /\ Write(row) /\ bids' = bids \cup {bid}
      /\ lots' = [lots EXCEPT ![draft.currentLot].receipt = @ \cup {bid}]
      /\ UNCHANGED <<season, ledger, reg>>
      /\ me.op = "bid" /\ me.pc = "claim" /\ draft.updatedAt = me.snap.updatedAt
  BY DEF BidLand, BidClaim, Lands, Landed
<1>2. me.snap = draft /\ DecidedRight(me)
  BY <1>1, ReadThisRow
<1>3. /\ draft.status = "IN_PROGRESS" /\ draft.nominatedUser # None /\ draft.bidTeam # me.team
      /\ me.clock = ClockOf(me.amount, me.team)
      /\ CanBid(budget[me.team], Count(teamOf)[me.team], me.amount, draft.currentBid)
  BY <1>1, <1>2 DEF DecidedRight
<1>4. me.team \in Team /\ me.amount \in Nat
  BY <1>1, LotTypes DEF Honest, Tx
<1>5. /\ draft'.status = draft.status /\ draft'.nominatorTeam = draft.nominatorTeam
      /\ draft'.nominatedUser = draft.nominatedUser /\ draft'.currentBid = me.amount
      /\ draft'.bidTeam = me.team /\ draft'.currentLot = draft.currentLot
      /\ draft'.clock = me.clock /\ draft'.bidEndsAt = Now
      /\ draft'.nominationEndsAt = draft.nominationEndsAt
  BY <1>1, LotTypes DEF Write, DraftRow
<1>6. draft.nominationEndsAt = None
  BY <1>3 DEF ClockInv, ClockDiscipline
<1>7. RowIsNew
  <2> HIDE DEF row
  <2>1. QED
    BY <1>1, <1>5, <1>6, WrittenRowIsNew
<1>8. /\ DOMAIN lots' = DOMAIN lots
      /\ \A k \in DOMAIN lots :
           /\ lots'[k].status = lots[k].status /\ lots'[k].user = lots[k].user
           /\ lots'[k].by = lots[k].by
           /\ lots'[k].soldTeam = lots[k].soldTeam /\ lots'[k].soldPrice = lots[k].soldPrice
           /\ lots'[k].receipt = IF k = draft.currentLot THEN lots[k].receipt \cup {bid}
                                 ELSE lots[k].receipt
  <2> HIDE DEF bid
  <2>1. QED
    BY <1>1, LotTypes DEF Lot
<1>9. Len(lots') = Len(lots)
  BY <1>8, LotTypes, LenProperties DEF ClockInv, RowsTyped
<1>10. QED
  BY <1>1, <1>3, <1>4, <1>5, <1>7, <1>8, <1>9

\* A lot opens for the team whose turn it is, which can pay its first price.
LEMMA OpenEffect ==
  ASSUME ClockInv, ClockInv', LotInv, NEW p \in Proc, NominateLand(p) \/ StalledOpens(p)
  PROVE  LET me  == tx[p]
             n   == Len(lots) + 1
             bid == BidRecord(n, me.user, me.team, Opening(me))
             by  == IF me.op = "nominate" THEN me.by ELSE None
         IN
         /\ me.op \in {"nominate", "stalled"} /\ Landed(p, me.op) /\ RowIsNew
         /\ draft.status = "IN_PROGRESS" /\ draft.nominatedUser = None
         /\ me.user \in User /\ me.team \in Team /\ Opening(me) \in Nat
         /\ me.team = draft.nominatorTeam /\ teamOf[me.user] = None
         /\ CanBid(budget[me.team], Count(teamOf)[me.team], Opening(me), 0)
         /\ me.op = "nominate" => MayNominate(me.team, me.by)
         /\ me.op = "stalled" => expired
         /\ draft'.status = draft.status /\ draft'.nominatorTeam = draft.nominatorTeam
         /\ draft'.nominatedUser = me.user /\ draft'.currentBid = Opening(me)
         /\ draft'.bidTeam = me.team /\ draft'.currentLot = n
         /\ draft'.clock = ClockOf(Opening(me), me.team)
         /\ bids' = bids \cup {bid}
         /\ n \notin DOMAIN lots /\ DOMAIN lots' = DOMAIN lots \cup {n} /\ Len(lots') = n
         /\ \A k \in DOMAIN lots : lots'[k] = lots[k]
         /\ lots'[n] = [user |-> me.user, nominator |-> me.team, status |-> "OPEN", by |-> by,
                        soldTeam |-> None, soldPrice |-> 0, receipt |-> {bid}]
         /\ UNCHANGED <<season, ledger, reg>>
<1> DEFINE me  == tx[p]
           n   == Len(lots) + 1
           a   == Opening(me)
           bid == BidRecord(n, me.user, me.team, a)
           by  == IF me.op = "nominate" THEN me.by ELSE None
           row == [draft EXCEPT !.nominatedUser = me.user, !.currentBid = a,
                                !.bidTeam = me.team, !.bidEndsAt = Now,
                                !.nominationEndsAt = None, !.currentLot = n,
                                !.clock = me.clock]
           lot == [user |-> me.user, nominator |-> me.team, status |-> "OPEN", by |-> by,
                   soldTeam |-> None, soldPrice |-> 0, receipt |-> {bid}]
<1>1. /\ me.op \in {"nominate", "stalled"} /\ Landed(p, me.op) /\ me.pc = "claim"
      /\ me.op = "stalled" => me.plan = "open" /\ StalledClaim(me)
      /\ me.op = "nominate" => draft.updatedAt = me.snap.updatedAt
      /\ OpenLot(me.user, me.team, a, me.clock, by)
  BY DEF NominateLand, NominateClaim, StalledOpens, Lands, Landed, Opening
<1>2. /\ Write(row) /\ bids' = bids \cup {bid} /\ lots' = Append(lots, lot)
      /\ UNCHANGED <<season, ledger, reg>>
  BY <1>1 DEF OpenLot
<1>3. me.snap = draft /\ DecidedRight(me)
  BY <1>1, ReadThisRow
<1>4. /\ draft.status = "IN_PROGRESS" /\ draft.nominatedUser = None
      /\ me.team = draft.nominatorTeam /\ teamOf[me.user] = None
      /\ me.clock = ClockOf(a, me.team)
      /\ CanBid(budget[me.team], Count(teamOf)[me.team], a, 0)
      /\ me.op = "nominate" => MayNominate(me.team, me.by)
      /\ me.op = "stalled" => expired
  BY <1>1, <1>3 DEF DecidedRight, OpensALot
<1>5. me.user \in User /\ me.team \in Team /\ a \in Nat
  BY <1>1, LotTypes, MoneyAssumption DEF Honest, NamesAUser, Tx, Opening
<1>6. n \in Nat /\ n \notin DOMAIN lots /\ lots \in Seq(Lot)
  BY LotTypes DEF ClockInv, RowsTyped
<1> HIDE DEF n, a, bid, lot, by
<1>7. /\ draft'.status = draft.status /\ draft'.nominatorTeam = draft.nominatorTeam
      /\ draft'.nominatedUser = me.user /\ draft'.currentBid = a
      /\ draft'.bidTeam = me.team /\ draft'.currentLot = n
      /\ draft'.clock = me.clock /\ draft'.bidEndsAt = Now /\ draft'.nominationEndsAt = None
  BY <1>2, LotTypes DEF Write, DraftRow
<1>8. RowIsNew
  <2> HIDE DEF row
  <2>1. QED
    BY <1>2, <1>7, WrittenRowIsNew
<1>9. /\ DOMAIN lots' = DOMAIN lots \cup {n} /\ Len(lots') = n
      /\ \A k \in DOMAIN lots : lots'[k] = lots[k]
      /\ lots'[n] = lot
  BY <1>2, <1>6, LotTypes DEF n
<1>10. QED
  BY <1>1, <1>2, <1>4, <1>5, <1>6, <1>7, <1>8, <1>9 DEF n, a, bid, lot, by

\* A turn passes to another team, or the auction ends, once its clock has run out.
LEMMA PassEffect ==
  ASSUME ClockInv, ClockInv', LotInv, NEW p \in Proc, StalledAdvances(p) \/ StalledCompletes(p)
  PROVE  /\ Landed(p, "stalled") /\ RowIsNew /\ expired
         /\ draft.status = "IN_PROGRESS" /\ draft.nominatedUser = None
         /\ draft'.nominatedUser = None /\ draft'.currentBid = draft.currentBid
         /\ draft'.bidTeam = draft.bidTeam /\ draft'.currentLot = draft.currentLot
         /\ draft'.bidEndsAt = None
         /\ \/ /\ tx[p].plan = "advance" /\ draft'.status = draft.status
               /\ draft'.nominatorTeam = tx[p].team
            \/ /\ tx[p].plan = "complete" /\ draft'.status = "COMPLETE"
               /\ draft'.nominatorTeam = draft.nominatorTeam
               /\ \/ Pool(teamOf) = {}
                  \/ \A m \in Team : ~CanNominate(budget[m], Count(teamOf)[m])
         /\ UNCHANGED <<season, ledger, reg, bids, lots>>
<1> DEFINE me == tx[p]
           next == [draft EXCEPT !.nominatorTeam = me.team, !.nominationEndsAt = Now]
           over == [draft EXCEPT !.status = "COMPLETE", !.nominationEndsAt = None]
<1>1. /\ Landed(p, "stalled") /\ me.op = "stalled" /\ me.pc = "claim" /\ StalledClaim(me)
      /\ \/ me.plan = "advance" /\ Write(next)
         \/ me.plan = "complete" /\ Write(over)
      /\ UNCHANGED <<season, ledger, reg, bids, lots>>
  BY DEF StalledAdvances, StalledCompletes, Lands, Landed
<1>2. me.snap = draft /\ DecidedRight(me)
  BY <1>1, ReadThisRow
<1>3. /\ draft.status = "IN_PROGRESS" /\ draft.nominatedUser = None /\ expired
      /\ me.plan = "complete" =>
           Pool(teamOf) = {} \/ \A m \in Team : ~CanNominate(budget[m], Count(teamOf)[m])
  BY <1>1, <1>2 DEF DecidedRight
<1>4. draft.bidEndsAt = None
  BY <1>3 DEF ClockInv, ClockDiscipline
<1>5. /\ draft'.nominatedUser = None /\ draft'.currentBid = draft.currentBid
      /\ draft'.bidTeam = draft.bidTeam /\ draft'.currentLot = draft.currentLot
      /\ draft'.bidEndsAt = None /\ draft'.nominationEndsAt \in {None, Now}
      /\ \/ /\ me.plan = "advance" /\ draft'.status = draft.status
            /\ draft'.nominatorTeam = me.team
         \/ /\ me.plan = "complete" /\ draft'.status = "COMPLETE"
            /\ draft'.nominatorTeam = draft.nominatorTeam
  BY <1>1, <1>3, <1>4, LotTypes DEF Write, DraftRow
<1>6. RowIsNew
  <2> HIDE DEF next, over
  <2>1. QED
    BY <1>1, <1>5, WrittenRowIsNew
<1>7. QED
  BY <1>1, <1>3, <1>5, <1>6

\* Nothing is left on the block.
BlockCleared ==
  /\ draft'.nominatedUser = None /\ draft'.bidTeam = None /\ draft'.currentBid = 0
  /\ draft'.currentLot = 0 /\ draft'.bidEndsAt = None

\* After a lot the next team that can is on turn, or nobody can and it is over.
TurnPasses(money, roster) ==
  \/ draft'.status = "IN_PROGRESS"
  \/ /\ draft'.status = "COMPLETE"
     /\ \/ Pool(roster) = {}
        \/ \A m \in Team : ~CanNominate(money[m], Count(roster)[m])

LEMMA RotateEffect ==
  ASSUME ClockInv, ClockInv', NEW money, NEW roster, Rotate(money, roster),
         draft.status = "IN_PROGRESS"
  PROVE  RowIsNew /\ BlockCleared /\ TurnPasses(money, roster)
<1> DEFINE last == draft.nominatorTeam
           able == SomeoneCanNominate(money, Count(roster), last) /\ Pool(roster) # {}
           next == NextNominator(money, Count(roster), last)
           turn == [NoLot(draft) EXCEPT !.nominatorTeam = next, !.nominationEndsAt = Now]
           over == [NoLot(draft) EXCEPT !.status = "COMPLETE", !.nominationEndsAt = None]
<1>1. (able /\ Write(turn)) \/ (~able /\ Write(over))
  BY DEF Rotate
<1>2. last \in Team
  BY DEF ClockInv, SomeonesTurn
<1>3. ~SomeoneCanNominate(money, Count(roster), last)
        => \A m \in Team : ~CanNominate(money[m], Count(roster)[m])
  <2> HIDE DEF last
  <2>1. QED
    BY <1>2, RotationIsWhole
<1>4. ~able => Pool(roster) = {} \/ \A m \in Team : ~CanNominate(money[m], Count(roster)[m])
  BY <1>3
<1> HIDE DEF able, next
<1>5. /\ BlockCleared /\ draft'.nominationEndsAt \in {None, Now}
      /\ \/ draft'.status = "IN_PROGRESS"
         \/ ~able /\ draft'.status = "COMPLETE"
  BY <1>1, LotTypes DEF Write, NoLot, DraftRow, BlockCleared
<1>6. RowIsNew
  <2> HIDE DEF turn, over
  <2>1. QED
    BY <1>1, <1>5, WrittenRowIsNew DEF BlockCleared
<1>7. QED
  BY <1>4, <1>5, <1>6 DEF TurnPasses

\* One lot of the history is written over.
LEMMA OneLotChanges ==
  ASSUME ClockInv, NEW k \in DOMAIN lots, NEW x, lots' = [lots EXCEPT ![k] = x]
  PROVE  /\ DOMAIN lots' = DOMAIN lots /\ Len(lots') = Len(lots) /\ lots'[k] = x
         /\ \A j \in DOMAIN lots : j # k => lots'[j] = lots[j]
<1>1. lots \in Seq(Lot)
  BY DEF ClockInv, RowsTyped
<1>2. DOMAIN lots' = DOMAIN lots /\ lots'[k] = x
      /\ \A j \in DOMAIN lots : j # k => lots'[j] = lots[j]
  OBVIOUS
<1>3. lots' \in Seq(Lot) => Len(lots') = Len(lots)
  BY <1>1, <1>2, LenProperties
<1>4. QED
  BY <1>2, <1>3 DEF ClockInv, RowsTyped

-----------------------------------------------------------------------------
(* Each commit keeps the invariant and is a legal step *)

\* A step that opens and closes no lot, sells nobody and ends no auction.
LEMMA QuietStep ==
  ASSUME ClockInv, UNCHANGED lots, \A u \in User : price'[u] = price[u] \/ price'[u] = 0,
         draft.status = "IN_PROGRESS" => draft'.status # "COMPLETE",
         \/ BlockCleared
         \/ draft'.currentBid = draft.currentBid /\ draft'.bidTeam = draft.bidTeam
  PROVE  StepIsLegal
<1>1. Len(lots) \in Nat /\ \A u \in User : price[u] \in Nat
  BY LotTypes
<1>2. PriceOnlyRises /\ TurnRespected
  BY <1>1 DEF PriceOnlyRises, TurnRespected, BlockCleared
<1>3. OnlyAnExpiredClockCloses /\ EndsOnlyWhenDone
  BY <1>1 DEF OnlyAnExpiredClockCloses, EndsOnlyWhenDone
<1>4. HistoryOnlyMovesForward /\ UndoTakesTheNewest
  BY DEF HistoryOnlyMovesForward, UndoTakesTheNewest
<1>5. QED
  BY <1>2, <1>3, <1>4 DEF StepIsLegal

\* A step that closes the lot on the block.
LEMMA ClosingStep ==
  ASSUME ClockInv, LotInv, draft.nominatedUser # None, BlockCleared,
         DOMAIN lots' = DOMAIN lots, Len(lots') = Len(lots),
         \A k \in DOMAIN lots : k # draft.currentLot => lots'[k] = lots[k],
         OnlyAnExpiredClockCloses, EndsOnlyWhenDone
  PROVE  StepIsLegal
<1>1. Len(lots) \in Nat /\ draft.currentLot # 0 /\ lots[draft.currentLot].status = "OPEN"
  BY LotTypes, BlockFacts
<1>2. PriceOnlyRises /\ TurnRespected
  BY <1>1 DEF PriceOnlyRises, TurnRespected, BlockCleared
<1>3. HistoryOnlyMovesForward /\ UndoTakesTheNewest
  BY <1>1 DEF HistoryOnlyMovesForward, UndoTakesTheNewest
<1>4. QED
  BY <1>2, <1>3 DEF StepIsLegal

\* An accepted bid is the new price, its team the new high bidder.
LEMMA BidKeeps ==
  ASSUME ClockInv, ClockInv', LotInv, NEW p \in Proc, BidLand(p)
  PROVE  LotInv' /\ StepIsLegal
<1> DEFINE me == tx[p]
           k == draft.currentLot
           bid == BidRecord(k, draft.nominatedUser, me.team, me.amount)
<1>1. /\ Landed(p, "bid") /\ RowIsNew
      /\ draft.status = "IN_PROGRESS" /\ draft.nominatedUser # None
      /\ me.team \in Team /\ me.amount \in Nat /\ draft.bidTeam # me.team
      /\ CanBid(budget[me.team], Count(teamOf)[me.team], me.amount, draft.currentBid)
      /\ draft'.status = draft.status
      /\ draft'.nominatedUser = draft.nominatedUser /\ draft'.currentBid = me.amount
      /\ draft'.bidTeam = me.team /\ draft'.currentLot = k
      /\ draft'.clock = ClockOf(me.amount, me.team)
      /\ DOMAIN lots' = DOMAIN lots /\ Len(lots') = Len(lots)
      /\ \A j \in DOMAIN lots :
           /\ lots'[j].status = lots[j].status /\ lots'[j].user = lots[j].user
           /\ lots'[j].by = lots[j].by
           /\ lots'[j].soldTeam = lots[j].soldTeam /\ lots'[j].soldPrice = lots[j].soldPrice
           /\ lots'[j].receipt = IF j = k THEN lots[j].receipt \cup {bid} ELSE lots[j].receipt
      /\ UNCHANGED <<season, ledger, reg>>
  BY BidEffect
<1>2. /\ k \in DOMAIN lots /\ lots[k].status = "OPEN" /\ lots[k].user = draft.nominatedUser
      /\ \A j \in DOMAIN lots : lots[j].status = "OPEN" => j = k
      /\ teamOf[draft.nominatedUser] = None
      /\ Len(lots) \in Nat /\ draft.currentBid \in Nat
  BY <1>1, BlockFacts, LotTypes
<1>3. UNCHANGED <<captain, budget, teamOf, price, soldAs, reg>>
  BY <1>1 DEF ledger
<1>4. LotIsWhole'
  <2>1. {j \in DOMAIN lots' : lots'[j].status = "OPEN"} = {k}
    BY <1>1, <1>2
  <2>2. \E b \in lots'[k].receipt : b.amount = me.amount /\ b.team = me.team
    <3>1. bid.amount = me.amount /\ bid.team = me.team /\ bid \in lots'[k].receipt
      BY <1>1, <1>2 DEF BidRecord
    <3> HIDE DEF bid
    <3>2. QED
      BY <3>1
  <2>3. /\ draft'.nominatedUser = draft.nominatedUser /\ draft.nominatedUser # None
        /\ draft'.currentLot = k /\ draft'.bidTeam = me.team /\ draft'.currentBid = me.amount
        /\ lots'[k].user = draft.nominatedUser /\ teamOf' = teamOf
        /\ teamOf[draft.nominatedUser] = None
    BY <1>1, <1>2, <1>3
  <2> HIDE DEF k, me
  <2>4. QED
    BY <2>1, <2>2, <2>3 DEF LotIsWhole
<1>5. HighBidderCanPay' /\ NoLotAtRest'
  BY <1>1, <1>3 DEF HighBidderCanPay, NoLotAtRest, CanBid
<1>6. BidClockFitsLot'
  BY <1>1, <1>3 DEF BidClockFitsLot, ClockOf
<1>7. OpenersStand
  BY <1>1 DEF OpenersStand
<1>8. RostersKept'
  BY <1>1, <1>3, <1>7, RostersStand DEF SaleStands, LotInv, RostersKept
<1>9. \A q \in Proc : LotSeen(tx[q])'
  <2>1. \A u \in User : OnlyByNobody(u) => OnlyByNobody(u)'
    BY <1>1, <1>2, <1>3, <1>7, NobodysStay
  <2>2. QED
    BY <1>1, <2>1, OthersOnNewRow DEF UnderWay, Ops
<1>10. StepIsLegal
  <2> HIDE DEF bid
  <2>1. PriceOnlyRises /\ TurnRespected
    <3>1. draft'.currentBid > draft.currentBid /\ draft'.bidTeam # draft.bidTeam
      BY <1>1 DEF CanBid
    <3>2. ~(Len(lots') > Len(lots))
      BY <1>1, <1>2
    <3>3. QED
      BY <3>1, <3>2 DEF PriceOnlyRises, TurnRespected
  <2>2. OnlyAnExpiredClockCloses /\ EndsOnlyWhenDone
    BY <1>1, <1>3, LotTypes DEF OnlyAnExpiredClockCloses, EndsOnlyWhenDone
  <2>3. HistoryOnlyMovesForward /\ UndoTakesTheNewest
    BY <1>1, <1>2 DEF HistoryOnlyMovesForward, UndoTakesTheNewest
  <2>4. QED
    BY <2>1, <2>2, <2>3 DEF StepIsLegal
<1>11. QED
  BY <1>4, <1>5, <1>6, <1>8, <1>9, <1>10 DEF LotInv, LotKept

\* A lot that opens is the one open lot, at a price its team can pay.
LEMMA OpenKeeps ==
  ASSUME ClockInv, ClockInv', LotInv, NEW p \in Proc, NominateLand(p) \/ StalledOpens(p)
  PROVE  LotInv' /\ StepIsLegal
<1> DEFINE me == tx[p]
           n == Len(lots) + 1
           a == Opening(me)
           bid == BidRecord(n, me.user, me.team, a)
           by == IF me.op = "nominate" THEN me.by ELSE None
<1>1. /\ me.op \in {"nominate", "stalled"} /\ Landed(p, me.op) /\ RowIsNew
      /\ draft.status = "IN_PROGRESS" /\ draft.nominatedUser = None
      /\ me.user \in User /\ me.team \in Team /\ a \in Nat
      /\ me.team = draft.nominatorTeam /\ teamOf[me.user] = None
      /\ CanBid(budget[me.team], Count(teamOf)[me.team], a, 0)
      /\ me.op = "nominate" => MayNominate(me.team, me.by)
      /\ me.op = "stalled" => expired
      /\ draft'.status = draft.status /\ draft'.nominatedUser = me.user
      /\ draft'.currentBid = a /\ draft'.bidTeam = me.team /\ draft'.currentLot = n
      /\ draft'.clock = ClockOf(a, me.team)
      /\ n \notin DOMAIN lots /\ DOMAIN lots' = DOMAIN lots \cup {n} /\ Len(lots') = n
      /\ \A k \in DOMAIN lots : lots'[k] = lots[k]
      /\ lots'[n] = [user |-> me.user, nominator |-> me.team, status |-> "OPEN", by |-> by,
                     soldTeam |-> None, soldPrice |-> 0, receipt |-> {bid}]
      /\ UNCHANGED <<season, ledger, reg>>
  BY OpenEffect
<1>2. /\ draft.currentLot = 0 /\ \A k \in DOMAIN lots : lots[k].status # "OPEN"
      /\ n # 0 /\ me.user # None
  BY <1>1, BlockFacts, LotTypes, NoneApart
<1>3. UNCHANGED <<captain, budget, teamOf, price, soldAs, reg>>
  BY <1>1 DEF ledger
<1>4. /\ lots'[n].user = me.user /\ lots'[n].nominator = me.team /\ lots'[n].by = by
      /\ lots'[n].status = "OPEN" /\ bid \in lots'[n].receipt
      /\ bid.amount = a /\ bid.team = me.team
  BY <1>1 DEF BidRecord
<1> HIDE DEF n, a, bid
<1>5. LotIsWhole'
  <2>1. {j \in DOMAIN lots' : lots'[j].status = "OPEN"} = {n}
    BY <1>1, <1>2, <1>4
  <2>2. QED
    BY <1>1, <1>2, <1>3, <1>4, <2>1 DEF LotIsWhole
<1>6. HighBidderCanPay' /\ NoLotAtRest'
  BY <1>1, <1>3 DEF HighBidderCanPay, NoLotAtRest, CanBid
<1>7. BidClockFitsLot'
  BY <1>1, <1>3 DEF BidClockFitsLot, ClockOf
<1>8. RostersKept'
  BY <1>1, <1>3, RostersStand DEF SaleStands, OpenersStand, LotInv, RostersKept
<1>9. \A q \in Proc : LotSeen(tx[q])'
  <2>1. me.op = "stalled" => \A u \in User : OnlyByNobody(u) => OnlyByNobody(u)'
    BY <1>1, <1>3, <1>4 DEF OnlyByNobody, PutUpByNobody
  <2>2. me.op = "nominate" => me.op \in Serializable
    BY DEF Serializable
  <2>3. QED
    BY <1>1, <2>1, <2>2, OthersOnNewRow DEF UnderWay, Ops
<1>10. StepIsLegal
  <2>1. PriceOnlyRises /\ OnlyAnExpiredClockCloses /\ EndsOnlyWhenDone
    BY <1>1, <1>2, <1>3, LotTypes
    DEF PriceOnlyRises, OnlyAnExpiredClockCloses, EndsOnlyWhenDone
  <2>2. TurnRespected
    BY <1>1, <1>4 DEF TurnRespected, MayNominate
  <2>3. HistoryOnlyMovesForward /\ UndoTakesTheNewest
    BY <1>1, <1>2 DEF HistoryOnlyMovesForward, UndoTakesTheNewest
  <2>4. QED
    BY <2>1, <2>2, <2>3 DEF StepIsLegal
<1>11. QED
  BY <1>5, <1>6, <1>7, <1>8, <1>9, <1>10 DEF LotInv, LotKept

\* A turn that passes, or the end of the auction, finds no lot on the block.
LEMMA PassKeeps ==
  ASSUME ClockInv, ClockInv', LotInv, NEW p \in Proc,
         StalledAdvances(p) \/ StalledCompletes(p)
  PROVE  LotInv' /\ StepIsLegal
<1>1. /\ Landed(p, "stalled") /\ RowIsNew /\ expired
      /\ draft.status = "IN_PROGRESS" /\ draft.nominatedUser = None
      /\ draft'.nominatedUser = None /\ draft'.currentBid = draft.currentBid
      /\ draft'.bidTeam = draft.bidTeam /\ draft'.currentLot = draft.currentLot
      /\ draft'.bidEndsAt = None
      /\ \/ draft'.status = draft.status
         \/ /\ draft'.status = "COMPLETE"
            /\ \/ Pool(teamOf) = {}
               \/ \A m \in Team : ~CanNominate(budget[m], Count(teamOf)[m])
      /\ UNCHANGED <<season, ledger, reg, bids, lots>>
  BY PassEffect
<1>2. UNCHANGED <<captain, budget, teamOf, price, soldAs, reg>>
  BY <1>1 DEF ledger
<1>3. LotKept'
  BY <1>1, <1>2, LotStands DEF LotInv
<1>4. RostersKept'
  BY <1>1, <1>2, RostersStand DEF SaleStands, OpenersStand, LotInv, RostersKept
<1>5. \A q \in Proc : LotSeen(tx[q])'
  <2>1. \A u \in User : OnlyByNobody(u) => OnlyByNobody(u)'
    BY <1>1, <1>2, NobodysStay DEF OpenersStand
  <2>2. QED
    BY <1>1, <2>1, OthersOnNewRow DEF UnderWay, Ops
<1>6. StepIsLegal
  <2>1. draft.currentLot = 0 /\ Len(lots) \in Nat /\ \A u \in User : price[u] \in Nat
    BY <1>1, BlockFacts, LotTypes
  <2>2. PriceOnlyRises /\ TurnRespected /\ OnlyAnExpiredClockCloses
    BY <1>1, <1>2, <2>1 DEF PriceOnlyRises, TurnRespected, OnlyAnExpiredClockCloses
  <2>3. EndsOnlyWhenDone
    BY <1>1, <1>2 DEF EndsOnlyWhenDone, Pool
  <2>4. HistoryOnlyMovesForward /\ UndoTakesTheNewest
    BY <1>1 DEF HistoryOnlyMovesForward, UndoTakesTheNewest
  <2>5. QED
    BY <2>2, <2>3, <2>4 DEF StepIsLegal
<1>7. QED
  BY <1>3, <1>4, <1>5, <1>6 DEF LotInv

\* What a resolver that closes a lot knows of it.
LEMMA SettlesThisLot ==
  ASSUME ClockInv, LotInv, NEW p \in Proc, Lands(p, "settle", SettleClaim(tx[p]))
  PROVE  /\ Landed(p, "settle") /\ expired /\ UnderWay
         /\ draft.status = "IN_PROGRESS" /\ draft.nominatedUser # None
<1>1. tx[p].pc = "claim" /\ tx[p].op = "settle" /\ SettleClaim(tx[p]) /\ Landed(p, "settle")
  BY DEF Lands, Landed
<1>2. DecidedRight(tx[p]) /\ tx[p].snap = draft
  BY <1>1, ReadThisRow
<1>3. QED
  BY <1>1, <1>2 DEF DecidedRight, UnderWay

\* A sale's price is within what its buyer may still spend, so the buyer has the
\* seat and the money, although the claim compares neither.
LEMMA SaleKeeps ==
  ASSUME ClockInv, ClockInv', LotInv, NEW p \in Proc, SettleSells(p)
  PROVE  LotInv' /\ StepIsLegal
<1> DEFINE u == draft.nominatedUser
           t == draft.bidTeam
           k == draft.currentLot
           a == draft.currentBid
           sold == [Closing(k, "SOLD") EXCEPT !.soldTeam = t, !.soldPrice = a]
<1>1. /\ Lands(p, "settle", SettleClaim(tx[p])) /\ reg[u] = "ACTIVE"
      /\ teamOf' = [teamOf EXCEPT ![u] = t] /\ price' = [price EXCEPT ![u] = a]
      /\ soldAs' = [soldAs EXCEPT ![u] = k] /\ budget' = [budget EXCEPT ![t] = @ - a]
      /\ lots' = [lots EXCEPT ![k] = sold]
      /\ Rotate(budget', teamOf') /\ UNCHANGED <<season, captain, flagged, reg, bids>>
  BY DEF SettleSells
<1>2. /\ Landed(p, "settle") /\ expired /\ UnderWay
      /\ draft.status = "IN_PROGRESS" /\ u # None
  BY <1>1, SettlesThisLot
<1>3. RowIsNew /\ BlockCleared /\ TurnPasses(budget', teamOf')
  <2> DEFINE b == budget'
             r == teamOf'
  <2>1. Rotate(b, r)
    BY <1>1
  <2> HIDE DEF b, r
  <2>2. RowIsNew /\ BlockCleared /\ TurnPasses(b, r)
    BY <1>2, <2>1, RotateEffect
  <2>3. QED
    BY <2>2 DEF b, r
<1>4. /\ k \in DOMAIN lots /\ lots[k].status = "OPEN" /\ lots[k].user = u
      /\ \A j \in DOMAIN lots : lots[j].status = "OPEN" => j = k
      /\ u \in User /\ teamOf[u] = None /\ t \in Team /\ a \in Nat
      /\ a >= MinBid /\ a <= MaxBid(budget[t], Count(teamOf)[t])
  BY <1>2, BlockFacts
<1>5. /\ teamOf \in [User -> Orl(Team)] /\ price \in [User -> Nat]
      /\ soldAs \in [User -> Nat] /\ lots[k] \in Lot /\ budget \in [Team -> Nat]
  BY <1>4, LotTypes DEF LotInv, RostersKept
<1>6. /\ sold.status = "SOLD" /\ sold.user = u /\ sold.soldTeam = t /\ sold.soldPrice = a
      /\ sold.by = lots[k].by
  BY <1>4, <1>5 DEF Closing, Lot
<1> HIDE DEF sold
<1>7. /\ DOMAIN lots' = DOMAIN lots /\ Len(lots') = Len(lots) /\ lots'[k] = sold
      /\ \A j \in DOMAIN lots : j # k => lots'[j] = lots[j]
  BY <1>1, <1>4, OneLotChanges
<1>8. /\ teamOf'[u] = t /\ price'[u] = a /\ soldAs'[u] = k
      /\ \A v \in User \ {u} : /\ teamOf'[v] = teamOf[v]
                               /\ price'[v] = price[v] /\ soldAs'[v] = soldAs[v]
  BY <1>1, <1>4, <1>5
<1>9. Count(teamOf)[t] < TeamSize /\ budget' \in [Team -> Nat]
  <2>1. Count(teamOf)[t] \in Nat /\ budget[t] \in Nat
    BY <1>4, <1>5, CountType
  <2>2. Count(teamOf)[t] < TeamSize /\ a <= budget[t]
    BY <1>4, <2>1, BidIsCovered
  <2>3. QED
    BY <1>1, <1>4, <1>5, <2>1, <2>2
<1>10. LotKept'
  <2>1. \A j \in DOMAIN lots' : lots'[j].status = "OPEN" =>
          j \in DOMAIN lots /\ lots[j].status = "OPEN" /\ j # k
    BY <1>4, <1>6, <1>7
  <2>2. QED
    BY <1>3, <2>1, LotCloses DEF BlockCleared, LotInv
<1>11. RostersKept'
  <2>1. OpenersStand /\ \A j \in DOMAIN lots : lots[j].status = "SOLD" => SaleStands(j)
    BY <1>4, <1>6, <1>7 DEF SaleStands, OpenersStand
  <2>2. UNCHANGED reg /\ RostersKept
    BY <1>1 DEF LotInv
  <2>3. /\ soldAs'[u] \in DOMAIN lots'
        /\ lots'[soldAs'[u]].status = "SOLD" /\ lots'[soldAs'[u]].user = u
        /\ lots'[soldAs'[u]].soldTeam = t /\ lots'[soldAs'[u]].soldPrice = price'[u]
    BY <1>4, <1>6, <1>7, <1>8
  <2>4. teamOf[u] = None /\ reg[u] = "ACTIVE" /\ teamOf'[u] = t /\ u \in User /\ t \in Team
    BY <1>1, <1>4, <1>8
  <2>5. Count(teamOf)[t] < TeamSize /\ budget' \in [Team -> Nat]
    BY <1>9
  <2>6. \A v \in User \ {u} : /\ teamOf'[v] = teamOf[v]
                              /\ price'[v] = price[v] /\ soldAs'[v] = soldAs[v]
    BY <1>8
  <2> HIDE DEF u, t, k
  <2>7. QED
    BY <2>1, <2>2, <2>3, <2>4, <2>5, <2>6, PlayerJoins
<1>12. \A q \in Proc : LotSeen(tx[q])'
  <2>1. ASSUME NEW v \in User, OnlyByNobody(v) PROVE OnlyByNobody(v)'
    <3>1. draft'.nominatedUser # v
      BY <1>3, NoneApart DEF BlockCleared
    <3>2. teamOf'[v] # None => PutUpByNobody(v)'
      <4>1. CASE v = u
        BY <1>4, <1>6, <1>7, <1>8, <2>1, <4>1 DEF OnlyByNobody, PutUpByNobody
      <4>2. CASE v # u
        BY <1>4, <1>6, <1>7, <1>8, <2>1, <4>2 DEF OnlyByNobody, PutUpByNobody
      <4>3. QED
        BY <4>1, <4>2
    <3>3. QED
      BY <3>1, <3>2 DEF OnlyByNobody
  <2>2. QED
    BY <1>2, <1>3, <2>1, OthersOnNewRow DEF Ops
<1>13. StepIsLegal
  <2>1. OnlyAnExpiredClockCloses
    BY <1>2 DEF OnlyAnExpiredClockCloses
  <2>2. EndsOnlyWhenDone
    BY <1>1, <1>3 DEF EndsOnlyWhenDone, TurnPasses, Pool
  <2>3. QED
    BY <1>2, <1>3, <1>7, <2>1, <2>2, ClosingStep
<1>14. QED
  BY <1>10, <1>11, <1>12, <1>13 DEF LotInv

\* A lot that is voided leaves money and rosters alone.
LEMMA LotVoids ==
  ASSUME ClockInv, LotInv, draft.nominatedUser # None, BlockCleared,
         lots' = [lots EXCEPT ![draft.currentLot] = Closing(draft.currentLot, "VOIDED")],
         UNCHANGED <<ledger, reg>>
  PROVE  /\ LotKept' /\ RostersKept' /\ OpenersStand
         /\ DOMAIN lots' = DOMAIN lots /\ Len(lots') = Len(lots)
         /\ \A j \in DOMAIN lots : j # draft.currentLot => lots'[j] = lots[j]
<1> DEFINE k == draft.currentLot
<1>1. /\ k \in DOMAIN lots /\ lots[k].status = "OPEN" /\ lots[k] \in Lot
      /\ \A j \in DOMAIN lots : lots[j].status = "OPEN" => j = k
  BY BlockFacts, LotTypes
<1>2. Closing(k, "VOIDED").status = "VOIDED" /\ Closing(k, "VOIDED").by = lots[k].by
  BY <1>1 DEF Closing, Lot
<1>3. /\ DOMAIN lots' = DOMAIN lots /\ Len(lots') = Len(lots) /\ OpenersStand
      /\ lots'[k].status = "VOIDED" /\ \A j \in DOMAIN lots : j # k => lots'[j] = lots[j]
  <2> DEFINE x == Closing(k, "VOIDED")
  <2>1. lots' = [lots EXCEPT ![k] = x] /\ x.status = "VOIDED" /\ x.by = lots[k].by
    BY <1>2
  <2> HIDE DEF x
  <2>2. QED
    BY <1>1, <2>1, OneLotChanges DEF OpenersStand
<1>4. LotKept'
  <2>1. \A j \in DOMAIN lots' : lots'[j].status = "OPEN" =>
          j \in DOMAIN lots /\ lots[j].status = "OPEN" /\ j # k
    BY <1>3
  <2>2. QED
    BY <2>1, LotCloses DEF BlockCleared, LotInv
<1>5. RostersKept'
  <2>1. \A j \in DOMAIN lots : lots[j].status = "SOLD" => SaleStands(j)
    BY <1>1, <1>3 DEF SaleStands
  <2>2. UNCHANGED <<budget, teamOf, price, soldAs, reg>>
    BY DEF ledger
  <2>3. QED
    BY <1>3, <2>1, <2>2, RostersStand DEF LotInv, RostersKept
<1>6. QED
  BY <1>3, <1>4, <1>5

\* A resolver voids a lot whose player left the pool; an admin voids a paused one.
LEMMA VoidKeeps ==
  ASSUME ClockInv, ClockInv', LotInv, NEW p \in Proc, SettleVoids(p) \/ VoidLand(p)
  PROVE  LotInv' /\ StepIsLegal
<1>1. CASE SettleVoids(p)
  <2>1. /\ Lands(p, "settle", SettleClaim(tx[p])) /\ Rotate(budget, teamOf)
        /\ lots' = [lots EXCEPT ![draft.currentLot] = Closing(draft.currentLot, "VOIDED")]
        /\ UNCHANGED <<season, ledger, reg>>
    BY <1>1 DEF SettleVoids
  <2>2. /\ Landed(p, "settle") /\ expired /\ UnderWay
        /\ draft.status = "IN_PROGRESS" /\ draft.nominatedUser # None
    BY <2>1, SettlesThisLot
  <2>3. RowIsNew /\ BlockCleared /\ TurnPasses(budget, teamOf)
    BY <2>1, <2>2, RotateEffect
  <2>4. /\ LotKept' /\ RostersKept' /\ OpenersStand
        /\ DOMAIN lots' = DOMAIN lots /\ Len(lots') = Len(lots)
        /\ \A j \in DOMAIN lots : j # draft.currentLot => lots'[j] = lots[j]
    BY <2>1, <2>2, <2>3, LotVoids
  <2>5. UNCHANGED <<budget, teamOf, price, soldAs, reg>>
    BY <2>1 DEF ledger
  <2>6. \A q \in Proc : LotSeen(tx[q])'
    <3>1. \A u \in User : OnlyByNobody(u) => OnlyByNobody(u)'
      BY <2>3, <2>4, <2>5, BlockFacts, NobodysStay DEF BlockCleared
    <3>2. QED
      BY <2>2, <2>3, <3>1, OthersOnNewRow DEF Ops
  <2>7. OnlyAnExpiredClockCloses /\ EndsOnlyWhenDone
    BY <2>2, <2>3, <2>5 DEF OnlyAnExpiredClockCloses, EndsOnlyWhenDone, TurnPasses, Pool
  <2>8. QED
    BY <2>2, <2>3, <2>4, <2>6, <2>7, ClosingStep DEF LotInv
<1>2. CASE VoidLand(p)
  <2> DEFINE row == [NoLot(draft) EXCEPT !.nominationEndsAt = None]
  <2>1. /\ Landed(p, "void") /\ tx[p].op = "void" /\ tx[p].pc = "claim"
        /\ draft.updatedAt = tx[p].snap.updatedAt /\ draft.status = "PAUSED" /\ Write(row)
        /\ lots' = [lots EXCEPT ![draft.currentLot] = Closing(draft.currentLot, "VOIDED")]
        /\ UNCHANGED <<season, ledger, reg>>
    BY <1>2 DEF VoidLand, VoidClaim, Lands, Landed
  <2>2. draft.nominatedUser # None
    <3>1. tx[p].snap = draft /\ DecidedRight(tx[p])
      BY <2>1, ReadThisRow
    <3>2. QED
      BY <2>1, <3>1 DEF DecidedRight
  <2>3. BlockCleared /\ draft'.nominationEndsAt = None /\ draft'.status = "PAUSED"
    BY <2>1, LotTypes DEF Write, NoLot, DraftRow, BlockCleared
  <2> HIDE DEF row
  <2>4. RowIsNew
    BY <2>1, <2>3, WrittenRowIsNew DEF BlockCleared
  <2>5. /\ LotKept' /\ RostersKept'
        /\ DOMAIN lots' = DOMAIN lots /\ Len(lots') = Len(lots)
        /\ \A j \in DOMAIN lots : j # draft.currentLot => lots'[j] = lots[j]
    BY <2>1, <2>2, <2>3, LotVoids
  <2>6. \A q \in Proc : LotSeen(tx[q])'
    BY <2>1, <2>4, OthersOnNewRow DEF Ops, Serializable
  <2>7. OnlyAnExpiredClockCloses /\ EndsOnlyWhenDone
    BY <2>1, LotTypes DEF OnlyAnExpiredClockCloses, EndsOnlyWhenDone, ledger
  <2>8. QED
    BY <2>2, <2>3, <2>5, <2>6, <2>7, ClosingStep DEF LotInv
<1>3. QED
  BY <1>1, <1>2

\* A step that writes the Draft row and leaves its lot, the money, the rosters and
\* the history alone.
LEMMA RowStep ==
  ASSUME ClockInv, ClockInv', LotInv, NEW p \in Proc, NEW op \in Ops, Landed(p, op),
         RowIsNew, UNCHANGED <<ledger, reg, lots>>, UnderWay,
         draft'.status \in {"IN_PROGRESS", "PAUSED"},
         draft'.nominatedUser = draft.nominatedUser, draft'.bidTeam = draft.bidTeam,
         draft'.currentBid = draft.currentBid, draft'.currentLot = draft.currentLot,
         \/ draft'.bidEndsAt = None
         \/ draft'.clock = ClockOf(draft.currentBid, draft.bidTeam)
  PROVE  LotInv' /\ StepIsLegal
<1>1. UNCHANGED <<captain, budget, teamOf, price, soldAs, reg>>
  BY DEF ledger
<1>2. LotKept'
  BY <1>1, LotStands DEF LotInv
<1>3. RostersKept'
  BY <1>1, RostersStand DEF SaleStands, OpenersStand, LotInv, RostersKept
<1>4. \A q \in Proc : LotSeen(tx[q])'
  <2>1. \A u \in User : OnlyByNobody(u) => OnlyByNobody(u)'
    BY <1>1, BlockFacts, NobodysStay DEF OpenersStand
  <2>2. QED
    BY <2>1, OthersOnNewRow
<1>5. StepIsLegal
  BY <1>1, QuietStep
<1>6. QED
  BY <1>2, <1>3, <1>4, <1>5 DEF LotInv

\* An auction that is paused, or parked with its season, keeps its lot.
LEMMA ParkedKeeps ==
  ASSUME ClockInv, ClockInv', LotInv, NEW p \in Proc, NEW op \in Ops, Landed(p, op),
         UnderWay, Write([Parked(draft) EXCEPT !.status = "PAUSED"]),
         UNCHANGED <<ledger, reg, lots>>
  PROVE  LotInv' /\ StepIsLegal
<1> DEFINE row == [Parked(draft) EXCEPT !.status = "PAUSED"]
<1>1. /\ draft'.status = "PAUSED" /\ draft'.bidEndsAt = None
      /\ draft'.nominationEndsAt = None
      /\ draft'.nominatedUser = draft.nominatedUser /\ draft'.bidTeam = draft.bidTeam
      /\ draft'.currentBid = draft.currentBid /\ draft'.currentLot = draft.currentLot
  BY LotTypes DEF Write, Parked, DraftRow
<1>2. Write(row)
  OBVIOUS
<1> HIDE DEF row
<1>3. RowIsNew
  BY <1>1, <1>2, WrittenRowIsNew
<1>4. QED
  BY <1>1, <1>3, RowStep

\* A resumed lot gets the clock it deserves on the money and rosters of that moment.
LEMMA ResumeKeeps ==
  ASSUME ClockInv, ClockInv', LotInv, NEW p \in Proc, ResumeLand(p)
  PROVE  LotInv' /\ StepIsLegal
<1> DEFINE me == tx[p]
           turn == [draft EXCEPT !.status = "IN_PROGRESS", !.nominationEndsAt = Now]
           lot == [draft EXCEPT !.status = "IN_PROGRESS", !.bidEndsAt = Now,
                                !.clock = me.clock]
<1>1. /\ Landed(p, "resume") /\ me.op = "resume" /\ me.pc = "claim"
      /\ draft.updatedAt = me.snap.updatedAt /\ draft.status = "PAUSED"
      /\ Write(IF me.snap.nominatedUser = None THEN turn ELSE lot)
      /\ UNCHANGED <<season, ledger, reg, bids, lots>>
  BY DEF ResumeLand, ResumeClaim, Lands, Landed
<1>2. me.snap = draft /\ DecidedRight(me)
  BY <1>1, ReadThisRow
<1>3. draft.nominatedUser # None => me.clock = ClockOf(draft.currentBid, draft.bidTeam)
  BY <1>1, <1>2 DEF DecidedRight
<1>4. draft.bidEndsAt = None /\ draft.nominationEndsAt = None /\ UnderWay
  BY <1>1 DEF ClockInv, ClockDiscipline, UnderWay
<1> DEFINE row == IF draft.nominatedUser = None THEN turn ELSE lot
<1>5. Write(row)
  BY <1>1, <1>2
<1>6. /\ draft'.status = "IN_PROGRESS"
      /\ draft'.nominatedUser = draft.nominatedUser /\ draft'.bidTeam = draft.bidTeam
      /\ draft'.currentBid = draft.currentBid /\ draft'.currentLot = draft.currentLot
      /\ draft'.bidEndsAt \in {None, Now} /\ draft'.nominationEndsAt \in {None, Now}
      /\ draft'.bidEndsAt = None \/ draft'.clock = ClockOf(draft.currentBid, draft.bidTeam)
  <2>1. CASE draft.nominatedUser = None
    <3>1. Write(turn)
      BY <1>5, <2>1
    <3>2. QED
      BY <1>4, <3>1, LotTypes DEF Write, DraftRow
  <2>2. CASE draft.nominatedUser # None
    <3>1. Write(lot)
      BY <1>5, <2>2
    <3>2. /\ draft'.status = "IN_PROGRESS" /\ draft'.clock = me.clock
          /\ draft'.nominatedUser = draft.nominatedUser /\ draft'.bidTeam = draft.bidTeam
          /\ draft'.currentBid = draft.currentBid /\ draft'.currentLot = draft.currentLot
          /\ draft'.bidEndsAt = Now /\ draft'.nominationEndsAt = draft.nominationEndsAt
      BY <3>1, LotTypes DEF Write, DraftRow
    <3>3. QED
      BY <1>3, <1>4, <2>2, <3>2
  <2>3. QED
    BY <2>1, <2>2
<1> HIDE DEF row, turn, lot
<1>7. RowIsNew
  BY <1>5, <1>6, WrittenRowIsNew
<1>8. QED
  BY <1>1, <1>4, <1>6, <1>7, RowStep DEF Ops

\* Undo takes back the newest sale: what it read of the purchases is still so.
LEMMA UndoKeeps ==
  ASSUME ClockInv, ClockInv', LotInv, NEW p \in Proc, UndoLand(p)
  PROVE  LotInv' /\ StepIsLegal
<1> DEFINE me == tx[p]
           u == me.user
           t == teamOf[u]
           k == soldAs[u]
           held == [draft EXCEPT !.nominatorTeam = t, !.nominationEndsAt = None]
           again == [draft EXCEPT !.status = "IN_PROGRESS", !.nominatorTeam = t,
                                  !.nominationEndsAt = Now]
           undone == [lots[k] EXCEPT !.status = "UNDONE"]
           row == IF draft.status = "PAUSED" THEN held ELSE again
<1>1. /\ Landed(p, "undo") /\ me.op = "undo" /\ me.pc = "claim" /\ ~me.stale
      /\ u \in Purchases /\ k = me.lot /\ draft.nominatedUser = None
      /\ LeavesTeam(u, t) /\ lots' = [lots EXCEPT ![k] = undone]
      /\ Write(row) /\ UNCHANGED <<season, captain, flagged, reg>>
  BY DEF UndoLand, UndoClaim, Lands, Landed
<1>2. /\ u \in User /\ t \in Team /\ price[u] > 0
      /\ \A v \in Purchases : soldAs[v] <= k
  BY <1>1, LotTypes DEF Purchases, Orl, LotInv, LotSeen, StillSo
<1>3. /\ k \in DOMAIN lots /\ lots[k].status = "SOLD" /\ lots[k].user = u
      /\ lots[k].soldTeam = t /\ lots[k] \in Lot
  BY <1>2, LotTypes DEF LotInv, RostersKept, PricesAreSales
<1>4. /\ undone.status = "UNDONE" /\ undone.receipt = lots[k].receipt
      /\ undone.by = lots[k].by
  BY <1>3 DEF Lot
<1> HIDE DEF undone
<1>5. /\ DOMAIN lots' = DOMAIN lots /\ Len(lots') = Len(lots) /\ lots'[k] = undone
      /\ \A j \in DOMAIN lots : j # k => lots'[j] = lots[j]
  BY <1>1, <1>3, OneLotChanges
<1>6. /\ draft'.status \in {"IN_PROGRESS", "PAUSED"}
      /\ draft'.nominatedUser = None /\ draft'.bidTeam = draft.bidTeam
      /\ draft'.currentBid = draft.currentBid /\ draft'.currentLot = draft.currentLot
      /\ draft'.bidEndsAt = draft.bidEndsAt /\ draft'.nominationEndsAt \in {None, Now}
  BY <1>1, LotTypes DEF Write, DraftRow
<1>7. /\ draft.bidTeam = None /\ draft.currentBid = 0 /\ draft.currentLot = 0
      /\ draft.bidEndsAt = None /\ \A j \in DOMAIN lots : lots[j].status # "OPEN"
  BY <1>1, BlockFacts DEF ClockInv, ClockDiscipline
<1> HIDE DEF row
<1>8. RowIsNew
  BY <1>1, <1>6, <1>7, WrittenRowIsNew
<1>9. LotKept'
  <2>1. \A j \in DOMAIN lots' : lots'[j].status = "OPEN" =>
          j \in DOMAIN lots /\ lots[j].status = "OPEN" /\ j # draft.currentLot
    BY <1>4, <1>5, <1>7
  <2>2. QED
    BY <1>6, <1>7, <2>1, LotCloses DEF LotInv
<1>10. RostersKept'
  <2>1. /\ OpenersStand
        /\ \A j \in DOMAIN lots : lots[j].status = "SOLD" /\ lots[j].user # u => SaleStands(j)
    BY <1>3, <1>4, <1>5 DEF SaleStands, OpenersStand
  <2> HIDE DEF u, t
  <2>2. QED
    BY <1>1, <1>2, <2>1, PlayerLeaves DEF t, LotInv
<1>11. \A q \in Proc : LotSeen(tx[q])'
  BY <1>1, <1>8, OthersOnNewRow DEF Ops, Serializable
<1>12. StepIsLegal
  <2>1. /\ teamOf' = [teamOf EXCEPT ![u] = None] /\ price' = [price EXCEPT ![u] = 0]
        /\ budget' = [budget EXCEPT ![t] = @ + price[u]]
    BY <1>1 DEF LeavesTeam
  <2>2. PriceOnlyRises /\ TurnRespected
    BY <1>5, <1>7, LotTypes DEF PriceOnlyRises, TurnRespected
  <2>3. OnlyAnExpiredClockCloses /\ EndsOnlyWhenDone
    BY <1>2, <1>6, <2>1, LotTypes DEF OnlyAnExpiredClockCloses, EndsOnlyWhenDone
  <2>4. HistoryOnlyMovesForward
    BY <1>3, <1>4, <1>5 DEF HistoryOnlyMovesForward
  <2>5. UndoTakesTheNewest
    <3>1. \A v \in User \ {u} : teamOf'[v] = teamOf[v]
      BY <2>1, LotTypes
    <3>2. \A m \in Team : m # t => budget'[m] = budget[m]
      BY <2>1, LotTypes DEF LotInv, RostersKept
    <3> HIDE DEF u, t
    <3>3. QED
      BY <1>2, <1>3, <1>5, <3>1, <3>2 DEF UndoTakesTheNewest
  <2>6. QED
    BY <2>2, <2>3, <2>4, <2>5 DEF StepIsLegal
<1>13. QED
  BY <1>9, <1>10, <1>11, <1>12 DEF LotInv

\* An aborted auction leaves captains without a price, and the history its open lot
\* and its sales taken back.
LEMMA AbortKeeps ==
  ASSUME ClockInv, ClockInv', LotInv, NEW p \in Proc, AbortLand(p)
  PROVE  LotInv' /\ StepIsLegal
<1> DEFINE stays == {captain[t] : t \in Team}
           row == [NoRow EXCEPT !.updatedAt = draft.updatedAt]
<1>1. /\ Landed(p, "abort") /\ Write(row)
      /\ budget' = [t \in Team |-> budget[t] + Spent(t)]
      /\ teamOf' = [u \in User |-> IF u \in stays THEN teamOf[u] ELSE None]
      /\ price' = [u \in User |-> 0] /\ lots' = AbortedLots /\ UNCHANGED reg
      /\ soldAs' = [u \in User |-> IF u \in stays THEN soldAs[u] ELSE 0]
  BY DEF AbortLand, Lands, Landed
<1>2. /\ draft'.status = "NOT_STARTED" /\ draft'.nominationEndsAt = None /\ BlockCleared
  BY <1>1 DEF Write, NoRow, BlockCleared
<1> HIDE DEF row
<1>3. RowIsNew
  BY <1>1, <1>2, WrittenRowIsNew DEF BlockCleared
<1>4. /\ DOMAIN lots' = DOMAIN lots /\ OpenersStand
      /\ \A k \in DOMAIN lots :
           \/ lots'[k] = lots[k] /\ k # draft.currentLot
           \/ lots'[k].status = "ABORTED" /\ k = draft.currentLot
           \/ /\ lots'[k].status = "ABORTED" /\ lots[k].status = "SOLD"
              /\ lots'[k].receipt = lots[k].receipt
  <2> DEFINE sold == {soldAs[u] : u \in {v \in User : teamOf[v] # None}}
  <2>1. lots' = [k \in DOMAIN lots |->
                   IF k = draft.currentLot THEN Closing(k, "ABORTED")
                   ELSE IF k \in sold /\ lots[k].status = "SOLD"
                        THEN [lots[k] EXCEPT !.status = "ABORTED"] ELSE lots[k]]
    BY <1>1 DEF AbortedLots
  <2> HIDE DEF sold
  <2>2. \A k \in DOMAIN lots : /\ Closing(k, "ABORTED").status = "ABORTED"
                               /\ Closing(k, "ABORTED").by = lots[k].by
    BY LotTypes DEF Closing, Lot
  <2>3. \A k \in DOMAIN lots :
          /\ [lots[k] EXCEPT !.status = "ABORTED"].status = "ABORTED"
          /\ [lots[k] EXCEPT !.status = "ABORTED"].by = lots[k].by
          /\ [lots[k] EXCEPT !.status = "ABORTED"].receipt = lots[k].receipt
    BY LotTypes DEF Lot
  <2>4. QED
    BY <2>1, <2>2, <2>3 DEF OpenersStand
<1>5. Len(lots') = Len(lots)
  BY <1>4, LenProperties DEF ClockInv, RowsTyped
<1>6. LotKept'
  <2>1. \A k \in DOMAIN lots' : lots'[k].status = "OPEN" =>
          k \in DOMAIN lots /\ lots[k].status = "OPEN" /\ k # draft.currentLot
    BY <1>4
  <2>2. QED
    BY <1>2, <2>1, LotCloses DEF BlockCleared, LotInv
<1>7. RostersKept'
  <2>1. budget' \in [Team -> Nat]
    BY <1>1, SpentType DEF LotInv, RostersKept
  <2>2. RosterWithinSize'
    <3> SUFFICES ASSUME NEW m \in Team PROVE Count(teamOf')[m] <= TeamSize
      BY DEF RosterWithinSize, Count
    <3>1. \A v \in User : teamOf'[v] = m => teamOf[v] = m
      BY <1>1, NoneApart
    <3>2. Count(teamOf')[m] <= Count(teamOf)[m] /\ Count(teamOf)[m] <= TeamSize
      BY <3>1, NobodyJoins DEF LotInv, RostersKept, RosterWithinSize
    <3>3. Count(teamOf')[m] \in Nat /\ Count(teamOf)[m] \in Nat /\ TeamSize \in Nat
      BY CountType, SizeAssumption
    <3>4. QED
      BY <3>2, <3>3
  <2>3. RosteredAreActive' /\ PricesAreSales'
    BY <1>1, <1>4
    DEF LotInv, RostersKept, RosteredAreActive, PricesAreSales, PutUpByNobody, OpenersStand
  <2>4. QED
    BY <2>1, <2>2, <2>3 DEF RostersKept
<1>8. \A q \in Proc : LotSeen(tx[q])'
  BY <1>1, <1>3, OthersOnNewRow DEF Ops, Serializable
<1>9. StepIsLegal
  <2>1. PriceOnlyRises /\ TurnRespected
    BY <1>2, <1>5, LotTypes DEF PriceOnlyRises, TurnRespected, BlockCleared
  <2>2. OnlyAnExpiredClockCloses /\ EndsOnlyWhenDone
    BY <1>1, <1>2, LotTypes DEF OnlyAnExpiredClockCloses, EndsOnlyWhenDone
  <2>3. draft.currentLot \in DOMAIN lots => lots[draft.currentLot].status = "OPEN"
    BY BlockFacts, LotTypes
  <2>4. HistoryOnlyMovesForward /\ UndoTakesTheNewest
    BY <1>4, <2>3 DEF HistoryOnlyMovesForward, UndoTakesTheNewest
  <2>5. QED
    BY <2>1, <2>2, <2>4 DEF StepIsLegal
<1>10. QED
  BY <1>6, <1>7, <1>8, <1>9 DEF LotInv

\* A started auction has no lot on the block.
LEMMA StartKeeps ==
  ASSUME ClockInv, ClockInv', LotInv, NEW p \in Proc, StartLand(p)
  PROVE  LotInv' /\ StepIsLegal
<1> DEFINE row == [NoRow EXCEPT !.status = "IN_PROGRESS", !.nominatorTeam = Order[0],
                                !.nominationEndsAt = Now]
<1>1. /\ Landed(p, "start") /\ Write(row) /\ draft.status = "NOT_STARTED"
      /\ budget' = StartBudget
      /\ UNCHANGED <<captain, teamOf, price, flagged, soldAs, reg, bids, lots>>
  BY DEF StartLand, StartClaim, Lands, Landed
<1>2. /\ draft'.status = "IN_PROGRESS" /\ draft'.nominationEndsAt = Now /\ BlockCleared
  BY <1>1 DEF Write, NoRow, BlockCleared
<1> HIDE DEF row
<1>3. RowIsNew
  BY <1>1, <1>2, WrittenRowIsNew DEF BlockCleared
<1>4. \A k \in DOMAIN lots : lots[k].status # "OPEN"
  BY <1>1, BlockFacts DEF LotInv, LotKept, NoLotAtRest
<1>5. LotKept'
  BY <1>1, <1>2, <1>4, LotCloses DEF BlockCleared, LotInv
<1>6. RostersKept'
  BY <1>1, BudgetAssumption, RostersStand DEF SaleStands, OpenersStand, LotInv
<1>7. \A q \in Proc : LotSeen(tx[q])'
  BY <1>1, <1>3, OthersOnNewRow DEF Ops, Serializable
<1>8. StepIsLegal
  BY <1>1, <1>2, QuietStep
<1>9. QED
  BY <1>5, <1>6, <1>7, <1>8 DEF LotInv

\* What an operation that leaves the Draft row alone has to keep.
LEMMA OldRowStep ==
  ASSUME ClockInv, ClockInv', LotInv, NEW p \in Proc, NEW op \in Serializable, Landed(p, op),
         UNCHANGED <<draft, expired, lots>>,
         \A u \in User : price'[u] = price[u] \/ price'[u] = 0,
         UnderWay => /\ UNCHANGED <<budget, teamOf, captain>>
                     /\ \A u \in User : reg'[u] = "ACTIVE" => reg[u] = "ACTIVE",
         RostersKept'
  PROVE  LotInv' /\ StepIsLegal
<1>1. LotKept'
  <2>1. CASE UnderWay
    BY <2>1, LotStands DEF LotInv, LotKept, NoLotAtRest
  <2>2. CASE ~UnderWay
    <3>1. draft.nominatedUser = None
      BY <2>2, BlockFacts
    <3>2. draft.bidEndsAt = None
      BY <2>2 DEF ClockInv, ClockDiscipline, UnderWay
    <3>3. /\ draft.bidTeam = None /\ draft.currentBid = 0 /\ draft.currentLot = 0
          /\ \A k \in DOMAIN lots : lots[k].status # "OPEN"
      BY <3>1, BlockFacts
    <3>4. QED
      BY <3>1, <3>2, <3>3, LotCloses DEF LotInv
  <2>3. QED
    BY <2>1, <2>2
<1>2. \A q \in Proc : LotSeen(tx[q])'
  BY OthersOnOldRow
<1>3. StepIsLegal
  BY QuietStep
<1>4. QED
  BY <1>1, <1>2, <1>3 DEF LotInv

\* The season moves around the auction, which is parked or stays as it is.
LEMMA SeasonKeeps ==
  ASSUME ClockInv, ClockInv', LotInv, NEW p \in Proc,
         PhaseLand(p) \/ ArchiveLand(p) \/ ReactivateLand(p)
  PROVE  LotInv' /\ StepIsLegal
<1>1. PICK op \in {"phase", "archive", "reactivate"} :
        /\ Landed(p, op) /\ UNCHANGED <<ledger, reg, lots>>
        /\ Park \/ UNCHANGED <<draft, expired>>
  BY DEF PhaseLand, ArchiveLand, ReactivateLand, Lands, Landed
<1>2. op \in Ops /\ op \in Serializable
  BY DEF Ops, Serializable
<1>3. UNCHANGED <<captain, budget, teamOf, price, soldAs, reg, lots>>
  BY <1>1 DEF ledger
<1>4. CASE UNCHANGED <<draft, expired>>
  <2>1. RostersKept'
    BY <1>3, RostersStand DEF SaleStands, OpenersStand, LotInv, RostersKept
  <2>2. QED
    BY <1>1, <1>2, <1>3, <1>4, <2>1, OldRowStep
<1>5. CASE UnderWay /\ Write([Parked(draft) EXCEPT !.status = "PAUSED"])
  BY <1>1, <1>2, <1>5, ParkedKeeps
<1>6. QED
  BY <1>1, <1>4, <1>5 DEF Park, UnderWay

\* Signups and rosters move by hand only while no auction is under way, but for
\* the withdrawal of a player whom nobody, or nobody's turn, put on a roster.
LEMMA MembersKeep ==
  ASSUME ClockInv, ClockInv', MoneyInv, LotInv, NEW p \in Proc,
         \/ WithdrawLand(p) \/ ReinstateLand(p) \/ SignLand(p) \/ ReleaseLand(p)
         \/ TransferLand(p)
  PROVE  LotInv' /\ StepIsLegal
<1> DEFINE me == tx[p]
           u == me.user
<1>1. /\ me.pc = "claim" /\ ~me.stale /\ Landed(p, me.op)
      /\ me.op \in {"withdraw", "reinstate", "sign", "release", "transfer"}
      /\ UNCHANGED <<draft, expired, lots>>
  BY DEF WithdrawLand, ReinstateLand, SignLand, ReleaseLand, TransferLand, Lands, Landed
<1>2. Honest(me) /\ StillSo(me) /\ u \in User /\ me.op \in Serializable
      /\ (me.op \in {"sign", "release", "transfer"} => me.team \in Team)
  BY <1>1, LotTypes DEF Honest, NamesAUser, NamesATeam, LotInv, LotSeen, Serializable
<1>3. /\ RostersKept /\ teamOf \in [User -> Orl(Team)] /\ price \in [User -> Nat]
      /\ reg \in [User -> {"ACTIVE", "REMOVED"}] /\ budget \in [Team -> Nat]
  BY LotTypes DEF LotInv, RostersKept
<1>4. OpenersStand /\ \A k \in DOMAIN lots : lots[k].status = "SOLD" => SaleStands(k)
  BY <1>1 DEF SaleStands, OpenersStand
<1>5. CASE WithdrawLand(p)
  <2>1. /\ me.op = "withdraw" /\ reg' = [reg EXCEPT ![u] = "REMOVED"]
        /\ UNCHANGED <<captain, budget, teamOf, price, soldAs>>
    BY <1>5 DEF WithdrawLand, Lands, ledger
  <2>2. teamOf[u] # None => PutUpByNobody(u)
    BY <1>1, <1>2, <2>1 DEF StillSo, OnlyByNobody
  <2>3. \A v \in User : /\ v # u => reg'[v] = reg[v]
                        /\ reg'[v] = "ACTIVE" => reg[v] = "ACTIVE"
    BY <1>2, <1>3, <2>1
  <2>4. RostersKept'
    BY <1>3, <1>4, <2>1, <2>2, <2>3, RostersStand
  <2>5. QED
    BY <1>1, <1>2, <2>1, <2>3, <2>4, OldRowStep
<1>6. me.op # "withdraw" => ~UnderWay
  BY <1>1, <1>2 DEF StillSo
<1>7. CASE ReinstateLand(p)
  <2>1. /\ me.op = "reinstate" /\ reg' = [reg EXCEPT ![u] = "ACTIVE"]
        /\ UNCHANGED <<captain, budget, teamOf, price, soldAs>>
    BY <1>7 DEF ReinstateLand, Lands, ledger
  <2>2. \A v \in User : reg[v] = "ACTIVE" => reg'[v] = "ACTIVE"
    BY <1>2, <1>3, <2>1
  <2>3. RostersKept'
    BY <1>3, <1>4, <2>1, <2>2, RostersStand
  <2>4. QED
    BY <1>1, <1>2, <1>6, <2>1, <2>3, OldRowStep
<1>8. CASE SignLand(p)
  <2>1. /\ me.op = "sign" /\ teamOf[u] = None
        /\ teamOf' = [teamOf EXCEPT ![u] = me.team]
        /\ UNCHANGED <<captain, budget, price, soldAs, reg>>
    BY <1>8 DEF SignLand, SignClaim, Lands
  <2>2. reg[u] = "ACTIVE" /\ Count(teamOf)[me.team] < TeamSize
    BY <1>1, <1>2, <2>1 DEF StillSo
  <2>3. teamOf'[u] = me.team /\ \A v \in User \ {u} : teamOf'[v] = teamOf[v]
    BY <1>2, <1>3, <2>1
  <2>4. price'[u] = 0 /\ me.team \in Team /\ budget' \in [Team -> Nat]
    BY <1>2, <1>3, <2>1 DEF MoneyInv
  <2>5. UNCHANGED <<price, soldAs, reg>> /\ teamOf[u] = None
    BY <2>1
  <2>6. /\ \A v \in User \ {u} : /\ teamOf'[v] = teamOf[v]
                                 /\ price'[v] = price[v] /\ soldAs'[v] = soldAs[v]
        /\ ~(price'[u] > 0)
    BY <2>3, <2>4, <2>5
  <2> DEFINE t == me.team
  <2>7. RostersKept'
    <3>1. t \in Team /\ Count(teamOf)[t] < TeamSize /\ teamOf'[u] = t
      BY <2>2, <2>3, <2>4
    <3> HIDE DEF u, t
    <3>2. QED
      BY <1>2, <1>3, <1>4, <2>2, <2>4, <2>5, <2>6, <3>1, PlayerJoins
  <2>8. QED
    BY <1>1, <1>2, <1>6, <2>1, <2>7, OldRowStep
<1>9. CASE ReleaseLand(p)
  <2>1. /\ me.op = "release" /\ teamOf[u] = me.team /\ LeavesTeam(u, me.team)
        /\ UNCHANGED <<captain, reg>>
    BY <1>9 DEF ReleaseLand, ReleaseClaim, Lands
  <2>2. RostersKept'
    BY <1>2, <1>3, <1>4, <2>1, PlayerLeaves
  <2>3. \A v \in User : price'[v] = price[v] \/ price'[v] = 0
    BY <1>2, <1>3, <2>1 DEF LeavesTeam
  <2>4. QED
    BY <1>1, <1>2, <1>6, <2>1, <2>2, <2>3, OldRowStep
<1>10. CASE TransferLand(p)
  <2>1. me.op = "transfer" /\ UNCHANGED <<budget, teamOf, price, soldAs, reg>>
    BY <1>10 DEF TransferLand, Lands
  <2>2. RostersKept'
    BY <1>3, <1>4, <2>1, RostersStand
  <2>3. QED
    BY <1>1, <1>2, <1>6, <2>1, <2>2, OldRowStep
<1>11. QED
  BY <1>5, <1>7, <1>8, <1>9, <1>10

\* Rows that nobody writes make a legal step.
LEMMA NoStep ==
  ASSUME ClockInv, UNCHANGED db
  PROVE  StepIsLegal
BY QuietStep DEF db

\* Every second half keeps the invariant and is a legal step.
LEMMA LotCommits ==
  ASSUME ClockInv, ClockInv', MoneyInv, LotInv, NEW p \in Proc, Writes(p)
  PROVE  LotInv' /\ StepIsLegal
<1>1. CASE BidLand(p) \/ NominateLand(p) \/ StalledOpens(p)
  BY <1>1, BidKeeps, OpenKeeps
<1>2. CASE StalledAdvances(p) \/ StalledCompletes(p)
  BY <1>2, PassKeeps
<1>3. CASE SettleSells(p) \/ SettleVoids(p) \/ VoidLand(p)
  BY <1>3, SaleKeeps, VoidKeeps
<1>4. CASE PauseLand(p)
  <2>1. /\ Landed(p, "pause") /\ UnderWay /\ "pause" \in Ops
        /\ Write([Parked(draft) EXCEPT !.status = "PAUSED"])
        /\ UNCHANGED <<ledger, reg, lots>>
    BY <1>4 DEF PauseLand, PauseClaim, Lands, Landed, UnderWay, Ops
  <2>2. QED
    BY <2>1, ParkedKeeps
<1>5. CASE ResumeLand(p) \/ UndoLand(p) \/ AbortLand(p) \/ StartLand(p)
  BY <1>5, ResumeKeeps, UndoKeeps, AbortKeeps, StartKeeps
<1>6. CASE PhaseLand(p) \/ ArchiveLand(p) \/ ReactivateLand(p)
  BY <1>6, SeasonKeeps
<1>7. CASE WithdrawLand(p) \/ ReinstateLand(p) \/ SignLand(p) \/ ReleaseLand(p) \/ TransferLand(p)
  BY <1>7, MembersKeep
<1>8. CASE Refused(p)
  BY <1>8, LotEndsQuietly, NoStep DEF Refused
<1>9. QED
  BY <1>1, <1>2, <1>3, <1>4, <1>5, <1>6, <1>7, <1>8 DEF Writes

-----------------------------------------------------------------------------
(* The invariant *)

\* A clock that runs out changes no row, and only the resolvers ask whether it has.
LEMMA ExpireKeeps ==
  ASSUME ClockInv, LotInv, Expire
  PROVE  LotInv' /\ StepIsLegal
<1>1. /\ expired' = TRUE /\ UNCHANGED <<season, draft, ledger, reg, bids, lots, tx>>
  BY DEF Expire
<1>2. UNCHANGED <<captain, budget, teamOf, price, flagged, soldAs>>
  BY <1>1 DEF ledger
<1>3. LotKept'
  BY <1>1, <1>2
  DEF LotInv, LotKept, LotIsWhole, HighBidderCanPay, BidClockFitsLot, NoLotAtRest, ClockOf
<1>4. RostersKept'
  BY <1>1, <1>2
  DEF LotInv, RostersKept, RosterWithinSize, RosteredAreActive, PricesAreSales, PutUpByNobody
<1>5. ASSUME NEW p \in Proc PROVE LotSeen(tx[p])'
  <2> DEFINE t == tx[p]
  <2> SUFFICES ASSUME t.pc = "claim" PROVE (ClockSeen(t) /\ DecidedRight(t) /\ StillSo(t))'
    BY <1>1 DEF LotSeen
  <2>1. ClockSeen(t) /\ DecidedRight(t) /\ StillSo(t)
    BY <1>1 DEF LotInv, LotSeen
  <2>2. ClockSeen(t)' /\ StillSo(t)'
    BY <1>1, <1>2, <2>1
    DEF ClockSeen, StillSo, UnderWay, Purchases, OnlyByNobody, PutUpByNobody
  <2>3. DecidedRight(t)'
    <3>1. /\ Pool(teamOf)' = Pool(teamOf) /\ \A a, c : ClockOf(a, c)' = ClockOf(a, c)
          /\ UNCHANGED tx
      BY <1>1, <1>2 DEF Pool, ClockOf
    <3>2. QED
      BY <1>1, <1>2, <2>1, <3>1 DEF DecidedRight, OpensALot, Opening, MayNominate
  <2>4. QED
    BY <2>2, <2>3
<1>6. StepIsLegal
  BY <1>1, <1>2, QuietStep
<1>7. QED
  BY <1>3, <1>4, <1>5, <1>6 DEF LotInv

\* Before Start every team is its captain and there is no history.
LEMMA InitLotInv == Init => LotInv
<1> SUFFICES ASSUME Init PROVE LotInv
  OBVIOUS
<1>1. /\ draft.nominatedUser = None /\ draft.bidTeam = None /\ draft.currentBid = 0
      /\ draft.currentLot = 0 /\ draft.bidEndsAt = None
  BY DEF Init, NoRow
<1>2. lots = <<>> /\ price = [u \in User |-> 0] /\ reg = [u \in User |-> "ACTIVE"]
      /\ budget = StartBudget /\ teamOf = [u \in User |-> TeamCaptainedAtStart(u)]
      /\ \A p \in Proc : tx[p].pc = "idle"
  BY DEF Init, Idle
<1>3. LotKept
  BY <1>1, <1>2 DEF LotKept, LotIsWhole, HighBidderCanPay, BidClockFitsLot, NoLotAtRest
<1>4. RosterWithinSize
  <2> SUFFICES ASSUME NEW t \in Team PROVE Count(teamOf)[t] <= TeamSize
    BY DEF RosterWithinSize
  <2>1. {u \in User : teamOf[u] = t} \in SUBSET {InitCaptain[t]}
    BY <1>2, NoneApart DEF TeamCaptainedAtStart
  <2>2. IsFiniteSet({InitCaptain[t]}) /\ Cardinality({InitCaptain[t]}) = 1
    BY FS_Singleton
  <2>3. Cardinality({u \in User : teamOf[u] = t}) <= 1
    BY <2>1, <2>2, FS_Subset
  <2>4. QED
    BY <2>3, CountType, SizeAssumption
<1>5. RostersKept
  BY <1>2, <1>4, BudgetAssumption DEF RostersKept, RosteredAreActive, PricesAreSales
<1>6. QED
  BY <1>2, <1>3, <1>5 DEF LotInv, LotSeen

\* The invariant is inductive, given the clocks', the phase's and the money's, and
\* from a state that has it every step is legal.
LEMMA StepLotInv ==
  ClockInv /\ ClockInv' /\ PhaseInv /\ MoneyInv /\ LotInv /\ [Next]_vars
    => LotInv' /\ StepIsLegal
<1> SUFFICES ASSUME ClockInv, ClockInv', PhaseInv, MoneyInv, LotInv, [Next]_vars
             PROVE  LotInv' /\ StepIsLegal
  OBVIOUS
<1>1. CASE Expire
  BY <1>1, ExpireKeeps
<1>2. ASSUME NEW p \in Proc, Arrives(p) \/ ReadsRows(p) PROVE LotInv' /\ StepIsLegal
  <2>1. UNCHANGED db
    BY <1>2, OnlyWritesMove
  <2>2. QED
    BY <1>2, <2>1, LotArrival, LotReading, NoStep
<1>3. CASE \E p \in Proc : Writes(p)
  BY <1>3, LotCommits
<1>4. CASE UNCHANGED vars
  <2>1. UNCHANGED db /\ UNCHANGED tx
    BY <1>4 DEF vars
  <2>2. Kept'
    BY <2>1, RowsStay DEF LotInv, Kept
  <2>3. \A p \in Proc : LotSeen(tx[p])'
    <3>1. /\ UNCHANGED <<draft, expired, budget, teamOf, captain, reg, price, flagged, soldAs>>
          /\ UNCHANGED lots
          /\ Pool(teamOf)' = Pool(teamOf) /\ \A a, c : ClockOf(a, c)' = ClockOf(a, c)
      BY <2>1 DEF db, Pool, ClockOf
    <3>2. QED
      BY <2>1, <3>1
      DEF LotInv, LotSeen, ClockSeen, DecidedRight, StillSo, OpensALot, Opening, MayNominate,
          Purchases, UnderWay, OnlyByNobody, PutUpByNobody
  <2>4. QED
    BY <2>1, <2>2, <2>3, NoStep DEF LotInv, Kept
<1>5. QED
  BY <1>1, <1>2, <1>3, <1>4 DEF Next

\* For any number of teams, players, requests and bids: what an open transaction
\* of the draft decided is right of the rows as long as the row it read stands.
THEOREM LotInvariant == Spec => []LotInv
<1>1. Init => LotInv
  BY InitLotInv
<1>2. ClockInv /\ ClockInv' /\ PhaseInv /\ MoneyInv /\ LotInv /\ [Next]_vars => LotInv'
  BY StepLotInv
<1>3. Init => PhaseInv
  BY InitPhaseInv
<1>4. ClockInv /\ ClockInv' /\ PhaseInv /\ [Next]_vars => PhaseInv'
  BY StepPhaseInv
<1>5. Init /\ ClockInv => MoneyInv
  BY InitMoneyInv
<1>6. ClockInv /\ ClockInv' /\ MoneyInv /\ [Next]_vars => MoneyInv'
  BY StepMoneyInv
<1>7. QED
  BY <1>1, <1>2, <1>3, <1>4, <1>5, <1>6, ClockInvariant, PTL DEF Spec

\* No roster outgrows the team size, everyone on one holds an active signup or was
\* put up by a turn that ran out, and every price on one is the sale its lot
\* records (draft-service.ts:164-190, admin-roster.ts:270-331).
THEOREM RostersStaySound == Spec => []RostersAreSound
<1>1. LotInv => RostersAreSound
  BY DEF LotInv, RostersKept, RostersAreSound
<1>2. QED
  BY <1>1, LotInvariant, PTL

\* The lot on the block is the one open lot, on a player no team has, at a price
\* its high bidder can pay and still fill its seats, under the clock it deserves;
\* no budget is ever negative (draft-service.ts:58-74, 187-190).
THEOREM LotStaysPayable ==
  Spec => [](TypeOK /\ LotIsWhole /\ HighBidderCanPay /\ BidClockFitsLot)
<1>1. ClockInv /\ LotInv => TypeOK /\ LotIsWhole /\ HighBidderCanPay /\ BidClockFitsLot
  BY DEF ClockInv, LotInv, RostersKept, LotKept, TypeOK
<1>2. QED
  BY <1>1, ClockInvariant, LotInvariant, PTL

\* No step ever lowers a price, opens a lot out of turn, cuts a running clock
\* short, ends an auction early, reopens a closed lot or undoes any sale but the
\* newest (draft-service.ts:164-190, 784-787, 884-900).
THEOREM StepsStayLegal == Spec => StepsAreLegal
<1>1. ClockInv /\ ClockInv' /\ PhaseInv /\ MoneyInv /\ LotInv /\ [Next]_vars
        => [StepIsLegal]_vars
  BY StepLotInv
<1>2. Init => PhaseInv
  BY InitPhaseInv
<1>3. ClockInv /\ ClockInv' /\ PhaseInv /\ [Next]_vars => PhaseInv'
  BY StepPhaseInv
<1>4. Init /\ ClockInv => MoneyInv
  BY InitMoneyInv
<1>5. ClockInv /\ ClockInv' /\ MoneyInv /\ [Next]_vars => MoneyInv'
  BY StepMoneyInv
<1>6. QED
  BY <1>1, <1>2, <1>3, <1>4, <1>5, ClockInvariant, LotInvariant, PTL DEF Spec, StepsAreLegal

-----------------------------------------------------------------------------
(* The receipts, where no player is released *)

\* No request releases a player.
NoReleases == \A p \in Proc : tx[p].op # "release"

\* The bid a lot was sold on is on its receipt, and no bid on it is higher.
SoldOnHighest(k) ==
  \E b \in lots[k].receipt :
    /\ b.team = lots[k].soldTeam /\ b.amount = lots[k].soldPrice
    /\ \A c \in lots[k].receipt : c.amount <= b.amount

\* A step that leaves the lot on the block, the history and the Bid rows alone, and
\* after which everyone who was on a roster still is.
LEMMA TrailStands ==
  ASSUME TrailInv, UNCHANGED <<lots, bids>>,
         draft'.nominatedUser = draft.nominatedUser, draft'.currentLot = draft.currentLot,
         draft'.currentBid = draft.currentBid,
         \A b \in bids : teamOf[b.user] # None => teamOf'[b.user] # None
  PROVE  TrailInv'
<1>1. ReceiptTellsTheSale'
  BY DEF TrailInv, ReceiptTellsTheSale
<1>2. QED
  BY <1>1 DEF TrailInv

\* A step that leaves nothing on the block, and no receipt other than it was.
LEMMA TrailRests ==
  ASSUME TrailInv, draft'.nominatedUser = None,
         \A b \in bids' : teamOf'[b.user] # None,
         \A k \in DOMAIN lots' :
           /\ k \in DOMAIN lots /\ lots'[k].receipt = lots[k].receipt
           /\ lots'[k].user = lots[k].user
           /\ lots'[k].status = "OPEN" => lots[k].status = "OPEN"
           /\ \/ /\ lots'[k].soldTeam = lots[k].soldTeam
                 /\ lots'[k].soldPrice = lots[k].soldPrice
              \/ SoldOnHighest(k)' /\ lots'[k].status # "OPEN"
  PROVE  TrailInv'
<1>1. ReceiptTellsTheSale'
  <2> SUFFICES ASSUME NEW k \in DOMAIN lots'
               PROVE  /\ \A b \in lots'[k].receipt : b.lot = k /\ b.user = lots'[k].user
                      /\ \A b, c \in lots'[k].receipt : b.amount = c.amount => b = c
                      /\ lots'[k].soldTeam # None => SoldOnHighest(k)'
    BY DEF ReceiptTellsTheSale, SoldOnHighest
  <2>1. /\ \A b \in lots[k].receipt : b.lot = k /\ b.user = lots[k].user
        /\ \A b, c \in lots[k].receipt : b.amount = c.amount => b = c
        /\ lots[k].soldTeam # None => SoldOnHighest(k)
    BY DEF TrailInv, ReceiptTellsTheSale, SoldOnHighest
  <2>2. lots'[k].soldTeam # None => SoldOnHighest(k)'
    BY <2>1 DEF SoldOnHighest
  <2>3. QED
    BY <2>1, <2>2
<1>2. QED
  BY <1>1 DEF TrailInv

\* With nobody on the block every Bid row is of a rostered player.
LEMMA RestingTrail ==
  ASSUME ClockInv, TrailInv, draft.nominatedUser = None
  PROVE  \A b \in bids : b.user \in User /\ teamOf[b.user] # None
<1>1. \A b \in bids : b.user \in User
  BY LotTypes DEF BidRow
<1>2. QED
  BY <1>1, NoneApart DEF TrailInv

\* With a player on the block every Bid row of theirs is on the lot's receipt, so
\* that closing the lot adds nothing to it.
LEMMA NothingToReceipt ==
  ASSUME ClockInv, LotInv, TrailInv, draft.nominatedUser # None, NEW status
  PROVE  LET k == draft.currentLot IN
         /\ Trail(draft.nominatedUser) \subseteq lots[k].receipt
         /\ \A b \in bids \ Trail(draft.nominatedUser) :
              b.user \in User /\ teamOf[b.user] # None
         /\ Closing(k, status).receipt = lots[k].receipt
         /\ Closing(k, status).status = status /\ Closing(k, status).user = lots[k].user
         /\ Closing(k, status).soldTeam = None
<1> DEFINE k == draft.currentLot
<1>1. /\ k \in DOMAIN lots /\ lots[k].status = "OPEN" /\ lots[k].user = draft.nominatedUser
      /\ teamOf[draft.nominatedUser] = None /\ lots[k] \in Lot
  BY BlockFacts, LotTypes
<1>2. \A b \in bids : b.user \in User
  BY LotTypes DEF BidRow
<1>3. Trail(draft.nominatedUser) \subseteq lots[k].receipt
  BY <1>1 DEF TrailInv, Trail
<1>4. \A b \in bids \ Trail(draft.nominatedUser) : teamOf[b.user] # None
  BY DEF TrailInv, Trail
<1>5. lots[k].soldTeam = None
  BY <1>1 DEF TrailInv
<1>6. Closing(k, status) = [lots[k] EXCEPT !.status = status, !.receipt = lots[k].receipt]
  BY <1>1, <1>3 DEF Closing
<1>7. QED
  BY <1>1, <1>2, <1>3, <1>4, <1>5, <1>6 DEF Lot

\* An accepted bid goes on the receipt, above all that are there.
LEMMA BidTrail ==
  ASSUME ClockInv, ClockInv', LotInv, TrailInv, NEW p \in Proc, BidLand(p)
  PROVE  TrailInv'
<1> DEFINE me == tx[p]
           k == draft.currentLot
           bid == BidRecord(k, draft.nominatedUser, me.team, me.amount)
<1>1. /\ draft.nominatedUser # None /\ me.amount \in Nat
      /\ CanBid(budget[me.team], Count(teamOf)[me.team], me.amount, draft.currentBid)
      /\ draft'.nominatedUser = draft.nominatedUser /\ draft'.currentBid = me.amount
      /\ draft'.currentLot = k
      /\ bids' = bids \cup {bid} /\ DOMAIN lots' = DOMAIN lots
      /\ \A j \in DOMAIN lots :
           /\ lots'[j].status = lots[j].status /\ lots'[j].user = lots[j].user
           /\ lots'[j].by = lots[j].by
           /\ lots'[j].soldTeam = lots[j].soldTeam /\ lots'[j].soldPrice = lots[j].soldPrice
           /\ lots'[j].receipt = IF j = k THEN lots[j].receipt \cup {bid} ELSE lots[j].receipt
      /\ UNCHANGED teamOf
  BY BidEffect DEF ledger
<1>2. /\ k \in DOMAIN lots /\ lots[k].status = "OPEN" /\ lots[k].user = draft.nominatedUser
      /\ draft.currentBid \in Nat /\ lots[k] \in Lot
  BY <1>1, BlockFacts, LotTypes
<1>3. bid.user = draft.nominatedUser /\ bid.lot = k /\ bid.amount = me.amount
  BY DEF BidRecord
<1>4. me.amount > draft.currentBid
  BY <1>1 DEF CanBid
<1> HIDE DEF bid
<1>5. \A b \in lots[k].receipt : b.amount < me.amount /\ b.amount \in Nat
  BY <1>1, <1>2, <1>4 DEF TrailInv, Lot, BidRow
<1>5a. me.amount \in Nat
  BY <1>1
<1>5b. lots'[k].receipt = lots[k].receipt \cup {bid} /\ lots'[k].user = lots[k].user
  BY <1>1, <1>2
<1>6. ReceiptTellsTheSale'
  <2> SUFFICES ASSUME NEW j \in DOMAIN lots
               PROVE  /\ \A b \in lots'[j].receipt : b.lot = j /\ b.user = lots'[j].user
                      /\ \A b, c \in lots'[j].receipt : b.amount = c.amount => b = c
                      /\ lots'[j].soldTeam # None => SoldOnHighest(j)'
    BY <1>1 DEF ReceiptTellsTheSale, SoldOnHighest
  <2>1. /\ \A b \in lots[j].receipt : b.lot = j /\ b.user = lots[j].user
        /\ \A b, c \in lots[j].receipt : b.amount = c.amount => b = c
        /\ lots[j].soldTeam # None => SoldOnHighest(j)
    BY DEF TrailInv, ReceiptTellsTheSale, SoldOnHighest
  <2>2. CASE j # k
    <3>1. /\ lots'[j].receipt = lots[j].receipt /\ lots'[j].user = lots[j].user
          /\ lots'[j].soldTeam = lots[j].soldTeam /\ lots'[j].soldPrice = lots[j].soldPrice
      BY <1>1, <2>2
    <3> HIDE DEF k, me
    <3>2. QED
      BY <2>1, <3>1 DEF SoldOnHighest
  <2>3. CASE j = k
    <3>1. lots'[j].soldTeam = None
      BY <1>1, <1>2, <2>3 DEF TrailInv
    <3> HIDE DEF k, me
    <3>2. \A b \in lots'[j].receipt : b.lot = j /\ b.user = lots'[j].user
      BY <1>2, <1>3, <1>5b, <2>1, <2>3
    <3>3. \A b, c \in lots'[j].receipt : b.amount = c.amount => b = c
      <4>1. \A b, c \in lots[k].receipt : b.amount = c.amount => b = c
        BY <2>1, <2>3
      <4>2. \A b \in lots[k].receipt : b.amount # bid.amount
        BY <1>3, <1>5, <1>5a
      <4>3. QED
        BY <1>5b, <2>3, <4>1, <4>2
    <3>4. QED
      BY <3>1, <3>2, <3>3
  <2>4. QED
    BY <2>2, <2>3
<1>7. \A b \in lots'[k].receipt : b.amount <= me.amount
  <2> HIDE DEF k, me
  <2>1. QED
    BY <1>3, <1>5, <1>5a, <1>5b
<1>8. ASSUME NEW b \in bids'
      PROVE  \/ /\ b.user = draft'.nominatedUser /\ b.lot = draft'.currentLot
                /\ b \in lots'[draft'.currentLot].receipt
             \/ teamOf'[b.user] # None
  BY <1>1, <1>2, <1>3, <1>8 DEF TrailInv
<1>9. \A j \in DOMAIN lots' : lots'[j].status = "OPEN" => lots'[j].soldTeam = None
  BY <1>1 DEF TrailInv
<1>10. QED
  BY <1>1, <1>6, <1>7, <1>8, <1>9 DEF TrailInv

\* A lot opens with one bid, on a player who has no other Bid row.
LEMMA OpenTrail ==
  ASSUME ClockInv, ClockInv', LotInv, TrailInv, NEW p \in Proc,
         NominateLand(p) \/ StalledOpens(p)
  PROVE  TrailInv'
<1> DEFINE me == tx[p]
           n == Len(lots) + 1
           a == Opening(me)
           bid == BidRecord(n, me.user, me.team, a)
           by == IF me.op = "nominate" THEN me.by ELSE None
<1>1. /\ draft.nominatedUser = None /\ a \in Nat
      /\ draft'.nominatedUser = me.user /\ draft'.currentBid = a /\ draft'.currentLot = n
      /\ bids' = bids \cup {bid}
      /\ n \notin DOMAIN lots /\ DOMAIN lots' = DOMAIN lots \cup {n}
      /\ \A k \in DOMAIN lots : lots'[k] = lots[k]
      /\ lots'[n] = [user |-> me.user, nominator |-> me.team, status |-> "OPEN", by |-> by,
                     soldTeam |-> None, soldPrice |-> 0, receipt |-> {bid}]
      /\ UNCHANGED teamOf
  BY OpenEffect DEF ledger
<1>2. /\ lots'[n].user = me.user /\ lots'[n].receipt = {bid} /\ lots'[n].soldTeam = None
      /\ bid.user = me.user /\ bid.lot = n /\ bid.amount = a
  BY <1>1 DEF BidRecord
<1>3. \A b \in bids : teamOf'[b.user] # None
  BY <1>1, RestingTrail
<1> HIDE DEF bid, n, a
<1>4. ReceiptTellsTheSale'
  <2> SUFFICES ASSUME NEW j \in DOMAIN lots'
               PROVE  /\ \A b \in lots'[j].receipt : b.lot = j /\ b.user = lots'[j].user
                      /\ \A b, c \in lots'[j].receipt : b.amount = c.amount => b = c
                      /\ lots'[j].soldTeam # None => SoldOnHighest(j)'
    BY DEF ReceiptTellsTheSale, SoldOnHighest
  <2>1. CASE j = n
    BY <1>2, <2>1
  <2>2. CASE j \in DOMAIN lots
    <3>1. lots'[j] = lots[j]
      BY <1>1, <2>2
    <3>2. /\ \A b \in lots[j].receipt : b.lot = j /\ b.user = lots[j].user
          /\ \A b, c \in lots[j].receipt : b.amount = c.amount => b = c
          /\ lots[j].soldTeam # None => SoldOnHighest(j)
      BY <2>2 DEF TrailInv, ReceiptTellsTheSale, SoldOnHighest
    <3>3. QED
      BY <3>1, <3>2 DEF SoldOnHighest
  <2>3. QED
    BY <1>1, <2>1, <2>2
<1>5. \A b \in lots'[n].receipt : b.amount <= a
  BY <1>1, <1>2
<1>6. \A j \in DOMAIN lots' : lots'[j].status = "OPEN" => lots'[j].soldTeam = None
  BY <1>1, <1>2 DEF TrailInv
<1>7. \A b \in bids' : \/ b.user = me.user /\ b.lot = n /\ b \in lots'[n].receipt
                       \/ teamOf'[b.user] # None
  BY <1>1, <1>2, <1>3
<1>8. QED
  BY <1>1, <1>4, <1>5, <1>6, <1>7 DEF TrailInv

\* A sold lot is sold on the highest bid of its receipt, which is its price.
LEMMA SaleTrail ==
  ASSUME ClockInv, LotInv, TrailInv, NEW p \in Proc, SettleSells(p)
  PROVE  TrailInv'
<1> DEFINE u == draft.nominatedUser
           t == draft.bidTeam
           k == draft.currentLot
           a == draft.currentBid
           sold == [Closing(k, "SOLD") EXCEPT !.soldTeam = t, !.soldPrice = a]
<1>1. /\ Lands(p, "settle", SettleClaim(tx[p]))
      /\ teamOf' = [teamOf EXCEPT ![u] = t]
      /\ lots' = [lots EXCEPT ![k] = sold]
      /\ Rotate(budget', teamOf') /\ UNCHANGED bids
  BY DEF SettleSells
<1>2. draft.status = "IN_PROGRESS" /\ u # None
  BY <1>1, SettlesThisLot
<1>3. draft'.nominatedUser = None
  <2> DEFINE b == budget'
             r == teamOf'
  <2>1. Rotate(b, r)
    BY <1>1
  <2> HIDE DEF b, r
  <2>2. QED
    BY <1>2, <2>1, RotateClears
<1>4. /\ k \in DOMAIN lots /\ lots[k] \in Lot /\ u \in User /\ t \in Team
      /\ teamOf \in [User -> Orl(Team)]
      /\ \E b \in lots[k].receipt : b.amount = a /\ b.team = t
      /\ \A c \in lots[k].receipt : c.amount <= a
  BY <1>2, BlockFacts, LotTypes DEF LotInv, LotKept, LotIsWhole, TrailInv
<1>5. /\ \A b \in bids \ Trail(u) : b.user \in User /\ teamOf[b.user] # None
      /\ Closing(k, "SOLD").receipt = lots[k].receipt
      /\ Closing(k, "SOLD").user = lots[k].user
  BY <1>2, NothingToReceipt
<1>6. /\ sold.status = "SOLD" /\ sold.user = lots[k].user /\ sold.receipt = lots[k].receipt
      /\ sold.soldTeam = t /\ sold.soldPrice = a
  BY <1>4, <1>5 DEF Closing, Lot
<1> HIDE DEF sold
<1>7. /\ DOMAIN lots' = DOMAIN lots /\ lots'[k] = sold
      /\ \A j \in DOMAIN lots : j # k => lots'[j] = lots[j]
  BY <1>1, <1>4, OneLotChanges
<1>8. \A b \in bids' : teamOf'[b.user] # None
  <2> SUFFICES ASSUME NEW b \in bids PROVE teamOf'[b.user] # None
    BY <1>1
  <2>1. CASE b.user = u
    BY <1>1, <1>4, <2>1, NoneApart
  <2>2. CASE b.user # u
    BY <1>1, <1>4, <1>5, <2>2 DEF Trail
  <2>3. QED
    BY <2>1, <2>2
<1>9. ASSUME NEW j, j = k PROVE SoldOnHighest(j)'
  <2>1. SoldOnHighest(j)' <=> \E b \in lots'[j].receipt :
          /\ b.team = lots'[j].soldTeam /\ b.amount = lots'[j].soldPrice
          /\ \A c \in lots'[j].receipt : c.amount <= b.amount
    BY DEF SoldOnHighest
  <2>2. lots'[j] = sold
    BY <1>7, <1>9
  <2> HIDE DEF k, a, t
  <2>3. QED
    BY <1>4, <1>6, <1>9, <2>1, <2>2
<1>10. ASSUME NEW j \in DOMAIN lots'
       PROVE  /\ j \in DOMAIN lots /\ lots'[j].receipt = lots[j].receipt
              /\ lots'[j].user = lots[j].user
              /\ lots'[j].status = "OPEN" => lots[j].status = "OPEN"
              /\ \/ /\ lots'[j].soldTeam = lots[j].soldTeam
                    /\ lots'[j].soldPrice = lots[j].soldPrice
                 \/ SoldOnHighest(j)' /\ lots'[j].status # "OPEN"
  <2>1. j \in DOMAIN lots
    BY <1>7
  <2>2. CASE j = k
    <3>1. SoldOnHighest(j)'
      BY <1>9, <2>2
    <3> HIDE DEF k
    <3>2. QED
      BY <1>6, <1>7, <2>1, <2>2, <3>1
  <2>3. CASE j # k
    BY <1>7, <2>1, <2>3
  <2>4. QED
    BY <2>2, <2>3
<1>11. QED
  BY <1>3, <1>8, <1>10, TrailRests

\* A lot that closes unsold goes with every Bid row of its player.
LEMMA VoidTrail ==
  ASSUME ClockInv, LotInv, TrailInv, NEW p \in Proc, SettleVoids(p) \/ VoidLand(p)
  PROVE  TrailInv'
<1> DEFINE u == draft.nominatedUser
           k == draft.currentLot
           x == Closing(k, "VOIDED")
<1>1. /\ lots' = [lots EXCEPT ![k] = x] /\ bids' = WithoutTrail(u)
      /\ UNCHANGED teamOf
  BY DEF SettleVoids, VoidLand, ledger
<1>2. u # None /\ draft'.nominatedUser = None
  <2>1. CASE SettleVoids(p)
    <3>1. Lands(p, "settle", SettleClaim(tx[p])) /\ Rotate(budget, teamOf)
      BY <2>1 DEF SettleVoids
    <3>2. draft.status = "IN_PROGRESS" /\ u # None
      BY <3>1, SettlesThisLot
    <3>3. QED
      BY <3>1, <3>2, RotateClears
  <2>2. CASE VoidLand(p)
    <3> DEFINE row == [NoLot(draft) EXCEPT !.nominationEndsAt = None]
    <3>1. /\ tx[p].op = "void" /\ tx[p].pc = "claim" /\ Write(row)
          /\ draft.updatedAt = tx[p].snap.updatedAt
      BY <2>2 DEF VoidLand, VoidClaim, Lands
    <3>2. tx[p].snap = draft /\ DecidedRight(tx[p])
      BY <3>1, ReadThisRow
    <3>3. draft'.nominatedUser = None
      BY <3>1, LotTypes DEF Write, NoLot, DraftRow
    <3>4. QED
      BY <3>1, <3>2, <3>3 DEF DecidedRight
  <2>3. QED
    BY <2>1, <2>2
<1>3. /\ \A b \in bids \ Trail(u) : b.user \in User /\ teamOf[b.user] # None
      /\ x.receipt = lots[k].receipt /\ x.user = lots[k].user /\ x.status = "VOIDED"
      /\ x.soldTeam = None
  BY <1>2, NothingToReceipt
<1>4. k \in DOMAIN lots /\ lots[k].soldTeam = None /\ lots[k] \in Lot
  BY <1>2, BlockFacts, LotTypes DEF TrailInv
<1>5. x.soldPrice = lots[k].soldPrice
  BY <1>4 DEF Closing, Lot
<1> HIDE DEF x
<1>6. /\ DOMAIN lots' = DOMAIN lots /\ lots'[k] = x
      /\ \A j \in DOMAIN lots : j # k => lots'[j] = lots[j]
  BY <1>1, <1>4, OneLotChanges
<1>7. \A b \in bids' : teamOf'[b.user] # None
  BY <1>1, <1>3 DEF WithoutTrail
<1>8. QED
  BY <1>2, <1>3, <1>4, <1>5, <1>6, <1>7, TrailRests

\* The undone sale's player leaves the roster with all their Bid rows.
LEMMA UndoTrail ==
  ASSUME ClockInv, LotInv, TrailInv, NEW p \in Proc, UndoLand(p)
  PROVE  TrailInv'
<1> DEFINE u == tx[p].user
           t == teamOf[u]
           k == soldAs[u]
           x == [lots[k] EXCEPT !.status = "UNDONE"]
           held == [draft EXCEPT !.nominatorTeam = t, !.nominationEndsAt = None]
           again == [draft EXCEPT !.status = "IN_PROGRESS", !.nominatorTeam = t,
                                  !.nominationEndsAt = Now]
           row == IF draft.status = "PAUSED" THEN held ELSE again
<1>1. /\ u \in Purchases /\ draft.nominatedUser = None /\ Write(row)
      /\ teamOf' = [teamOf EXCEPT ![u] = None]
      /\ bids' = WithoutTrail(u) /\ lots' = [lots EXCEPT ![k] = x]
  BY DEF UndoLand, UndoClaim, Lands, LeavesTeam
<1>2. draft'.nominatedUser = None
  BY <1>1, LotTypes DEF Write, DraftRow
<1> HIDE DEF row
<1>3. k \in DOMAIN lots /\ lots[k] \in Lot
  BY <1>1, LotTypes DEF Purchases, LotInv, RostersKept, PricesAreSales
<1>4. /\ x.status = "UNDONE" /\ x.receipt = lots[k].receipt /\ x.user = lots[k].user
      /\ x.soldTeam = lots[k].soldTeam /\ x.soldPrice = lots[k].soldPrice
  BY <1>3 DEF Lot
<1> HIDE DEF x
<1>5. /\ DOMAIN lots' = DOMAIN lots /\ lots'[k] = x
      /\ \A j \in DOMAIN lots : j # k => lots'[j] = lots[j]
  BY <1>1, <1>3, OneLotChanges
<1>6. \A b \in bids' : teamOf'[b.user] # None
  <2>1. \A b \in bids : b.user \in User /\ teamOf[b.user] # None
    BY <1>1, RestingTrail
  <2>2. QED
    BY <1>1, <2>1, LotTypes DEF WithoutTrail, Trail
<1>7. QED
  BY <1>2, <1>4, <1>5, <1>6, TrailRests

\* An aborted auction keeps its receipts and no Bid row.
LEMMA AbortTrail ==
  ASSUME ClockInv, LotInv, TrailInv, NEW p \in Proc, AbortLand(p)
  PROVE  TrailInv'
<1> DEFINE row == [NoRow EXCEPT !.updatedAt = draft.updatedAt]
           sold == {soldAs[u] : u \in {v \in User : teamOf[v] # None}}
           k == draft.currentLot
<1>1. Write(row) /\ bids' = {} /\ lots' = AbortedLots
  BY DEF AbortLand
<1>2. draft'.nominatedUser = None
  BY <1>1 DEF Write, NoRow
<1> HIDE DEF row
<1>3. lots' = [j \in DOMAIN lots |->
                 IF j = k THEN Closing(j, "ABORTED")
                 ELSE IF j \in sold /\ lots[j].status = "SOLD"
                      THEN [lots[j] EXCEPT !.status = "ABORTED"] ELSE lots[j]]
  BY <1>1 DEF AbortedLots
<1> HIDE DEF sold
<1>4. DOMAIN lots' = DOMAIN lots
  BY <1>3
<1>5. ASSUME NEW j \in DOMAIN lots
      PROVE  /\ lots'[j].receipt = lots[j].receipt /\ lots'[j].user = lots[j].user
             /\ lots'[j].status = "OPEN" => lots[j].status = "OPEN"
             /\ lots'[j].soldTeam = lots[j].soldTeam
             /\ lots'[j].soldPrice = lots[j].soldPrice
  <2>1. lots[j] \in Lot
    BY LotTypes
  <2>2. CASE j = k
    <3>1. draft.nominatedUser # None
      BY <2>2, BlockFacts, LotTypes
    <3>2. lots'[j] = Closing(k, "ABORTED")
      BY <1>3, <2>2
    <3>3. /\ Closing(k, "ABORTED").receipt = lots[k].receipt
          /\ Closing(k, "ABORTED").status = "ABORTED"
          /\ Closing(k, "ABORTED").user = lots[k].user
          /\ Closing(k, "ABORTED").soldTeam = None
      BY <3>1, NothingToReceipt
    <3>4. lots[k].soldTeam = None
      BY <3>1, BlockFacts DEF TrailInv
    <3>5. Closing(k, "ABORTED").soldPrice = lots[k].soldPrice
      BY <2>1, <2>2 DEF Closing, Lot
    <3> HIDE DEF k
    <3>6. QED
      BY <2>2, <3>2, <3>3, <3>4, <3>5
  <2>3. CASE j # k
    <3>1. \/ lots'[j] = lots[j]
          \/ lots'[j] = [lots[j] EXCEPT !.status = "ABORTED"]
      BY <1>3, <2>3
    <3>2. QED
      BY <2>1, <3>1 DEF Lot
  <2>4. QED
    BY <2>2, <2>3
<1>6. QED
  BY <1>1, <1>2, <1>4, <1>5, TrailRests

\* What pauses, resumes, passes or starts leaves the lot on the block alone, and
\* what moves the season, signups and captains leaves the rosters and Bid rows alone.
LEMMA QuietTrail ==
  ASSUME ClockInv, LotInv, TrailInv, NEW p \in Proc,
         \/ StalledAdvances(p) \/ StalledCompletes(p) \/ PauseLand(p) \/ ResumeLand(p)
         \/ StartLand(p) \/ PhaseLand(p) \/ ArchiveLand(p) \/ ReactivateLand(p)
         \/ WithdrawLand(p) \/ ReinstateLand(p) \/ TransferLand(p)
  PROVE  TrailInv'
<1>1. UNCHANGED <<lots, bids, teamOf>>
  BY DEF StalledAdvances, StalledCompletes, PauseLand, ResumeLand, StartLand, PhaseLand,
         ArchiveLand, ReactivateLand, WithdrawLand, ReinstateLand, TransferLand, ledger
<1>2. /\ draft'.nominatedUser = draft.nominatedUser /\ draft'.currentLot = draft.currentLot
      /\ draft'.currentBid = draft.currentBid
  <2>1. CASE StalledAdvances(p) \/ StalledCompletes(p)
    BY <2>1, LotTypes DEF StalledAdvances, StalledCompletes, Write, DraftRow
  <2>2. CASE PauseLand(p) \/ ArchiveLand(p) \/ ReactivateLand(p)
    <3> DEFINE row == [Parked(draft) EXCEPT !.status = "PAUSED"]
    <3>1. /\ row.nominatedUser = draft.nominatedUser /\ row.currentLot = draft.currentLot
          /\ row.currentBid = draft.currentBid
      BY LotTypes DEF Parked, DraftRow
    <3>2. {"nominatedUser", "currentLot", "currentBid"} \subseteq DOMAIN row
      BY LotTypes DEF Parked, DraftRow
    <3>3. Write(row) \/ UNCHANGED draft
      BY <2>2 DEF PauseLand, ArchiveLand, ReactivateLand, Park
    <3> HIDE DEF row
    <3>4. QED
      BY <3>1, <3>2, <3>3 DEF Write
  <2>3. CASE ResumeLand(p)
    BY <2>3, LotTypes DEF ResumeLand, Write, DraftRow
  <2>4. CASE StartLand(p)
    <3>1. draft.nominatedUser = None
      BY <2>4 DEF StartLand, StartClaim, Lands, LotInv, LotKept, NoLotAtRest
    <3>2. draft.currentLot = 0 /\ draft.currentBid = 0
      BY <3>1, BlockFacts
    <3>3. QED
      BY <2>4, <3>1, <3>2 DEF StartLand, Write, NoRow
  <2>5. CASE PhaseLand(p) \/ WithdrawLand(p) \/ ReinstateLand(p) \/ TransferLand(p)
    BY <2>5 DEF PhaseLand, WithdrawLand, ReinstateLand, TransferLand
  <2>6. QED
    BY <2>1, <2>2, <2>3, <2>4, <2>5
<1>3. QED
  BY <1>1, <1>2, TrailStands

\* A free agent joins a roster after the auction.
LEMMA SignTrail ==
  ASSUME ClockInv, LotInv, TrailInv, NEW p \in Proc, SignLand(p)
  PROVE  TrailInv'
<1> DEFINE u == tx[p].user
           t == tx[p].team
<1>1. /\ tx[p].op = "sign" /\ tx[p].pc = "claim" /\ teamOf' = [teamOf EXCEPT ![u] = t]
      /\ UNCHANGED <<draft, bids, lots>>
  BY DEF SignLand, Lands
<1>2. t \in Team /\ u \in User /\ teamOf \in [User -> Orl(Team)] /\ t # None
  BY <1>1, LotTypes, NoneApart DEF Honest, NamesAUser, NamesATeam
<1>3. \A v \in User : teamOf[v] # None => teamOf'[v] # None
  BY <1>1, <1>2
<1>4. \A b \in bids : b.user \in User
  BY LotTypes DEF BidRow
<1> HIDE DEF u, t
<1>5. QED
  BY <1>1, <1>3, <1>4, TrailStands

\* Every second half but a release's keeps the receipts.
LEMMA TrailCommits ==
  ASSUME ClockInv, ClockInv', LotInv, TrailInv, NEW p \in Proc, Writes(p), ~ReleaseLand(p)
  PROVE  TrailInv'
<1>1. CASE Refused(p)
  <2>1. UNCHANGED <<lots, bids, draft, teamOf>>
    BY <1>1 DEF Refused, db
  <2>2. QED
    BY <2>1, TrailStands
<1>2. CASE BidLand(p) \/ NominateLand(p) \/ StalledOpens(p)
  BY <1>2, BidTrail, OpenTrail
<1>3. CASE SettleSells(p) \/ SettleVoids(p) \/ VoidLand(p)
  BY <1>3, SaleTrail, VoidTrail
<1>4. CASE UndoLand(p) \/ AbortLand(p) \/ SignLand(p)
  BY <1>4, UndoTrail, AbortTrail, SignTrail
<1>5. CASE \/ StalledAdvances(p) \/ StalledCompletes(p) \/ PauseLand(p) \/ ResumeLand(p)
           \/ StartLand(p) \/ PhaseLand(p) \/ ArchiveLand(p) \/ ReactivateLand(p)
           \/ WithdrawLand(p) \/ ReinstateLand(p) \/ TransferLand(p)
  BY <1>5, QuietTrail
<1>6. QED
  BY <1>1, <1>2, <1>3, <1>4, <1>5 DEF Writes

\* One request moves, to an operation that is no release.
LEMMA NotReleasing ==
  ASSUME ClockInv, NoReleases, NEW p \in Proc, NEW r, r.op # "release",
         tx' = [tx EXCEPT ![p] = r]
  PROVE  NoReleases'
BY DEF ClockInv, RowsTyped, NoReleases

\* A request goes on to no release.
LEMMA GoesOnToNoRelease ==
  ASSUME ClockInv, NEW p \in Proc
  PROVE  After(tx[p]).op # "release"
<1>1. NextOp(tx[p]) # "release"
  BY DEF NextOp
<1>2. tx[p] \in Tx
  BY LotTypes
<1>3. CASE NextOp(tx[p]) = "none"
  BY <1>3 DEF After, Idle
<1>4. CASE NextOp(tx[p]) # "none"
  <2>1. After(tx[p]).op = NextOp(tx[p])
    BY <1>2, <1>4 DEF After, Tx
  <2>2. QED
    BY <1>1, <2>1
<1>5. QED
  BY <1>3, <1>4

\* Where no call is a release, no arriving request is one.
LEMMA NoReleaseArrives ==
  ASSUME ClockInv, "release" \notin Calls, NoReleases, NEW p \in Proc, Arrives(p)
  PROVE  NoReleases'
<1>1. ASSUME NEW r, r.op # "release", Begins(p, r) PROVE NoReleases'
  BY <1>1, NotReleasing DEF Begins
<1>2. \A call, op : Request(call, op).op = op /\ Request(call, op).call = call
  BY DEF Request, Idle
<1>3. CASE BidCall(p)
  BY <1>1, <1>3 DEF BidCall, Request, Idle
<1>4. CASE NominateCall(p)
  BY <1>1, <1>4 DEF NominateCall, Request, Idle
<1>5. CASE PollCall(p) \/ AdminCall(p)
  BY <1>1, <1>2, <1>5 DEF PollCall, AdminCall, AdminCalls
<1>6. CASE UndoCall(p)
  BY <1>1, <1>6 DEF UndoCall, Request, Idle
<1>7. CASE MemberCall(p)
  <2> DEFINE asked(u) == [Request("release", "release") EXCEPT
                            !.user = u, !.team = teamOf[u], !.lot = soldAs[u]]
  <2>1. PICK u \in User :
          \/ Begins(p, [Request("withdraw", "withdraw") EXCEPT !.user = u])
          \/ Begins(p, [Request("reinstate", "reinstate") EXCEPT !.user = u])
          \/ \E t \in Team : Begins(p, [Request("sign", "sign") EXCEPT !.user = u, !.team = t])
          \/ Begins(p, asked(u))
          \/ Begins(p, [Request("transfer", "transfer") EXCEPT
                          !.user = u, !.team = teamOf[u], !.by = captain[teamOf[u]]])
    BY <1>7, Zenon DEF MemberCall
  <2>2. asked(u).call = "release"
    BY DEF Request, Idle
  <2> HIDE DEF asked
  <2>3. ~Begins(p, asked(u))
    BY <2>2 DEF Begins
  <2>4. CASE \/ Begins(p, [Request("withdraw", "withdraw") EXCEPT !.user = u])
             \/ Begins(p, [Request("reinstate", "reinstate") EXCEPT !.user = u])
    BY <1>1, <2>4 DEF Request, Idle
  <2>5. CASE \E t \in Team : Begins(p, [Request("sign", "sign") EXCEPT !.user = u, !.team = t])
    BY <1>1, <2>5 DEF Request, Idle
  <2>6. CASE Begins(p, [Request("transfer", "transfer") EXCEPT
                          !.user = u, !.team = teamOf[u], !.by = captain[teamOf[u]]])
    <3> DEFINE r == [Request("transfer", "transfer") EXCEPT
                       !.user = u, !.team = teamOf[u], !.by = captain[teamOf[u]]]
    <3>1. r.op = "transfer" /\ Begins(p, r)
      BY <2>6 DEF Request, Idle
    <3> HIDE DEF r
    <3>2. QED
      BY <1>1, <3>1
  <2>7. QED
    BY <2>1, <2>3, <2>4, <2>5, <2>6, Zenon
<1>8. QED
  BY <1>3, <1>4, <1>5, <1>6, <1>7 DEF Arrives

\* A transaction decides within its operation.
LEMMA NoReleaseReads ==
  ASSUME ClockInv, NoReleases, NEW p \in Proc, ReadsRows(p)
  PROVE  NoReleases'
<1> DEFINE me == tx[p]
<1>1. me \in Tx /\ me.op # "release"
  BY LotTypes DEF NoReleases
<1>2. ASSUME NEW op, NEW ok, NEW t, Decided(t).op = me.op, Reads(p, op, ok, t)
      PROVE  NoReleases'
  <2>1. CASE ok
    <3>1. tx' = [tx EXCEPT ![p] = Decided(t)]
      BY <1>2, <2>1 DEF Reads, Decided
    <3>2. QED
      BY <1>1, <1>2, <3>1, NotReleasing
  <2>2. CASE ~ok
    <3>1. tx' = [tx EXCEPT ![p] = After(tx[p])]
      BY <1>2, <2>2 DEF Reads
    <3>2. QED
      BY <3>1, NotReleasing, GoesOnToNoRelease
  <2>3. QED
    BY <2>1, <2>2
<1>3. Decided(me).op = me.op
  BY <1>1 DEF Decided, Tx
<1>4. CASE BidRead(p) \/ NominateRead(p)
  <2> DEFINE bidder == TeamCaptainedBy(me.by)
             turn == draft.nominatorTeam
             asks(t) == [me EXCEPT !.team = t, !.view = NoRow, !.clock = ClockOf(me.amount, t)]
  <2>1. \A t : Decided(asks(t)).op = me.op
    BY <1>1 DEF Decided, Tx
  <2>2. \E op, ok, t : Reads(p, op, ok, asks(t))
    <3>1. CASE BidRead(p)
      <4>1. \E op, ok : Reads(p, op, ok, asks(bidder))
        BY <3>1, Zenon DEF BidRead
      <4>2. QED
        BY <4>1, Zenon
    <3>2. CASE NominateRead(p)
      <4>1. \E op, ok : Reads(p, op, ok, asks(turn))
        BY <3>2, Zenon DEF NominateRead
      <4>2. QED
        BY <4>1, Zenon
    <3>3. QED
      BY <1>4, <3>1, <3>2, Zenon
  <2> HIDE DEF asks
  <2>3. QED
    BY <1>2, <2>1, <2>2
<1>5. CASE StalledRead(p)
  <2> DEFINE c == draft.nominatorTeam
             next == NextNominator(budget, Count(teamOf), c)
             advance == [me EXCEPT !.plan = "advance", !.team = next]
             complete == [me EXCEPT !.plan = "complete"]
             open(u) == [me EXCEPT !.plan = "open", !.user = u, !.team = c,
                                   !.clock = ClockOf(MinBid, c)]
  <2>1. /\ Decided(advance).op = me.op /\ Decided(complete).op = me.op
        /\ \A u : Decided(open(u)).op = me.op
    BY <1>1 DEF Decided, Tx
  <2>2. \/ Reads(p, "stalled", TRUE, advance) \/ Reads(p, "stalled", TRUE, complete)
        \/ \E u : Reads(p, "stalled", TRUE, open(u)) \/ Reads(p, "stalled", FALSE, me)
    BY <1>5, Zenon DEF StalledRead
  <2> HIDE DEF advance, complete, open
  <2>3. QED
    BY <1>2, <1>3, <2>1, <2>2
<1>6. CASE ResumeRead(p) \/ PhaseRead(p)
  <2>1. \A x : /\ Decided([me EXCEPT !.clock = x]).op = me.op
               /\ Decided([me EXCEPT !.plan = x]).op = me.op
    BY <1>1 DEF Decided, Tx
  <2>2. QED
    BY <1>2, <1>6, <2>1 DEF ResumeRead, PhaseRead
<1>7. CASE \/ SettleRead(p) \/ PauseRead(p) \/ VoidRead(p) \/ UndoRead(p) \/ AbortRead(p)
           \/ StartRead(p) \/ ArchiveRead(p) \/ ReactivateRead(p) \/ WithdrawRead(p)
           \/ ReinstateRead(p) \/ SignRead(p) \/ ReleaseRead(p) \/ TransferRead(p)
  BY <1>2, <1>3, <1>7
  DEF SettleRead, PauseRead, VoidRead, UndoRead, AbortRead, StartRead, ArchiveRead,
      ReactivateRead, WithdrawRead, ReinstateRead, SignRead, ReleaseRead, TransferRead
<1>8. QED
  BY <1>4, <1>5, <1>6, <1>7 DEF ReadsRows

\* Where no call is a release, no request ever is one.
LEMMA StaysReleaseless ==
  ASSUME "release" \notin Calls
  PROVE  ClockInv /\ NoReleases /\ [Next]_vars => NoReleases'
<1> SUFFICES ASSUME ClockInv, NoReleases, [Next]_vars PROVE NoReleases'
  OBVIOUS
<1>1. CASE Expire \/ UNCHANGED vars
  BY <1>1 DEF Expire, vars, NoReleases
<1>2. CASE \E p \in Proc : Arrives(p) \/ ReadsRows(p)
  BY <1>2, NoReleaseArrives, NoReleaseReads
<1>3. ASSUME NEW p \in Proc, Writes(p) PROVE NoReleases'
  <2>1. CASE Refused(p)
    BY <2>1, NotReleasing, GoesOnToNoRelease DEF Refused
  <2>2. CASE ~Refused(p)
    <3>1. PICK op : Landed(p, op)
      BY <1>3, <2>2
      DEF Writes, BidLand, NominateLand, StalledOpens, StalledAdvances, StalledCompletes,
          SettleSells, SettleVoids, PauseLand, ResumeLand, VoidLand, UndoLand, AbortLand,
          StartLand, PhaseLand, ArchiveLand, ReactivateLand, WithdrawLand, ReinstateLand,
          SignLand, ReleaseLand, TransferLand, Lands, Landed
    <3>2. ASSUME NEW q \in Proc PROVE tx'[q].op # "release"
      <4>1. tx[q] \in Tx /\ tx[q].op # "release" /\ After(tx[p]).op # "release"
        BY LotTypes, GoesOnToNoRelease DEF NoReleases
      <4>2. tx'[q] = IF q = p THEN After(tx[p]) ELSE Spoils(op, tx[q])
        BY <3>1 DEF Landed
      <4>3. Spoils(op, tx[q]).op = tx[q].op
        BY <4>1 DEF Spoils, Tx
      <4>4. QED
        BY <4>1, <4>2, <4>3
    <3>3. QED
      BY <3>2 DEF NoReleases
  <2>3. QED
    BY <2>1, <2>2
<1>4. QED
  BY <1>1, <1>2, <1>3 DEF Next

\* There are no Bid rows and no history before Start.
LEMMA InitTrail == Init => TrailInv /\ NoReleases
BY DEF Init, Idle, NoRow, TrailInv, ReceiptTellsTheSale, NoReleases

\* The receipts' invariant is inductive, given the others, where no player is released.
LEMMA StepTrailInv ==
  ClockInv /\ ClockInv' /\ LotInv /\ NoReleases /\ TrailInv /\ [Next]_vars => TrailInv'
<1> SUFFICES ASSUME ClockInv, ClockInv', LotInv, NoReleases, TrailInv, [Next]_vars
             PROVE  TrailInv'
  OBVIOUS
<1>1. CASE \E p \in Proc : Writes(p)
  <2>1. PICK p \in Proc : Writes(p)
    BY <1>1
  <2>2. ~ReleaseLand(p)
    BY DEF ReleaseLand, Lands, NoReleases
  <2>3. QED
    BY <2>1, <2>2, TrailCommits
<1>2. CASE ~\E p \in Proc : Writes(p)
  <2>1. UNCHANGED <<lots, bids, draft, teamOf>>
    <3>1. CASE Expire \/ UNCHANGED vars
      BY <3>1 DEF Expire, ledger, vars, db
    <3>2. CASE \E p \in Proc : Arrives(p) \/ ReadsRows(p)
      BY <3>2, OnlyWritesMove DEF db
    <3>3. QED
      BY <1>2, <3>1, <3>2 DEF Next
  <2>2. QED
    BY <2>1, TrailStands
<1>3. QED
  BY <1>1, <1>2

\* For any number of teams, players, requests and bids, where no player is
\* released: every Bid row is of the lot on the block or of a rostered player.
THEOREM TrailInvariant ==
  ASSUME "release" \notin Calls PROVE Spec => [](NoReleases /\ TrailInv)
<1>1. Init => TrailInv /\ NoReleases
  BY InitTrail
<1>2. ClockInv /\ NoReleases /\ [Next]_vars => NoReleases'
  BY StaysReleaseless
<1>3. ClockInv /\ ClockInv' /\ LotInv /\ NoReleases /\ TrailInv /\ [Next]_vars => TrailInv'
  BY StepTrailInv
<1>4. QED
  BY <1>1, <1>2, <1>3, ClockInvariant, LotInvariant, PTL DEF Spec

\* Where no player is released, the trail the room shows is that of the lot on the
\* block alone (draft-service.ts:890-893).
THEOREM TrailStaysCurrent ==
  ASSUME "release" \notin Calls PROVE Spec => []TrailIsCurrentLot
<1>1. ClockInv /\ LotInv /\ TrailInv => TrailIsCurrentLot
  <2> SUFFICES ASSUME ClockInv, LotInv, TrailInv, draft.nominatedUser # None,
                      NEW b \in Trail(draft.nominatedUser)
               PROVE  b.lot = draft.currentLot
    BY DEF TrailIsCurrentLot
  <2>1. teamOf[draft.nominatedUser] = None
    BY BlockFacts
  <2>2. QED
    BY <2>1 DEF Trail, TrailInv
<1>2. QED
  BY <1>1, ClockInvariant, LotInvariant, TrailInvariant, PTL

\* Where no player is released, every state of the auction is sound: one open lot at
\* a price its bidder can pay, under its clock, and receipts that tell each sale
\* (draft-service.ts:58-74, 164-190).
THEOREM LotStaysSound ==
  ASSUME "release" \notin Calls PROVE Spec => []LotIsSound
<1>1. TrailInv => ReceiptTellsTheSale
  BY DEF TrailInv
<1>2. QED
  BY <1>1, LotStaysPayable, TrailInvariant, PTL DEF LotIsSound

=============================================================================
