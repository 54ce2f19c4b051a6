----------------------------- MODULE DraftProofs -----------------------------
(***************************************************************************)
(* The auction's clocks, its season and its money, for any number of       *)
(* teams, players, requests and bids.                                      *)
(*                                                                         *)
(* ClockInv is inductive: the rows have their types, an open request names *)
(* what its operation needs, and a Draft row whose version a transaction   *)
(* still sees is the very row it read.  The last part is why Resume may    *)
(* decide on one row and write another.  PhaseInv says why no transaction  *)
(* acts on a season that is no longer what it read, and MoneyInv what      *)
(* keeps the money of every team and its roster together.                  *)
(***************************************************************************)
EXTENDS DraftProperties, SumProofs, SequenceTheorems

-----------------------------------------------------------------------------
(* Helpers *)

\* null is no player, team or timestamp.
LEMMA NoneApart == None \notin User /\ None \notin Team /\ None \notin Stamp
BY UserAssumption

\* The row abort and start begin from is a Draft row.
LEMMA NoRowTyped == NoRow \in DraftRow
BY DEF NoRow, DraftRow, Status, Orl

\* A process at rest is a request too.
LEMMA IdleTyped == Idle \in Tx /\ Honest(Idle)
<1>1. Idle \in Tx
  BY NoRowTyped DEF Idle, Tx, Ops, Plans, Orl
<1>2. Honest(Idle)
  BY DEF Idle, Honest
<1>3. QED
  BY <1>1, <1>2

\* A bid gets one of the two clocks.
LEMMA ClockOfTyped ==
  ASSUME NEW a, NEW t PROVE ClockOf(a, t) \in {"none", "full", "short"}
BY DEF ClockOf, BidClock

\* A request between two of its transactions.
LEMMA MovesOn ==
  ASSUME NEW t \in Tx, NEW o \in Ops, NEW u \in Orl(User), NEW m \in Orl(Team)
  PROVE  [t EXCEPT !.op = o, !.pc = "begin", !.snap = NoRow, !.plan = "none",
                   !.clock = "none", !.stale = FALSE, !.user = u, !.team = m] \in Tx
<1>1. o \in Ops \cup {"none"} /\ "begin" \in {"idle", "begin", "claim"}
      /\ "none" \in Plans /\ "none" \in {"none", "full", "short"} /\ FALSE \in BOOLEAN
  BY DEF Plans
<1>2. QED
  BY <1>1, NoRowTyped, Zenon DEF Tx

\* What a request becomes when one of its transactions ends.
LEMMA AfterTyped ==
  ASSUME NEW t \in Tx, Honest(t), t.pc # "idle"
  PROVE  After(t) \in Tx /\ Honest(After(t)) /\ After(t).pc # "claim"
<1>1. CASE NextOp(t) = "none"
  BY <1>1, IdleTyped DEF After, Idle
<1>2. CASE NextOp(t) # "none"
  <2> DEFINE u == IF t.op = "stalled" THEN None ELSE t.user
             m == IF t.op = "stalled" THEN None ELSE t.team
             r == [t EXCEPT !.op = NextOp(t), !.pc = "begin", !.snap = NoRow,
                            !.plan = "none", !.clock = "none", !.stale = FALSE,
                            !.user = u, !.team = m]
  <2>1. After(t) = r
    BY <1>2 DEF After
  <2>2. NextOp(t) \in {"stalled", "bid", "nominate", "pause"}
    BY <1>2 DEF NextOp
  <2>3. u \in Orl(User) /\ m \in Orl(Team) /\ NextOp(t) \in Ops
    BY <2>2 DEF Tx, Orl, Ops
  <2>4. r \in Tx
    <3> HIDE DEF u, m
    <3>1. QED
      BY <2>3, MovesOn
  <2>5. r.pc = "begin" /\ r.op = NextOp(t) /\ r.call = t.call /\ r.user = u
    BY DEF Tx
  <2> HIDE DEF r
  <2>6. r.op \in NamesAUser \/ r.call = "nominate" => r.user \in User
    BY <1>2, <2>5 DEF NextOp, NamesAUser, NamesATeam, Honest
  <2>7. QED
    BY <2>1, <2>2, <2>4, <2>5, <2>6 DEF Honest, NamesATeam
<1>3. QED
  BY <1>1, <1>2

\* A finite nonempty set has a member at which a measure is least.
LEMMA LeastExists ==
  ASSUME NEW U, IsFiniteSet(U), NEW f \in [U -> Int], NEW S \in SUBSET U, S # {}
  PROVE  \E m \in S : \A i \in S : f[m] <= f[i]
<1> DEFINE Below(k) == {j \in U : f[j] <= f[k]}
           T == {Below(k) : k \in S}
           R == StrictSubsetOrdering(U)
<1>1. IsWellFoundedOn(R, SUBSET U)
  BY FS_StrictSubsetOrderingWellFounded, FS_FiniteSubsetsOfFinite
<1>2. T \subseteq SUBSET U /\ T # {}
  OBVIOUS
<1>3. PICK x \in T : \A y \in T : ~ (<<y, x>> \in R)
  <2> HIDE DEF T, R
  <2>1. QED
    BY <1>1, <1>2, WFMin
<1>4. PICK m \in S : x = Below(m)
  BY <1>3
<1>5. ASSUME NEW i \in S PROVE f[m] <= f[i]
  <2>1. SUFFICES ASSUME f[i] < f[m] PROVE FALSE
    BY <1>4
  <2>2. m \in Below(m) /\ m \notin Below(i)
    BY <2>1, <1>4
  <2>3. Below(i) \subseteq Below(m) /\ Below(i) # Below(m)
    BY <2>1, <2>2
  <2>4. <<Below(i), Below(m)>> \in R
    BY <2>3 DEF StrictSubsetOrdering
  <2>5. QED
    BY <2>4, <1>3, <1>4
<1>6. QED
  BY <1>4, <1>5

\* The rotation only ever names a team of the season.
LEMMA NextNominatorTyped ==
  ASSUME NEW money, NEW count, NEW last \in Team, SomeoneCanNominate(money, count, last)
  PROVE  NextNominator(money, count, last) \in Team
<1> DEFINE able == AbleSteps(money, count, last)
           k == CHOOSE j \in able : \A i \in able : j <= i
<1>1. N \in Nat \ {0}
  BY TeamAssumption, FS_CardinalityType, FS_EmptySet DEF N
<1>2. able \in SUBSET (1 .. N) /\ able # {}
  BY DEF AbleSteps, SomeoneCanNominate
<1>3. k \in 1 .. N
  <2>1. [i \in 1 .. N |-> i] \in [1 .. N -> Int] /\ IsFiniteSet(1 .. N)
    BY <1>1, FS_Interval
  <2>2. \E m \in able : \A i \in able : m <= i
    <3> HIDE DEF able
    <3>1. \E m \in able : \A i \in able : [j \in 1 .. N |-> j][m] <= [j \in 1 .. N |-> j][i]
      BY <1>2, <2>1, LeastExists
    <3>2. QED
      BY <3>1, <1>2
  <2> HIDE DEF able
  <2>3. QED
    BY <1>2, <2>2
<1>4. Place(last) \in 0 .. N - 1
  BY OrderAssumption DEF Place
<1>5. (Place(last) + k) % N \in 0 .. N - 1
  BY <1>1, <1>3, <1>4
<1>6. Order[(Place(last) + k) % N] \in Team
  BY <1>5, OrderAssumption
<1>7. QED
  BY <1>6 DEF NextNominator

\* There is a newest purchase as soon as there is one.
LEMMA NewestTyped ==
  ASSUME RowsTyped, Purchases # {}
  PROVE  /\ NewestPurchase \in Purchases
         /\ \A u \in Purchases : soldAs[u] <= soldAs[NewestPurchase]
<1> DEFINE f == [u \in User |-> -soldAs[u]]
<1>1. f \in [User -> Int] /\ Purchases \in SUBSET User
  BY DEF RowsTyped, Purchases
<1>2. \E m \in Purchases : \A i \in Purchases : f[m] <= f[i]
  <2> HIDE DEF f
  <2>1. QED
    BY <1>1, UserAssumption, LeastExists
<1>3. PICK m \in Purchases : \A i \in Purchases : f[m] <= f[i]
  BY <1>2
<1>4. \A i \in Purchases : i \in User /\ soldAs[i] \in Nat /\ f[i] = -soldAs[i]
  BY <1>1 DEF RowsTyped
<1>5. \A i \in Purchases : soldAs[i] <= soldAs[m]
  <2> HIDE DEF f
  <2>1. QED
    BY <1>3, <1>4
<1>6. QED
  BY <1>5 DEF NewestPurchase

\* A step that touches one request and no row.
LEMMA RequestStep ==
  ASSUME ClockInv, NEW p \in Proc, NEW r \in Tx, Honest(r),
         r.pc = "claim" => r.snap = draft,
         tx' = [tx EXCEPT ![p] = r], UNCHANGED db
  PROVE  ClockInv'
<1>1. tx' \in [Proc -> Tx]
  BY DEF ClockInv, RowsTyped
<1>2. \A q \in Proc : tx'[q] = IF q = p THEN r ELSE tx[q]
  BY DEF ClockInv, RowsTyped
<1>3. RowsTyped'
  BY <1>1 DEF ClockInv, RowsTyped, db
<1>4. RequestsHonest'
  <2> SUFFICES ASSUME NEW q \in Proc PROVE Honest(tx'[q])
    BY DEF RequestsHonest, Honest
  <2> QED
    BY <1>2 DEF ClockInv, RequestsHonest
<1>5. VersionNamesRow'
  BY <1>2 DEF ClockInv, VersionNamesRow, db
<1>6. ClockDiscipline'
  BY DEF ClockInv, ClockDiscipline, db
<1>7. SomeonesTurn'
  BY DEF ClockInv, SomeonesTurn, db
<1>8. QED
  BY <1>3, <1>4, <1>5, <1>6, <1>7 DEF ClockInv

\* A transaction that is refused goes on to the request's next one.
LEMMA RefusedRequest ==
  ASSUME ClockInv, NEW p \in Proc, tx[p].pc # "idle",
         tx' = [tx EXCEPT ![p] = After(tx[p])], UNCHANGED db
  PROVE  ClockInv'
<1>1. tx[p] \in Tx /\ Honest(tx[p])
  BY DEF ClockInv, RowsTyped, RequestsHonest
<1>2. QED
  BY <1>1, AfterTyped, RequestStep

Decided(t) == [t EXCEPT !.pc = "claim", !.snap = draft]

\* One that has decided goes on to its claim, with the row it read.
LEMMA DecidedRequest ==
  ASSUME ClockInv, NEW p \in Proc, NEW t \in Tx, Honest(Decided(t)),
         tx' = [tx EXCEPT ![p] = Decided(t)], UNCHANGED db
  PROVE  ClockInv'
<1>1. "claim" \in {"idle", "begin", "claim"} /\ draft \in DraftRow
  BY DEF ClockInv, RowsTyped
<1>2. Decided(t) \in Tx
  BY <1>1, Zenon DEF Decided, Tx
<1>3. Decided(t).snap = draft
  BY DEF Decided, Tx
<1>4. QED
  BY <1>2, <1>3, RequestStep


-----------------------------------------------------------------------------
(* Requests arrive *)

\* The blank request of a call.
LEMMA RequestTyped ==
  ASSUME NEW call \in Ops \cup {"poll", "none"}, NEW op \in Ops
  PROVE  /\ Request(call, op) \in Tx
         /\ Request(call, op).call = call /\ Request(call, op).op = op
         /\ Request(call, op).pc = "begin"
<1>1. "begin" \in {"idle", "begin", "claim"} /\ op \in Ops \cup {"none"}
  OBVIOUS
<1>2. Request(call, op) \in Tx
  BY <1>1, IdleTyped, Zenon DEF Request, Tx
<1>3. QED
  BY <1>2 DEF Request, Idle

\* A new request names what its operation needs.
LEMMA Arrival ==
  ASSUME ClockInv, NEW p \in Proc, Arrives(p)
  PROVE  ClockInv'
<1> USE DEF ClockInv
<1>1. SUFFICES \E r \in Tx : Honest(r) /\ r.pc # "claim" /\ UNCHANGED db
                               /\ tx' = [tx EXCEPT ![p] = r]
  BY RequestStep
<1>2. /\ draft \in DraftRow
      /\ \A t \in Team : captain[t] \in User
      /\ \A u \in User : u \in Orl(User) /\ u \in Orl(User \cup Admins)
                         /\ soldAs[u] \in Nat /\ teamOf[u] \in Orl(Team)
      /\ \A u \in Admins : u \in Orl(User \cup Admins)
      /\ \A t \in Team : t \in Orl(Team)
      /\ Amount \subseteq Nat
  BY DataAssumption DEF Orl, RowsTyped
<1>3. CASE BidCall(p)
  <2>1. PICK t \in Team, a \in Amount :
          Begins(p, [Request("bid", "settle") EXCEPT !.by = captain[t], !.amount = a,
                                                     !.view = draft])
    BY <1>3 DEF BidCall
  <2> DEFINE q == Request("bid", "settle")
             r == [q EXCEPT !.by = captain[t], !.amount = a, !.view = draft]
  <2>2. q \in Tx /\ q.call = "bid" /\ q.op = "settle" /\ q.pc = "begin"
    BY RequestTyped DEF Ops
  <2> HIDE DEF q
  <2>3. r \in Tx
    BY <1>2, <2>1, <2>2, Zenon DEF Tx
  <2>4. Honest(r) /\ r.pc # "claim"
    BY <2>2 DEF Tx, Honest, NamesAUser, NamesATeam
  <2>5. QED
    BY <2>1, <2>3, <2>4 DEF Begins, q
<1>4. CASE NominateCall(p)
  <2>1. PICK u \in User, a \in Amount, by \in {captain[t] : t \in Team} \cup Admins :
          Begins(p, [Request("nominate", "settle") EXCEPT !.by = by, !.user = u,
                                                          !.amount = a, !.view = draft])
    BY <1>4 DEF NominateCall
  <2>6. by \in Orl(User \cup Admins)
    BY <1>2
  <2> DEFINE q == Request("nominate", "settle")
             r == [q EXCEPT !.by = by, !.user = u, !.amount = a, !.view = draft]
  <2>2. q \in Tx /\ q.call = "nominate" /\ q.op = "settle" /\ q.pc = "begin"
    BY RequestTyped DEF Ops
  <2> HIDE DEF q
  <2>3. r \in Tx
    BY <1>2, <2>1, <2>2, <2>6, Zenon DEF Tx
  <2>4. Honest(r) /\ r.pc # "claim"
    BY <2>2, <2>6 DEF Tx, Honest, NamesAUser, NamesATeam
  <2>5. QED
    BY <2>1, <2>3, <2>4 DEF Begins, q
<1>5. CASE PollCall(p)
  <2> DEFINE q == Request("poll", "settle")
  <2>1. q \in Tx /\ q.call = "poll" /\ q.op = "settle" /\ q.pc = "begin"
    BY RequestTyped DEF Ops
  <2>2. Honest(q)
    BY <2>1 DEF Honest, NamesAUser, NamesATeam
  <2>3. QED
    BY <1>5, <2>1, <2>2 DEF Begins, PollCall
<1>6. CASE Begins(p, Request("pause", "settle"))
  <2> DEFINE q == Request("pause", "settle")
  <2>1. q \in Tx /\ q.call = "pause" /\ q.op = "settle" /\ q.pc = "begin"
    BY RequestTyped DEF Ops
  <2>2. Honest(q)
    BY <2>1 DEF Honest, NamesAUser, NamesATeam
  <2>3. QED
    BY <1>6, <2>1, <2>2 DEF Begins
<1>7. CASE \E op \in AdminCalls : Begins(p, Request(op, op))
  <2>1. PICK op \in AdminCalls : Begins(p, Request(op, op))
    BY <1>7
  <2> DEFINE q == Request(op, op)
  <2>2. q \in Tx /\ q.call = op /\ q.op = op /\ q.pc = "begin"
    BY RequestTyped DEF Ops, AdminCalls
  <2>3. Honest(q)
    BY <2>2 DEF Honest, NamesAUser, NamesATeam, AdminCalls
  <2>4. QED
    BY <2>1, <2>2, <2>3 DEF Begins
<1>8. CASE UndoCall(p)
  <2>1. Begins(p, [Request("undo", "undo") EXCEPT !.user = NewestPurchase,
                                                  !.lot = soldAs[NewestPurchase]])
    BY <1>8 DEF UndoCall
  <2>6. NewestPurchase \in User /\ soldAs[NewestPurchase] \in Nat
    BY <1>2, <1>8, NewestTyped DEF UndoCall, Purchases
  <2> DEFINE q == Request("undo", "undo")
             r == [q EXCEPT !.user = NewestPurchase, !.lot = soldAs[NewestPurchase]]
  <2>2. q \in Tx /\ q.call = "undo" /\ q.op = "undo" /\ q.pc = "begin"
    BY RequestTyped DEF Ops
  <2> HIDE DEF q
  <2>3. r \in Tx
    BY <1>2, <2>1, <2>2, <2>6, Zenon DEF Tx
  <2>4. Honest(r) /\ r.pc # "claim"
    BY <2>2, <2>6 DEF Tx, Honest, NamesAUser, NamesATeam
  <2>5. QED
    BY <2>1, <2>3, <2>4 DEF Begins, q
<1>9. CASE MemberCall(p)
  <2>1. PICK u \in User :
    \/ Begins(p, [Request("withdraw", "withdraw") EXCEPT !.user = u])
    \/ Begins(p, [Request("reinstate", "reinstate") EXCEPT !.user = u])
    \/ \E t \in Team : Begins(p, [Request("sign", "sign") EXCEPT !.user = u, !.team = t])
    \/ teamOf[u] # None
       /\ Begins(p, [Request("release", "release") EXCEPT
                        !.user = u, !.team = teamOf[u], !.lot = soldAs[u]])
    \/ teamOf[u] # None
       /\ Begins(p, [Request("transfer", "transfer") EXCEPT
                        !.user = u, !.team = teamOf[u], !.by = captain[teamOf[u]]])
    BY <1>9 DEF MemberCall
  <2>2. CASE Begins(p, [Request("withdraw", "withdraw") EXCEPT !.user = u])
    <3> DEFINE q == Request("withdraw", "withdraw")
               r == [q EXCEPT !.user = u]
    <3>2. q \in Tx /\ q.call = "withdraw" /\ q.op = "withdraw" /\ q.pc = "begin"
      BY RequestTyped DEF Ops
    <3> HIDE DEF q
    <3>3. r \in Tx
      BY <1>2, <2>2, <3>2, Zenon DEF Tx
    <3>4. Honest(r) /\ r.pc # "claim"
      BY <3>2 DEF Tx, Honest, NamesAUser, NamesATeam
    <3>5. QED
      BY <2>2, <3>3, <3>4 DEF Begins, q
  <2>3. CASE Begins(p, [Request("reinstate", "reinstate") EXCEPT !.user = u])
    <3> DEFINE q == Request("reinstate", "reinstate")
               r == [q EXCEPT !.user = u]
    <3>2. q \in Tx /\ q.call = "reinstate" /\ q.op = "reinstate" /\ q.pc = "begin"
      BY RequestTyped DEF Ops
    <3> HIDE DEF q
    <3>3. r \in Tx
      BY <1>2, <2>3, <3>2, Zenon DEF Tx
    <3>4. Honest(r) /\ r.pc # "claim"
      BY <3>2 DEF Tx, Honest, NamesAUser, NamesATeam
    <3>5. QED
      BY <2>3, <3>3, <3>4 DEF Begins, q
  <2>4. CASE \E t \in Team : Begins(p, [Request("sign", "sign") EXCEPT !.user = u, !.team = t])
    <3>1. PICK t \in Team :
            Begins(p, [Request("sign", "sign") EXCEPT !.user = u, !.team = t])
      BY <2>4
    <3> DEFINE q == Request("sign", "sign")
               r == [q EXCEPT !.user = u, !.team = t]
    <3>2. q \in Tx /\ q.call = "sign" /\ q.op = "sign" /\ q.pc = "begin"
      BY RequestTyped DEF Ops
    <3> HIDE DEF q
    <3>3. r \in Tx
      BY <1>2, <3>1, <3>2, Zenon DEF Tx
    <3>4. Honest(r) /\ r.pc # "claim"
      BY <3>2 DEF Tx, Honest, NamesAUser, NamesATeam
    <3>5. QED
      BY <3>1, <3>3, <3>4 DEF Begins, q
  <2>5. CASE teamOf[u] # None /\ Begins(p, [Request("release", "release") EXCEPT !.user = u, !.team = teamOf[u], !.lot = soldAs[u]])
    <3>6. teamOf[u] \in Team
      BY <1>2, <2>5 DEF Orl
    <3> DEFINE q == Request("release", "release")
               r == [q EXCEPT !.user = u, !.team = teamOf[u], !.lot = soldAs[u]]
    <3>2. q \in Tx /\ q.call = "release" /\ q.op = "release" /\ q.pc = "begin"
      BY RequestTyped DEF Ops
    <3> HIDE DEF q
    <3>3. r \in Tx
      BY <1>2, <2>5, <3>2, Zenon DEF Tx
    <3>4. Honest(r) /\ r.pc # "claim"
      BY <3>2, <3>6 DEF Tx, Honest, NamesAUser, NamesATeam
    <3>5. QED
      BY <2>5, <3>3, <3>4 DEF Begins, q
  <2>6. CASE teamOf[u] # None /\ Begins(p, [Request("transfer", "transfer") EXCEPT !.user = u, !.team = teamOf[u], !.by = captain[teamOf[u]]])
    <3>6. teamOf[u] \in Team /\ captain[teamOf[u]] \in User
           /\ captain[teamOf[u]] \in Orl(User \cup Admins)
      BY <1>2, <2>6 DEF Orl
    <3> DEFINE q == Request("transfer", "transfer")
               r == [q EXCEPT !.user = u, !.team = teamOf[u], !.by = captain[teamOf[u]]]
    <3>2. q \in Tx /\ q.call = "transfer" /\ q.op = "transfer" /\ q.pc = "begin"
      BY RequestTyped DEF Ops
    <3> HIDE DEF q
    <3>3. r \in Tx
      BY <1>2, <2>6, <3>2, <3>6, Zenon DEF Tx
    <3>4. Honest(r) /\ r.pc # "claim"
      BY <3>2, <3>6 DEF Tx, Honest, NamesAUser, NamesATeam
    <3>5. QED
      BY <2>6, <3>3, <3>4 DEF Begins, q
  <2>7. QED
    BY <2>1, <2>2, <2>3, <2>4, <2>5, <2>6
<1>10. QED
  BY <1>3, <1>4, <1>5, <1>6, <1>7, <1>8, <1>9 DEF Arrives, AdminCall

-----------------------------------------------------------------------------
(* Transactions read *)

\* A transaction that only checks the rows decides nothing a claim relies on.
LEMMA PlainRead ==
  ASSUME ClockInv, NEW p \in Proc, tx[p].pc = "begin",
         tx[p].op \notin {"bid", "settle", "nominate", "stalled", "phase"},
         UNCHANGED db,
         \/ tx' = [tx EXCEPT ![p] = Decided(tx[p])]
         \/ tx' = [tx EXCEPT ![p] = After(tx[p])]
  PROVE  ClockInv'
<1>1. tx[p] \in Tx /\ Honest(tx[p])
  BY DEF ClockInv, RowsTyped, RequestsHonest
<1>2. Honest(Decided(tx[p]))
  BY <1>1 DEF Honest, Decided, Tx
<1>3. QED
  BY <1>1, <1>2, DecidedRequest, RefusedRequest

\* Every first half keeps the invariant: it decides only what it may claim.
LEMMA Reading ==
  ASSUME ClockInv, NEW p \in Proc, ReadsRows(p)
  PROVE  ClockInv'
<1> DEFINE me == tx[p]
<1>1. me \in Tx /\ Honest(me) /\ draft \in DraftRow
  BY DEF ClockInv, RowsTyped, RequestsHonest
<1>2. ASSUME NEW r \in Tx, Honest(Decided(r)), me.pc = "begin", UNCHANGED db,
             \/ tx' = [tx EXCEPT ![p] = Decided(r)]
             \/ tx' = [tx EXCEPT ![p] = After(me)]
      PROVE  ClockInv'
  BY <1>2, DecidedRequest, RefusedRequest
<1>3. CASE PauseRead(p)
  BY <1>3, PlainRead DEF PauseRead, Reads, Decided
<1>4. CASE VoidRead(p)
  BY <1>4, PlainRead DEF VoidRead, Reads, Decided
<1>5. CASE UndoRead(p)
  BY <1>5, PlainRead DEF UndoRead, Reads, Decided
<1>6. CASE AbortRead(p)
  BY <1>6, PlainRead DEF AbortRead, Reads, Decided
<1>7. CASE StartRead(p)
  BY <1>7, PlainRead DEF StartRead, Reads, Decided
<1>8. CASE ArchiveRead(p)
  BY <1>8, PlainRead DEF ArchiveRead, Reads, Decided
<1>9. CASE ReactivateRead(p)
  BY <1>9, PlainRead DEF ReactivateRead, Reads, Decided
<1>10. CASE WithdrawRead(p)
  BY <1>10, PlainRead DEF WithdrawRead, Reads, Decided
<1>11. CASE ReinstateRead(p)
  BY <1>11, PlainRead DEF ReinstateRead, Reads, Decided
<1>12. CASE SignRead(p)
  BY <1>12, PlainRead DEF SignRead, Reads, Decided
<1>13. CASE ReleaseRead(p)
  BY <1>13, PlainRead DEF ReleaseRead, Reads, Decided
<1>14. CASE TransferRead(p)
  BY <1>14, PlainRead DEF TransferRead, Reads, Decided
<1>15. CASE ResumeRead(p)
  <2> DEFINE c == IF draft.nominatedUser = None THEN "none"
                  ELSE ClockOf(draft.currentBid, draft.bidTeam)
             r == [me EXCEPT !.clock = c]
  <2>1. c \in {"none", "full", "short"}
    BY ClockOfTyped
  <2>2. me.pc = "begin" /\ me.op = "resume" /\ UNCHANGED db
        /\ (tx' = [tx EXCEPT ![p] = Decided(r)] \/ tx' = [tx EXCEPT ![p] = After(me)])
    BY <1>15 DEF ResumeRead, Reads, Decided
  <2> HIDE DEF c
  <2>3. r \in Tx
    BY <1>1, <2>1, Zenon DEF Tx
  <2>4. Honest(Decided(r))
    BY <1>1, <2>2 DEF Honest, Decided, Tx
  <2>5. QED
    BY <1>2, <2>2, <2>3, <2>4
<1>16. CASE SettleRead(p)
  <2>1. me.pc = "begin" /\ me.op = "settle" /\ UNCHANGED db
        /\ \/ tx' = [tx EXCEPT ![p] = Decided(me)] /\ draft.nominatedUser # None
           \/ tx' = [tx EXCEPT ![p] = After(me)]
    BY <1>16 DEF SettleRead, Reads, Decided
  <2>2. draft.nominatedUser # None => Honest(Decided(me))
    BY <1>1, <2>1 DEF Honest, Decided, Tx, DraftRow, Orl
  <2>3. QED
    BY <1>1, <2>1, <2>2, DecidedRequest, RefusedRequest
<1>17. CASE PhaseRead(p)
  <2> DEFINE r == [me EXCEPT !.plan = PhaseTarget]
  <2>1. me.pc = "begin" /\ me.op = "phase" /\ UNCHANGED db
        /\ \/ tx' = [tx EXCEPT ![p] = Decided(r)] /\ PhaseTarget # "none"
           \/ tx' = [tx EXCEPT ![p] = After(me)]
    BY <1>17 DEF PhaseRead, Reads, Decided
  <2>2. PhaseTarget # "none" => PhaseTarget \in {"SIGNUPS", "DRAFT", "REGULAR_SEASON"}
    BY DEF PhaseTarget
  <2>3. PhaseTarget # "none" => r \in Tx
    <3>1. PhaseTarget # "none" => PhaseTarget \in Plans
      BY <2>2 DEF Plans
    <3>2. QED
      BY <1>1, <3>1, Zenon DEF Tx
  <2>4. PhaseTarget # "none" => Honest(Decided(r))
    BY <1>1, <2>1, <2>2 DEF Honest, Decided, Tx
  <2>5. QED
    BY <2>1, <2>3, <2>4, DecidedRequest, RefusedRequest
<1>18. CASE BidRead(p)
  <2> DEFINE t == TeamCaptainedBy(me.by)
             c == ClockOf(me.amount, t)
             r == [me EXCEPT !.team = t, !.view = NoRow, !.clock = c]
  <2>1. me.pc = "begin" /\ me.op = "bid" /\ UNCHANGED db
        /\ \/ /\ tx' = [tx EXCEPT ![p] = Decided(r)]
              /\ draft.nominatedUser # None /\ t # None
           \/ tx' = [tx EXCEPT ![p] = After(me)]
    BY <1>18 DEF BidRead, Reads, Decided
  <2>2. t # None => t \in Team /\ t \in Orl(Team)
    BY DEF TeamCaptainedBy, Orl
  <2>3. c \in {"none", "full", "short"}
    BY ClockOfTyped
  <2> HIDE DEF t, c
  <2>4. t # None => r \in Tx
    BY <1>1, <2>2, <2>3, NoRowTyped, Zenon DEF Tx
  <2>5. draft.nominatedUser # None /\ t # None => Honest(Decided(r))
    BY <1>1, <2>1, <2>2 DEF Honest, Decided, Tx, DraftRow, Orl, NamesAUser, NamesATeam
  <2>6. QED
    BY <2>1, <2>4, <2>5, DecidedRequest, RefusedRequest
<1>19. CASE NominateRead(p)
  <2> DEFINE t == draft.nominatorTeam
             c == ClockOf(me.amount, t)
             r == [me EXCEPT !.team = t, !.view = NoRow, !.clock = c]
  <2>1. me.pc = "begin" /\ me.op = "nominate" /\ UNCHANGED db
        /\ \/ tx' = [tx EXCEPT ![p] = Decided(r)] /\ t # None
           \/ tx' = [tx EXCEPT ![p] = After(me)]
    BY <1>19 DEF NominateRead, Reads, Decided
  <2>2. t \in Orl(Team) /\ (t # None => t \in Team)
    BY <1>1 DEF DraftRow, Orl
  <2>3. c \in {"none", "full", "short"}
    BY ClockOfTyped
  <2> HIDE DEF t, c
  <2>4. r \in Tx
    BY <1>1, <2>2, <2>3, NoRowTyped, Zenon DEF Tx
  <2>5. t # None => Honest(Decided(r))
    BY <1>1, <2>1, <2>2 DEF Honest, Decided, Tx, NamesAUser, NamesATeam
  <2>6. QED
    BY <2>1, <2>4, <2>5, DecidedRequest, RefusedRequest
<1>20. CASE StalledRead(p)
  <2> DEFINE t == draft.nominatorTeam
             next == NextNominator(budget, Count(teamOf), t)
             c == ClockOf(MinBid, t)
             advance == [me EXCEPT !.plan = "advance", !.team = next]
             complete == [me EXCEPT !.plan = "complete"]
             open(u) == [me EXCEPT !.plan = "open", !.user = u, !.team = t, !.clock = c]
             runsOut == t # None /\ draft.nominationEndsAt # None
  <2>1. /\ me.pc = "begin" /\ me.op = "stalled" /\ UNCHANGED db
        /\ \/ tx' = [tx EXCEPT ![p] = After(me)]
           \/ /\ runsOut
              /\ \/ /\ SomeoneCanNominate(budget, Count(teamOf), t)
                    /\ tx' = [tx EXCEPT ![p] = Decided(advance)]
                 \/ tx' = [tx EXCEPT ![p] = Decided(complete)]
                 \/ \E u \in User : tx' = [tx EXCEPT ![p] = Decided(open(u))]
    BY <1>20 DEF StalledRead, Reads, Decided, Pool
  <2>2. runsOut => t \in Team /\ t \in Orl(Team)
    BY <1>1 DEF DraftRow, Orl
  <2>3. runsOut /\ SomeoneCanNominate(budget, Count(teamOf), t)
          => next \in Team /\ next \in Orl(Team)
    BY <2>2, NextNominatorTyped DEF Orl
  <2>4. /\ c \in {"none", "full", "short"} /\ {"open", "advance", "complete"} \subseteq Plans
        /\ \A u \in User : u \in Orl(User)
    BY ClockOfTyped DEF Plans, Orl
  <2> HIDE DEF t, next, c
  <2>5. complete \in Tx
    BY <1>1, <2>4, Zenon DEF Tx
  <2>6. next \in Orl(Team) => advance \in Tx
    BY <1>1, <2>4, Zenon DEF Tx
  <2>7. ASSUME NEW u \in User, t \in Orl(Team) PROVE open(u) \in Tx
    BY <1>1, <2>4, <2>7, Zenon DEF Tx
  <2>8. runsOut => Honest(Decided(complete))
    BY <1>1, <2>1 DEF Honest, Decided, Tx, NamesAUser, NamesATeam
  <2>9. runsOut /\ next \in Team => Honest(Decided(advance))
    BY <1>1, <2>1 DEF Honest, Decided, Tx, NamesAUser, NamesATeam
  <2>10. ASSUME NEW u \in User, runsOut PROVE Honest(Decided(open(u)))
    BY <1>1, <2>1, <2>2, <2>10 DEF Honest, Decided, Tx, NamesAUser, NamesATeam
  <2> HIDE DEF open, advance, complete
  <2>11. QED
    BY <2>1, <2>2, <2>3, <2>5, <2>6, <2>7, <2>8, <2>9, <2>10, DecidedRequest, RefusedRequest
<1>21. QED
  BY <1>3, <1>4, <1>5, <1>6, <1>7, <1>8, <1>9, <1>10, <1>11, <1>12, <1>13, <1>14, <1>15, <1>16, <1>17, <1>18, <1>19, <1>20 DEF ReadsRows

-----------------------------------------------------------------------------
(* Transactions write *)

\* The requests after p's transaction committed.
Landed(p, op) ==
  /\ tx[p].pc = "claim"
  /\ tx' = [q \in Proc |-> IF q = p THEN After(tx[p]) ELSE Spoils(op, tx[q])]

\* A commit leaves the row every open transaction read as it was.
LEMMA LandedRequests ==
  ASSUME ClockInv, NEW p \in Proc, NEW op, Landed(p, op)
  PROVE  /\ tx' \in [Proc -> Tx] /\ RequestsHonest'
         /\ \A q \in Proc : tx'[q].pc = "claim" =>
              tx[q].pc = "claim" /\ tx'[q].snap = tx[q].snap
<1> SUFFICES ASSUME NEW q \in Proc
             PROVE  /\ tx'[q] \in Tx /\ Honest(tx'[q])
                    /\ tx'[q].pc = "claim" => tx[q].pc = "claim" /\ tx'[q].snap = tx[q].snap
  BY DEF Landed, RequestsHonest, Honest
<1>1. tx[q] \in Tx /\ Honest(tx[q]) /\ tx[p] \in Tx /\ Honest(tx[p])
  BY DEF ClockInv, RowsTyped, RequestsHonest
<1>2. CASE q = p
  BY <1>1, <1>2, AfterTyped DEF Landed
<1>3. CASE q # p /\ tx'[q] = tx[q]
  BY <1>1, <1>3
<1>4. CASE q # p /\ tx'[q] # tx[q]
  <2>1. tx'[q] = [tx[q] EXCEPT !.stale = TRUE]
    BY <1>4 DEF Landed, Spoils
  <2>2. tx'[q] \in Tx
    BY <1>1, <2>1, Zenon DEF Tx
  <2>3. Honest(tx'[q]) /\ tx'[q].pc = tx[q].pc /\ tx'[q].snap = tx[q].snap
    BY <1>1, <2>1 DEF Honest, Tx
  <2>4. QED
    BY <2>2, <2>3
<1>5. QED
  BY <1>2, <1>3, <1>4

\* A written Draft row has a version nobody has read.
LEMMA WrittenRow ==
  ASSUME ClockInv, NEW p \in Proc, NEW op, Landed(p, op),
         NEW row \in DraftRow, Write(row)
  PROVE  /\ draft' \in DraftRow /\ expired' \in BOOLEAN /\ VersionNamesRow'
         /\ draft'.status = row.status /\ draft'.nominatorTeam = row.nominatorTeam
         /\ draft'.nominatedUser = row.nominatedUser /\ draft'.bidEndsAt = row.bidEndsAt
         /\ draft'.nominationEndsAt = row.nominationEndsAt
<1>1. Now \in Stamp /\ Now \notin HeldStamps /\ Now \in Orl(Stamp)
  BY DEF Write, Now, Orl
<1>2. draft' = [row EXCEPT !.updatedAt = Now] /\ expired' = FALSE
  BY DEF Write
<1> DEFINE now == Now
<1> HIDE DEF now
<1>3. draft' \in DraftRow
  <2>1. now \in Orl(Stamp) /\ draft' = [row EXCEPT !.updatedAt = now]
    BY <1>1, <1>2 DEF now
  <2>2. QED
    BY <2>1, Zenon DEF DraftRow
<1>4. draft'.updatedAt = Now
  BY <1>2 DEF DraftRow
<1>5. \A q \in Proc : tx[q].snap.updatedAt \in HeldStamps
  BY DEF HeldStamps
<1>6. VersionNamesRow'
  BY <1>1, <1>4, <1>5, LandedRequests DEF VersionNamesRow
<1>7. QED
  BY <1>2, <1>3, <1>6 DEF DraftRow

\* A commit that leaves the Draft row alone.
LEMMA RowsOnly ==
  ASSUME ClockInv, NEW p \in Proc, NEW op, Landed(p, op), UNCHANGED <<draft, expired>>,
         season' \in [status : {"SIGNUPS", "DRAFT", "REGULAR_SEASON"}, active : BOOLEAN],
         captain' \in [Team -> User], teamOf' \in [User -> Orl(Team)],
         price' \in [User -> Nat], flagged' \subseteq User, soldAs' \in [User -> Nat],
         reg' \in [User -> {"ACTIVE", "REMOVED"}], bids' \subseteq BidRow,
         lots' \in Seq(Lot)
  PROVE  ClockInv'
<1>1. RowsTyped' /\ RequestsHonest'
  BY LandedRequests DEF ClockInv, RowsTyped
<1>2. VersionNamesRow'
  BY LandedRequests DEF ClockInv, VersionNamesRow
<1>3. SomeonesTurn' /\ ClockDiscipline'
  BY DEF ClockInv, SomeonesTurn, ClockDiscipline
<1>4. QED
  BY <1>1, <1>2, <1>3 DEF ClockInv

\* A commit that writes the Draft row, its clocks as they should be.
LEMMA RowAndRows ==
  ASSUME ClockInv, NEW p \in Proc, NEW op, Landed(p, op),
         NEW row \in DraftRow, Write(row),
         row.status # "NOT_STARTED" => row.nominatorTeam \in Team,
         IF row.status = "IN_PROGRESS"
         THEN /\ (row.bidEndsAt # None) <=> (row.nominatedUser # None)
              /\ (row.nominationEndsAt # None) <=> (row.nominatedUser = None)
         ELSE row.bidEndsAt = None /\ row.nominationEndsAt = None,
         season' \in [status : {"SIGNUPS", "DRAFT", "REGULAR_SEASON"}, active : BOOLEAN],
         captain' \in [Team -> User], teamOf' \in [User -> Orl(Team)],
         price' \in [User -> Nat], flagged' \subseteq User, soldAs' \in [User -> Nat],
         reg' \in [User -> {"ACTIVE", "REMOVED"}], bids' \subseteq BidRow,
         lots' \in Seq(Lot)
  PROVE  ClockInv'
<1>1. RowsTyped' /\ RequestsHonest'
  BY LandedRequests, WrittenRow DEF ClockInv, RowsTyped
<1>2. VersionNamesRow'
  BY WrittenRow
<1>3. SomeonesTurn' /\ ClockDiscipline'
  BY WrittenRow DEF SomeonesTurn, ClockDiscipline
<1>4. QED
  BY <1>1, <1>2, <1>3 DEF ClockInv

\* One lot of the history is replaced by another.
LEMMA LotsTyped ==
  ASSUME RowsTyped, NEW k, NEW x, k \in DOMAIN lots => x \in Lot
  PROVE  [lots EXCEPT ![k] = x] \in Seq(Lot)
<1>1. lots \in Seq(Lot) /\ DOMAIN lots = 1 .. Len(lots)
  BY LenProperties DEF RowsTyped
<1>2. CASE k \in DOMAIN lots
  BY <1>1, <1>2, ExceptSeq
<1>3. CASE k \notin DOMAIN lots
  <2>1. [lots EXCEPT ![k] = x] = lots
    BY <1>1, <1>3, LenProperties
  <2>2. QED
    BY <1>1, <2>1
<1>4. QED
  BY <1>2, <1>3

\* A lot that closes is still a lot, with its receipt filled up.
LEMMA ClosingTyped ==
  ASSUME RowsTyped, NEW k \in DOMAIN lots, NEW s \in LotStatus
  PROVE  Closing(k, s) \in Lot
<1>1. lots[k] \in Lot
  BY LenProperties, ElementOfSeq DEF RowsTyped
<1> DEFINE r == lots[k].receipt \cup Trail(lots[k].user)
<1>2. r \in SUBSET BidRow
  BY <1>1 DEF Lot, Trail, RowsTyped
<1>3. Closing(k, s) = [lots[k] EXCEPT !.status = s, !.receipt = r]
  BY <1>1 DEF Closing
<1> HIDE DEF r
<1>4. QED
  BY <1>1, <1>2, <1>3, Zenon DEF Lot

\* Every second half keeps the invariant.  Most claims ask for the clock or the
\* turn they write over; Resume asks for the version of the row it read.
LEMMA Commits ==
  ASSUME ClockInv, NEW p \in Proc, Writes(p)
  PROVE  ClockInv'
<1> DEFINE me == tx[p]
           k == draft.currentLot
           now == Now
<1>1. /\ RowsTyped /\ ClockDiscipline /\ SomeonesTurn
      /\ me \in Tx /\ Honest(me) /\ draft \in DraftRow /\ lots \in Seq(Lot)
      /\ me.pc = "claim" /\ me.snap.updatedAt = draft.updatedAt => me.snap = draft
  BY DEF ClockInv, RowsTyped, RequestsHonest, VersionNamesRow
<1>2. Stamp \ HeldStamps # {} => now \in Stamp /\ now \in Orl(Stamp) /\ now # None
  BY NoneApart DEF Now, Orl
<1>3. /\ season \in [status : {"SIGNUPS", "DRAFT", "REGULAR_SEASON"}, active : BOOLEAN]
      /\ captain \in [Team -> User] /\ teamOf \in [User -> Orl(Team)]
      /\ price \in [User -> Nat] /\ flagged \subseteq User /\ soldAs \in [User -> Nat]
      /\ reg \in [User -> {"ACTIVE", "REMOVED"}] /\ bids \subseteq BidRow
  BY <1>1 DEF RowsTyped
<1>4. /\ None \in Orl(User) /\ None \in Orl(Team) /\ None \in Orl(Stamp)
      /\ {"IN_PROGRESS", "PAUSED", "COMPLETE"} \subseteq Status /\ 0 \in Nat
      /\ \A u \in User : u \in Orl(User)
      /\ \A t \in Team : t \in Orl(Team)
      /\ MinBid \in Nat
  BY MoneyAssumption DEF Orl, Status
<1> HIDE DEF now
<1>5. CASE BidLand(p)
  <2> DEFINE row == [draft EXCEPT !.currentBid = me.amount, !.bidTeam = me.team,
                                  !.bidEndsAt = now, !.clock = me.clock]
             bid == BidRecord(k, draft.nominatedUser, me.team, me.amount)
             lot == [lots[k] EXCEPT !.receipt = @ \cup {bid}]
  <2>1. /\ Landed(p, "bid") /\ Write(row) /\ bids' = bids \cup {bid}
        /\ lots' = [lots EXCEPT ![k] = lot] /\ UNCHANGED <<season, ledger, reg>>
        /\ me.op = "bid" /\ me.pc = "claim"
        /\ draft.status = "IN_PROGRESS" /\ draft.nominatedUser = me.snap.nominatedUser
    BY <1>5 DEF BidLand, Lands, Landed, BidClaim, SameLot, now
  <2>2. me.team \in Team /\ draft.nominatedUser \in User /\ draft.nominatedUser # None
        /\ me.amount \in Nat /\ k \in Nat
    BY <1>1, <2>1, NoneApart DEF Honest, Tx, DraftRow
  <2>3. bid \in BidRow
    BY <2>2 DEF BidRecord, BidRow
  <2>4. row \in DraftRow
    <3>1. now \in Orl(Stamp) /\ me.clock \in {"none", "full", "short"}
      BY <1>1, <1>2, <2>1 DEF Write, Tx
    <3>2. QED
      BY <1>1, <1>4, <2>2, <3>1, Zenon DEF DraftRow
  <2>5. /\ row.status = "IN_PROGRESS" /\ row.nominatorTeam \in Team
        /\ row.bidEndsAt # None /\ row.nominatedUser # None /\ row.nominationEndsAt = None
    BY <1>1, <1>2, <2>1, <2>2 DEF DraftRow, ClockDiscipline, SomeonesTurn, Write
  <2>6. lots' \in Seq(Lot)
    <3>1. k \in DOMAIN lots => lot \in Lot
      <4>1. k \in DOMAIN lots => lots[k] \in Lot
        BY <1>1, LenProperties, ElementOfSeq
      <4>2. k \in DOMAIN lots => lots[k].receipt \cup {bid} \in SUBSET BidRow
        BY <4>1, <2>3 DEF Lot
      <4> HIDE DEF bid
      <4>3. QED
        BY <4>1, <4>2, Zenon DEF Lot
    <3>2. QED
      BY <1>1, <2>1, <3>1, LotsTyped
  <2> HIDE DEF row, bid, lot
  <2>7. QED
    BY <1>3, <2>1, <2>3, <2>4, <2>5, <2>6, RowAndRows DEF ledger
<1>6. ASSUME NEW u \in User, NEW t \in Team, NEW a \in Nat, NEW by \in Orl(User \cup Admins),
             NEW c \in {"none", "full", "short"}, NEW op, Landed(p, op),
             OpenLot(u, t, a, c, by), draft.status = "IN_PROGRESS"
      PROVE  ClockInv'
  <2> DEFINE n == Len(lots) + 1
             row == [draft EXCEPT !.nominatedUser = u, !.currentBid = a, !.bidTeam = t,
                                  !.bidEndsAt = now, !.nominationEndsAt = None,
                                  !.currentLot = n, !.clock = c]
             bid == BidRecord(n, u, t, a)
             lot == [user |-> u, nominator |-> t, status |-> "OPEN", by |-> by,
                     soldTeam |-> None, soldPrice |-> 0, receipt |-> {bid}]
  <2>1. /\ Write(row) /\ bids' = bids \cup {bid} /\ lots' = Append(lots, lot)
        /\ UNCHANGED <<season, ledger, reg>>
    BY <1>6 DEF OpenLot, now
  <2>2. n \in Nat /\ bid \in BidRow
    BY <1>1, LenProperties DEF BidRecord, BidRow
  <2>3. lots' \in Seq(Lot)
    <3>1. lot \in Lot
      BY <1>4, <2>2 DEF Lot, LotStatus
    <3>2. QED
      BY <1>1, <2>1, <3>1
  <2>4. row \in DraftRow
    <3>1. now \in Orl(Stamp) /\ u \in Orl(User) /\ t \in Orl(Team)
      BY <1>2, <1>4, <2>1 DEF Write
    <3> HIDE DEF n
    <3>2. QED
      BY <1>1, <1>4, <2>2, <3>1, Zenon DEF DraftRow
  <2>5. /\ row.status = "IN_PROGRESS" /\ row.nominatorTeam \in Team
        /\ row.bidEndsAt # None /\ row.nominatedUser # None /\ row.nominationEndsAt = None
    BY <1>1, <1>2, <1>6, <2>1, NoneApart DEF DraftRow, SomeonesTurn, Write
  <2> HIDE DEF row, bid, lot
  <2>6. QED
    BY <1>3, <1>6, <2>1, <2>2, <2>3, <2>4, <2>5, RowAndRows DEF ledger
<1>7. CASE NominateLand(p)
  <2>1. /\ Landed(p, "nominate") /\ OpenLot(me.user, me.team, me.amount, me.clock, me.by)
        /\ draft.status = "IN_PROGRESS" /\ me.op = "nominate" /\ me.pc = "claim"
    BY <1>7 DEF NominateLand, Lands, Landed, NominateClaim
  <2>2. /\ me.user \in User /\ me.team \in Team /\ me.amount \in Nat
        /\ me.clock \in {"none", "full", "short"} /\ me.by \in Orl(User \cup Admins)
    BY <1>1, <2>1 DEF Honest, Tx, NamesAUser, NamesATeam
  <2>3. QED
    BY <1>6, <2>1, <2>2
<1>8. CASE StalledOpens(p)
  <2>1. /\ Landed(p, "stalled") /\ OpenLot(me.user, me.team, MinBid, me.clock, None)
        /\ draft.status = "IN_PROGRESS" /\ me.op = "stalled" /\ me.pc = "claim"
        /\ me.plan = "open"
    BY <1>8 DEF StalledOpens, Lands, Landed, StalledClaim
  <2>2. /\ me.user \in User /\ me.team \in Team /\ None \in Orl(User \cup Admins)
        /\ me.clock \in {"none", "full", "short"}
    BY <1>1, <2>1 DEF Honest, Tx, Orl
  <2>3. QED
    BY <1>4, <1>6, <2>1, <2>2
<1>9. CASE StalledAdvances(p)
  <2> DEFINE row == [draft EXCEPT !.nominatorTeam = me.team, !.nominationEndsAt = now]
  <2>1. /\ Landed(p, "stalled") /\ Write(row)
        /\ UNCHANGED <<season, ledger, reg, bids, lots>>
        /\ draft.status = "IN_PROGRESS" /\ me.op = "stalled" /\ me.pc = "claim"
        /\ me.plan = "advance" /\ draft.nominationEndsAt = me.snap.nominationEndsAt
    BY <1>9 DEF StalledAdvances, Lands, Landed, StalledClaim, now
  <2>2. me.team \in Team /\ me.team \in Orl(Team) /\ draft.nominationEndsAt # None
    BY <1>1, <1>4, <2>1 DEF Honest
  <2>3. row \in DraftRow
    <3>1. now \in Orl(Stamp)
      BY <1>2, <2>1 DEF Write
    <3>2. QED
      BY <1>1, <2>2, <3>1, Zenon DEF DraftRow
  <2>4. /\ row.status = "IN_PROGRESS" /\ row.nominatorTeam \in Team
        /\ row.bidEndsAt = None /\ row.nominatedUser = None /\ row.nominationEndsAt # None
    BY <1>1, <1>2, <2>1, <2>2 DEF DraftRow, ClockDiscipline, Write
  <2> HIDE DEF row
  <2>5. QED
    BY <1>1, <1>3, <2>1, <2>3, <2>4, RowAndRows DEF ledger
<1>10. CASE StalledCompletes(p)
  <2> DEFINE row == [draft EXCEPT !.status = "COMPLETE", !.nominationEndsAt = None]
  <2>1. /\ Landed(p, "stalled") /\ Write(row)
        /\ UNCHANGED <<season, ledger, reg, bids, lots>>
        /\ draft.status = "IN_PROGRESS" /\ me.op = "stalled" /\ me.pc = "claim"
        /\ draft.nominationEndsAt = me.snap.nominationEndsAt
    BY <1>10 DEF StalledCompletes, Lands, Landed, StalledClaim
  <2>2. draft.nominationEndsAt # None
    BY <1>1, <2>1 DEF Honest
  <2>3. row \in DraftRow
    BY <1>1, <1>4, Zenon DEF DraftRow
  <2>4. /\ row.status = "COMPLETE" /\ row.nominatorTeam \in Team
        /\ row.bidEndsAt = None /\ row.nominationEndsAt = None
    BY <1>1, <2>1, <2>2 DEF DraftRow, ClockDiscipline, SomeonesTurn
  <2> HIDE DEF row
  <2>5. QED
    BY <1>1, <1>3, <2>1, <2>3, <2>4, RowAndRows DEF ledger
<1>11. ASSUME NEW op, Landed(p, op), NEW money, NEW roster, Rotate(money, roster),
              draft.status = "IN_PROGRESS", UNCHANGED <<season, captain, flagged, reg>>,
              teamOf' \in [User -> Orl(Team)], price' \in [User -> Nat],
              soldAs' \in [User -> Nat], bids' \subseteq BidRow, lots' \in Seq(Lot)
       PROVE  ClockInv'
  <2> DEFINE able == SomeoneCanNominate(money, Count(roster), draft.nominatorTeam)
                     /\ Pool(roster) # {}
             next == NextNominator(money, Count(roster), draft.nominatorTeam)
             turn == [NoLot(draft) EXCEPT !.nominatorTeam = next, !.nominationEndsAt = now]
             over == [NoLot(draft) EXCEPT !.status = "COMPLETE", !.nominationEndsAt = None]
  <2>1. (able /\ Write(turn)) \/ Write(over)
    BY <1>11 DEF Rotate, now
  <2>2. draft.nominatorTeam \in Team
    BY <1>1, <1>11 DEF SomeonesTurn
  <2>3. able => next \in Team /\ next \in Orl(Team)
    BY <1>4, <2>2, NextNominatorTyped
  <2>4. NoLot(draft) \in DraftRow
    <3>1. "none" \in {"none", "full", "short"}
      OBVIOUS
    <3>2. QED
      BY <1>1, <1>4, <3>1, Zenon DEF NoLot, DraftRow
  <2>5. /\ NoLot(draft).status = "IN_PROGRESS" /\ NoLot(draft).nominatedUser = None
        /\ NoLot(draft).bidEndsAt = None /\ NoLot(draft).nominatorTeam \in Team
    BY <1>1, <1>11, <2>2 DEF NoLot, DraftRow
  <2> HIDE DEF next
  <2>6. CASE able /\ Write(turn)
    <3>1. now \in Orl(Stamp) /\ now # None
      BY <1>2, <2>6 DEF Write
    <3>2. turn \in DraftRow
      BY <2>3, <2>4, <2>6, <3>1, Zenon DEF DraftRow
    <3>3. /\ turn.status = "IN_PROGRESS" /\ turn.nominatorTeam \in Team
          /\ turn.bidEndsAt = None /\ turn.nominatedUser = None
          /\ turn.nominationEndsAt # None
      BY <2>3, <2>4, <2>5, <2>6, <3>1 DEF DraftRow
    <3> HIDE DEF turn
    <3>4. QED
      BY <1>3, <1>11, <2>6, <3>2, <3>3, RowAndRows
  <2>7. CASE Write(over)
    <3>1. over \in DraftRow
      BY <1>4, <2>4, Zenon DEF DraftRow
    <3>2. /\ over.status = "COMPLETE" /\ over.nominatorTeam \in Team
          /\ over.bidEndsAt = None /\ over.nominationEndsAt = None
      BY <2>4, <2>5 DEF DraftRow
    <3> HIDE DEF over
    <3>3. QED
      BY <1>3, <1>11, <2>7, <3>1, <3>2, RowAndRows
  <2>8. QED
    BY <2>1, <2>6, <2>7
<1>12. \A u \in User : WithoutTrail(u) \subseteq BidRow
  BY <1>3 DEF WithoutTrail
<1>13. ASSUME NEW j, NEW s \in LotStatus
       PROVE  [lots EXCEPT ![j] = Closing(j, s)] \in Seq(Lot)
  BY <1>1, <1>13, ClosingTyped, LotsTyped
<1>14. CASE SettleSells(p)
  <2> DEFINE u == draft.nominatedUser
             t == draft.bidTeam
             lot == [Closing(k, "SOLD") EXCEPT !.soldTeam = t, !.soldPrice = draft.currentBid]
  <2>1. /\ Landed(p, "settle") /\ Rotate(budget', teamOf') /\ draft.status = "IN_PROGRESS"
        /\ teamOf' = [teamOf EXCEPT ![u] = t] /\ price' = [price EXCEPT ![u] = draft.currentBid]
        /\ soldAs' = [soldAs EXCEPT ![u] = k] /\ lots' = [lots EXCEPT ![k] = lot]
        /\ UNCHANGED <<season, captain, flagged, reg, bids>>
    BY <1>14 DEF SettleSells, Lands, Landed, SettleClaim
  <2>2. t \in Orl(Team) /\ draft.currentBid \in Nat /\ k \in Nat
    BY <1>1 DEF DraftRow
  <2>3. lots' \in Seq(Lot)
    <3>1. k \in DOMAIN lots => lot \in Lot
      <4>1. k \in DOMAIN lots => Closing(k, "SOLD") \in Lot
        BY <1>1, ClosingTyped DEF LotStatus
      <4>2. QED
        BY <2>2, <4>1, Zenon DEF Lot
    <3>2. QED
      BY <1>1, <2>1, <3>1, LotsTyped
  <2>4. /\ teamOf' \in [User -> Orl(Team)] /\ price' \in [User -> Nat]
        /\ soldAs' \in [User -> Nat]
    BY <1>3, <2>1, <2>2
  <2>5. QED
    BY <1>3, <1>11, <2>1, <2>3, <2>4
<1>15. CASE SettleVoids(p)
  <2>1. /\ Landed(p, "settle") /\ Rotate(budget, teamOf) /\ draft.status = "IN_PROGRESS"
        /\ lots' = [lots EXCEPT ![k] = Closing(k, "VOIDED")]
        /\ bids' = WithoutTrail(draft.nominatedUser)
        /\ draft.nominatedUser = me.snap.nominatedUser /\ me.op = "settle" /\ me.pc = "claim"
        /\ UNCHANGED <<season, ledger, reg>>
    BY <1>15 DEF SettleVoids, Lands, Landed, SettleClaim, SameLot
  <2>2. draft.nominatedUser \in User
    BY <1>1, <2>1 DEF Honest
  <2>3. lots' \in Seq(Lot) /\ bids' \subseteq BidRow
    BY <1>12, <1>13, <2>1, <2>2 DEF LotStatus
  <2>4. QED
    BY <1>3, <1>11, <2>1, <2>3 DEF ledger
<1>16. Parked(draft) \in DraftRow /\ Parked(draft).bidEndsAt = None
       /\ Parked(draft).nominationEndsAt = None
       /\ Parked(draft).nominatorTeam = draft.nominatorTeam
  <2>1. "none" \in {"none", "full", "short"}
    OBVIOUS
  <2>2. Parked(draft) \in DraftRow
    BY <1>1, <1>4, <2>1, Zenon DEF Parked, DraftRow
  <2>3. QED
    BY <1>1, <2>2 DEF Parked, DraftRow
<1>17. ASSUME NEW op, Landed(p, op), draft.status \in {"IN_PROGRESS", "PAUSED"},
              Write([Parked(draft) EXCEPT !.status = "PAUSED"]),
              season' \in [status : {"SIGNUPS", "DRAFT", "REGULAR_SEASON"}, active : BOOLEAN],
              UNCHANGED <<ledger, reg, bids, lots>>
       PROVE  ClockInv'
  <2> DEFINE row == [Parked(draft) EXCEPT !.status = "PAUSED"]
  <2>1. row \in DraftRow
    BY <1>4, <1>16, Zenon DEF DraftRow
  <2>2. /\ row.status = "PAUSED" /\ row.nominatorTeam \in Team
        /\ row.bidEndsAt = None /\ row.nominationEndsAt = None
    BY <1>1, <1>16, <1>17 DEF DraftRow, SomeonesTurn
  <2>3. Write(row)
    BY <1>17
  <2> HIDE DEF row
  <2>4. QED
    BY <1>1, <1>3, <1>17, <2>1, <2>2, <2>3, RowAndRows DEF ledger
<1>18. CASE PauseLand(p)
  BY <1>3, <1>17, <1>18 DEF PauseLand, Lands, Landed, PauseClaim
<1>19. ASSUME NEW op, Landed(p, op), Park,
              season' \in [status : {"SIGNUPS", "DRAFT", "REGULAR_SEASON"}, active : BOOLEAN],
              UNCHANGED <<ledger, reg, bids, lots>>
       PROVE  ClockInv'
  <2>1. CASE draft.status \in {"IN_PROGRESS", "PAUSED"}
    BY <1>17, <1>19, <2>1 DEF Park
  <2>2. CASE UNCHANGED <<draft, expired>>
    BY <1>1, <1>3, <1>19, <2>2, RowsOnly DEF ledger
  <2>3. QED
    BY <1>19, <2>1, <2>2 DEF Park
<1>20. CASE ArchiveLand(p)
  BY <1>3, <1>19, <1>20 DEF ArchiveLand, Lands, Landed
<1>21. CASE ReactivateLand(p)
  BY <1>3, <1>19, <1>21 DEF ReactivateLand, Lands, Landed
<1>22. CASE ResumeLand(p)
  <2> DEFINE turn == [draft EXCEPT !.status = "IN_PROGRESS", !.nominationEndsAt = now]
             block == [draft EXCEPT !.status = "IN_PROGRESS", !.bidEndsAt = now,
                                    !.clock = me.clock]
  <2>1. /\ Landed(p, "resume") /\ draft.status = "PAUSED"
        /\ me.pc = "claim" /\ draft.updatedAt = me.snap.updatedAt
        /\ Write(IF me.snap.nominatedUser = None THEN turn ELSE block)
        /\ UNCHANGED <<season, ledger, reg, bids, lots>>
    BY <1>22 DEF ResumeLand, Lands, Landed, ResumeClaim, now
  <2>2. me.snap = draft /\ now \in Orl(Stamp) /\ now # None
        /\ me.clock \in {"none", "full", "short"}
    BY <1>1, <1>2, <2>1 DEF Write, Tx
  <2>3. draft.bidEndsAt = None /\ draft.nominationEndsAt = None
        /\ draft.nominatorTeam \in Team
    BY <1>1, <2>1 DEF ClockDiscipline, SomeonesTurn
  <2>4. turn \in DraftRow /\ block \in DraftRow
    BY <1>1, <1>4, <2>2, Zenon DEF DraftRow
  <2>5. CASE draft.nominatedUser = None
    <3>1. /\ turn.status = "IN_PROGRESS" /\ turn.nominatorTeam \in Team
          /\ turn.bidEndsAt = None /\ turn.nominatedUser = None
          /\ turn.nominationEndsAt # None
      BY <1>1, <2>2, <2>3, <2>5 DEF DraftRow
    <3>2. Write(turn)
      BY <2>1, <2>2, <2>5
    <3> HIDE DEF turn
    <3>3. QED
      BY <1>1, <1>3, <2>1, <2>4, <3>1, <3>2, RowAndRows DEF ledger
  <2>6. CASE draft.nominatedUser # None
    <3>1. /\ block.status = "IN_PROGRESS" /\ block.nominatorTeam \in Team
          /\ block.bidEndsAt # None /\ block.nominatedUser # None
          /\ block.nominationEndsAt = None
      BY <1>1, <2>2, <2>3, <2>6 DEF DraftRow
    <3>2. Write(block)
      BY <2>1, <2>2, <2>6
    <3> HIDE DEF block
    <3>3. QED
      BY <1>1, <1>3, <2>1, <2>4, <3>1, <3>2, RowAndRows DEF ledger
  <2>7. QED
    BY <2>5, <2>6
<1>23. CASE VoidLand(p)
  <2> DEFINE row == [NoLot(draft) EXCEPT !.nominationEndsAt = None]
  <2>1. /\ Landed(p, "void") /\ Write(row) /\ draft.status = "PAUSED"
        /\ lots' = [lots EXCEPT ![k] = Closing(k, "VOIDED")]
        /\ bids' = WithoutTrail(draft.nominatedUser) /\ UNCHANGED <<season, ledger, reg>>
    BY <1>23 DEF VoidLand, Lands, Landed, VoidClaim
  <2>2. lots' \in Seq(Lot) /\ bids' \subseteq BidRow
    BY <1>3, <1>13, <2>1 DEF LotStatus, WithoutTrail
  <2>3. NoLot(draft) \in DraftRow
    <3>1. "none" \in {"none", "full", "short"}
      OBVIOUS
    <3>2. QED
      BY <1>1, <1>4, <3>1, Zenon DEF NoLot, DraftRow
  <2>4. row \in DraftRow
    BY <1>4, <2>3, Zenon DEF DraftRow
  <2>5. /\ row.status = "PAUSED" /\ row.nominatorTeam \in Team
        /\ row.bidEndsAt = None /\ row.nominationEndsAt = None
    BY <1>1, <2>1, <2>3 DEF NoLot, DraftRow, SomeonesTurn
  <2> HIDE DEF row
  <2>6. QED
    BY <1>3, <2>1, <2>2, <2>4, <2>5, RowAndRows DEF ledger
<1>24. ASSUME NEW u \in User, NEW t, LeavesTeam(u, t)
       PROVE  /\ teamOf' \in [User -> Orl(Team)] /\ price' \in [User -> Nat]
              /\ soldAs' \in [User -> Nat]
  BY <1>3, <1>4, <1>24 DEF LeavesTeam
<1>25. CASE UndoLand(p)
  <2> DEFINE u == me.user
             t == teamOf[u]
             held == [draft EXCEPT !.nominatorTeam = t, !.nominationEndsAt = None]
             turn == [draft EXCEPT !.status = "IN_PROGRESS", !.nominatorTeam = t,
                                   !.nominationEndsAt = now]
             lot == [lots[soldAs[u]] EXCEPT !.status = "UNDONE"]
  <2>1. /\ Landed(p, "undo") /\ LeavesTeam(u, t) /\ bids' = WithoutTrail(u)
        /\ u \in Purchases /\ draft.nominatedUser = None
        /\ lots' = [lots EXCEPT ![soldAs[u]] = lot]
        /\ Write(IF draft.status = "PAUSED" THEN held ELSE turn)
        /\ UNCHANGED <<season, captain, flagged, reg>>
    BY <1>25 DEF UndoLand, Lands, Landed, UndoClaim, now
  <2>2. u \in User /\ t \in Team /\ t \in Orl(Team) /\ now \in Orl(Stamp) /\ now # None
    BY <1>2, <1>3, <2>1 DEF Purchases, Orl, Write
  <2>3. lots' \in Seq(Lot)
    <3>1. soldAs[u] \in DOMAIN lots => lot \in Lot
      <4>1. soldAs[u] \in DOMAIN lots => lots[soldAs[u]] \in Lot
        BY <1>1, LenProperties, ElementOfSeq
      <4>2. "UNDONE" \in LotStatus
        BY DEF LotStatus
      <4>3. QED
        BY <4>1, <4>2, Zenon DEF Lot
    <3>2. QED
      BY <1>1, <2>1, <3>1, LotsTyped
  <2>4. bids' \subseteq BidRow
    BY <1>12, <2>1, <2>2
  <2>5. held \in DraftRow /\ turn \in DraftRow
    <3> HIDE DEF t
    <3>1. QED
      BY <1>1, <1>4, <2>2, Zenon DEF DraftRow
  <2>6. draft.bidEndsAt = None
    BY <1>1, <2>1 DEF ClockDiscipline
  <2>7. /\ teamOf' \in [User -> Orl(Team)] /\ price' \in [User -> Nat]
        /\ soldAs' \in [User -> Nat]
    BY <1>24, <2>1, <2>2
  <2>8. CASE draft.status = "PAUSED"
    <3>1. /\ held.status = "PAUSED" /\ held.nominatorTeam \in Team
          /\ held.bidEndsAt = None /\ held.nominationEndsAt = None
      BY <1>1, <2>2, <2>6, <2>8 DEF DraftRow
    <3>2. Write(held)
      BY <2>1, <2>8
    <3> HIDE DEF held, lot, u, t
    <3>3. QED
      BY <1>3, <2>1, <2>3, <2>4, <2>5, <2>7, <3>1, <3>2, RowAndRows
  <2>9. CASE draft.status # "PAUSED"
    <3>1. /\ turn.status = "IN_PROGRESS" /\ turn.nominatorTeam \in Team
          /\ turn.bidEndsAt = None /\ turn.nominatedUser = None
          /\ turn.nominationEndsAt # None
      BY <1>1, <2>1, <2>2, <2>6 DEF DraftRow
    <3>2. Write(turn)
      BY <2>1, <2>9
    <3> HIDE DEF turn, lot, u, t
    <3>3. QED
      BY <1>3, <2>1, <2>3, <2>4, <2>5, <2>7, <3>1, <3>2, RowAndRows
  <2>10. QED
    BY <2>8, <2>9
<1>26. CASE AbortLand(p)
  <2> DEFINE stamp == draft.updatedAt
             row == [NoRow EXCEPT !.updatedAt = stamp]
  <2>1. /\ Landed(p, "abort") /\ Write(row)
        /\ season' = [season EXCEPT !.status = "SIGNUPS"]
        /\ teamOf' = [v \in User |-> IF v \in {captain[t] : t \in Team}
                                     THEN teamOf[v] ELSE None]
        /\ price' = [v \in User |-> 0]
        /\ soldAs' = [v \in User |-> IF v \in {captain[t] : t \in Team}
                                     THEN soldAs[v] ELSE 0]
        /\ flagged' = {captain[t] : t \in Team} /\ bids' = {} /\ lots' = AbortedLots
        /\ UNCHANGED <<captain, reg>>
    BY <1>26 DEF AbortLand, Lands, Landed
  <2>2. lots' \in Seq(Lot)
    <3>1. DOMAIN lots = 1 .. Len(lots) /\ Len(lots) \in Nat
          /\ \A j \in DOMAIN lots : lots[j] \in Lot
      BY <1>1, LenProperties, ElementOfSeq
    <3>2. ASSUME NEW j \in DOMAIN lots
          PROVE  Closing(j, "ABORTED") \in Lot /\ [lots[j] EXCEPT !.status = "ABORTED"] \in Lot
      <4>1. "ABORTED" \in LotStatus
        BY DEF LotStatus
      <4>2. Closing(j, "ABORTED") \in Lot
        BY <1>1, <4>1, ClosingTyped
      <4>3. [lots[j] EXCEPT !.status = "ABORTED"] \in Lot
        BY <3>1, <4>1, Zenon DEF Lot
      <4>4. QED
        BY <4>2, <4>3
    <3>3. AbortedLots \in [DOMAIN lots -> Lot]
      BY <3>1, <3>2 DEF AbortedLots
    <3>4. QED
      BY <2>1, <3>1, <3>3
  <2>3. row \in DraftRow
    <3>1. stamp \in Orl(Stamp)
      BY <1>1 DEF DraftRow
    <3> HIDE DEF stamp
    <3>2. QED
      BY <3>1, NoRowTyped, Zenon DEF DraftRow
  <2>4. row.status = "NOT_STARTED" /\ row.bidEndsAt = None /\ row.nominationEndsAt = None
    BY DEF NoRow
  <2>5. /\ season' \in [status : {"SIGNUPS", "DRAFT", "REGULAR_SEASON"}, active : BOOLEAN]
        /\ teamOf' \in [User -> Orl(Team)] /\ price' \in [User -> Nat]
        /\ soldAs' \in [User -> Nat] /\ flagged' \subseteq User /\ bids' \subseteq BidRow
    BY <1>3, <1>4, <2>1
  <2> HIDE DEF row
  <2>6. QED
    BY <1>3, <2>1, <2>2, <2>3, <2>4, <2>5, RowAndRows
<1>27. CASE StartLand(p)
  <2> DEFINE first == Order[0]
             row == [NoRow EXCEPT !.status = "IN_PROGRESS", !.nominatorTeam = first,
                                  !.nominationEndsAt = now]
  <2>1. /\ Landed(p, "start") /\ Write(row)
        /\ season' = [season EXCEPT !.status = "DRAFT"]
        /\ UNCHANGED <<captain, teamOf, price, flagged, soldAs, reg, bids, lots>>
    BY <1>27 DEF StartLand, Lands, Landed, now
  <2>2. first \in Team /\ first \in Orl(Team)
    <3>1. N \in Nat \ {0}
      BY TeamAssumption, FS_CardinalityType, FS_EmptySet DEF N
    <3>2. QED
      BY <3>1, OrderAssumption DEF Orl
  <2>3. now \in Orl(Stamp) /\ now # None
    BY <1>2, <2>1 DEF Write
  <2> HIDE DEF first
  <2>4. row \in DraftRow
    BY <1>4, <2>2, <2>3, NoRowTyped, Zenon DEF DraftRow
  <2>5. /\ row.status = "IN_PROGRESS" /\ row.nominatorTeam \in Team
        /\ row.bidEndsAt = None /\ row.nominatedUser = None /\ row.nominationEndsAt # None
    BY <2>2, <2>3 DEF NoRow
  <2>6. season' \in [status : {"SIGNUPS", "DRAFT", "REGULAR_SEASON"}, active : BOOLEAN]
    BY <1>3, <2>1
  <2> HIDE DEF row
  <2>7. QED
    BY <1>1, <1>3, <2>1, <2>4, <2>5, <2>6, RowAndRows
<1>28. CASE PhaseLand(p)
  <2>1. /\ Landed(p, "phase") /\ me.op = "phase" /\ me.pc = "claim"
        /\ season' = [season EXCEPT !.status = me.plan]
        /\ UNCHANGED <<draft, expired, ledger, reg, bids, lots>>
    BY <1>28 DEF PhaseLand, Lands, Landed
  <2>2. me.plan \in {"SIGNUPS", "DRAFT", "REGULAR_SEASON"}
    BY <1>1, <2>1 DEF Honest
  <2>3. season' \in [status : {"SIGNUPS", "DRAFT", "REGULAR_SEASON"}, active : BOOLEAN]
    BY <1>3, <2>1, <2>2
  <2>4. QED
    BY <1>1, <1>3, <2>1, <2>3, RowsOnly DEF ledger
<1>29. CASE WithdrawLand(p)
  <2>1. /\ Landed(p, "withdraw") /\ reg' = [reg EXCEPT ![me.user] = "REMOVED"]
        /\ UNCHANGED <<season, draft, expired, ledger, bids, lots>>
    BY <1>29 DEF WithdrawLand, Lands, Landed
  <2>2. reg' \in [User -> {"ACTIVE", "REMOVED"}]
    BY <1>3, <2>1
  <2>3. QED
    BY <1>1, <1>3, <2>1, <2>2, RowsOnly DEF ledger
<1>30. CASE ReinstateLand(p)
  <2>1. /\ Landed(p, "reinstate") /\ reg' = [reg EXCEPT ![me.user] = "ACTIVE"]
        /\ UNCHANGED <<season, draft, expired, ledger, bids, lots>>
    BY <1>30 DEF ReinstateLand, Lands, Landed
  <2>2. reg' \in [User -> {"ACTIVE", "REMOVED"}]
    BY <1>3, <2>1
  <2>3. QED
    BY <1>1, <1>3, <2>1, <2>2, RowsOnly DEF ledger
<1>31. CASE SignLand(p)
  <2>1. /\ Landed(p, "sign") /\ teamOf' = [teamOf EXCEPT ![me.user] = me.team]
        /\ UNCHANGED <<season, draft, expired, captain, budget, price, flagged, soldAs,
                       reg, bids, lots>>
    BY <1>31 DEF SignLand, Lands, Landed
  <2>2. teamOf' \in [User -> Orl(Team)]
    BY <1>1, <1>3, <2>1 DEF Tx
  <2>3. QED
    BY <1>1, <1>3, <2>1, <2>2, RowsOnly
<1>32. CASE ReleaseLand(p)
  <2>1. /\ Landed(p, "release") /\ LeavesTeam(me.user, me.team)
        /\ me.op = "release" /\ me.pc = "claim"
        /\ UNCHANGED <<season, draft, expired, captain, flagged, reg, bids, lots>>
    BY <1>32 DEF ReleaseLand, Lands, Landed
  <2>2. me.user \in User
    BY <1>1, <2>1 DEF Honest, NamesAUser, NamesATeam
  <2>3. /\ teamOf' \in [User -> Orl(Team)] /\ price' \in [User -> Nat]
        /\ soldAs' \in [User -> Nat]
    BY <1>24, <2>1, <2>2
  <2>4. QED
    BY <1>1, <1>3, <2>1, <2>3, RowsOnly
<1>33. CASE TransferLand(p)
  <2>1. /\ Landed(p, "transfer") /\ captain' = [captain EXCEPT ![me.team] = me.user]
        /\ flagged' = {u \in flagged : teamOf[u] # me.team} \cup {me.user}
        /\ me.op = "transfer" /\ me.pc = "claim"
        /\ UNCHANGED <<season, draft, expired, budget, teamOf, price, soldAs, reg, bids, lots>>
    BY <1>33 DEF TransferLand, Lands, Landed
  <2>2. me.user \in User /\ me.team \in Team
    BY <1>1, <2>1 DEF Honest, NamesAUser, NamesATeam
  <2>3. captain' \in [Team -> User] /\ flagged' \subseteq User
    BY <1>3, <2>1, <2>2
  <2>4. QED
    BY <1>1, <1>3, <2>1, <2>3, RowsOnly
<1>34. CASE Refused(p)
  BY <1>34, RefusedRequest DEF Refused
<1>35. QED
  BY <1>5, <1>7, <1>8, <1>9, <1>10, <1>14, <1>15, <1>18, <1>20, <1>21, <1>22, <1>23,
     <1>25, <1>26, <1>27, <1>28, <1>29, <1>30, <1>31, <1>32, <1>33, <1>34 DEF Writes

-----------------------------------------------------------------------------
(* The invariant *)

\* Before the season's draft is started the rows are as addCaptain left them.
LEMMA InitClockInv == Init => ClockInv
<1> SUFFICES ASSUME Init PROVE ClockInv
  OBVIOUS
<1>1. Stamp # {}
  BY StampAssumption, FS_CardinalityType, FS_EmptySet
<1> DEFINE stamp == CHOOSE s \in Stamp : TRUE
<1>2. stamp \in Orl(Stamp)
  BY <1>1 DEF Orl
<1> HIDE DEF stamp
<1>3. draft = [NoRow EXCEPT !.updatedAt = stamp]
  BY DEF Init, stamp
<1>4. draft \in DraftRow
  BY <1>2, <1>3, NoRowTyped, Zenon DEF DraftRow
<1>5. draft.status = "NOT_STARTED" /\ draft.bidEndsAt = None /\ draft.nominationEndsAt = None
  BY <1>3 DEF NoRow
<1>6. teamOf \in [User -> Orl(Team)]
  BY DEF Init, TeamCaptainedAtStart, Orl
<1>7. RowsTyped
  BY <1>4, <1>6, IdleTyped, CaptainAssumption, EmptySeq DEF Init, RowsTyped
<1>8. RequestsHonest /\ VersionNamesRow
  BY IdleTyped DEF Init, RequestsHonest, VersionNamesRow, Idle
<1>9. SomeonesTurn /\ ClockDiscipline
  BY <1>5 DEF SomeonesTurn, ClockDiscipline
<1>10. QED
  BY <1>7, <1>8, <1>9 DEF ClockInv

\* The invariant is inductive.
LEMMA StepClockInv == ClockInv /\ [Next]_vars => ClockInv'
<1> SUFFICES ASSUME ClockInv, [Next]_vars PROVE ClockInv'
  OBVIOUS
<1>1. CASE Expire
  BY <1>1 DEF Expire, ClockInv, RowsTyped, RequestsHonest, VersionNamesRow, SomeonesTurn,
              ClockDiscipline, ledger
<1>2. CASE \E p \in Proc : Arrives(p) \/ ReadsRows(p) \/ Writes(p)
  BY <1>2, Arrival, Reading, Commits
<1>3. CASE UNCHANGED vars
  BY <1>3 DEF vars, db, ClockInv, RowsTyped, RequestsHonest, VersionNamesRow, SomeonesTurn,
              ClockDiscipline, Honest
<1>4. QED
  BY <1>1, <1>2, <1>3 DEF Next

\* The inductive invariant holds of every behaviour, for any number of requests
\* at once: no claim of draft-service.ts ever lands on a clock it did not see.
THEOREM ClockInvariant == Spec => []ClockInv
<1>1. Init => ClockInv
  BY InitClockInv
<1>2. ClockInv /\ [Next]_vars => ClockInv'
  BY StepClockInv
<1>3. QED
  BY <1>1, <1>2, PTL DEF Spec

\* A running auction has exactly one clock, and one that is paused, over or not
\* begun has none, whatever requests are open (draft-service.ts:884-892).
THEOREM ClocksAreDisciplined == Spec => []ClockDiscipline
<1>1. ClockInv => ClockDiscipline
  BY DEF ClockInv
<1>2. QED
  BY <1>1, ClockInvariant, PTL

\* Every row but the money, and every request, has its columns' types.
THEOREM RowsAreTyped == Spec => []RowsTyped
<1>1. ClockInv => RowsTyped
  BY DEF ClockInv
<1>2. QED
  BY <1>1, ClockInvariant, PTL

-----------------------------------------------------------------------------
(* The season.  The auction runs only in its season's Draft phase.         *)

SeasonRow == [status : {"SIGNUPS", "DRAFT", "REGULAR_SEASON"}, active : BOOLEAN]

\* The types the phase rests on.
LEMMA PhaseTypes ==
  ASSUME ClockInv
  PROVE  season \in SeasonRow /\ draft \in DraftRow /\ \A q \in Proc : tx[q] \in Tx
BY DEF ClockInv, RowsTyped, SeasonRow

\* A write of the Draft row makes every version read before it an old one.
LEMMA NewVersion ==
  ASSUME ClockInv, ClockInv', NEW row, Write(row)
  PROVE  \A q \in Proc : tx[q].snap.updatedAt # draft'.updatedAt
<1>1. Now \notin HeldStamps /\ draft' = [row EXCEPT !.updatedAt = Now]
  BY DEF Write, Now
<1>2. draft' \in DraftRow
  BY DEF ClockInv, RowsTyped
<1>3. draft'.updatedAt = Now
  BY <1>1, <1>2 DEF DraftRow
<1>4. \A q \in Proc : tx[q].snap.updatedAt \in HeldStamps
  BY DEF HeldStamps
<1>5. QED
  BY <1>1, <1>3, <1>4

\* What the open requests saw survives a commit: the SERIALIZABLE ones of those
\* it concerns are spoiled, and Resume keeps the row it read or loses its version.
LEMMA OthersSaw ==
  ASSUME ClockInv, PhaseInv, NEW p \in Proc, NEW op, Landed(p, op),
         \/ UNCHANGED draft /\ (draft.status = "PAUSED" => UNCHANGED season)
         \/ \A q \in Proc : tx[q].snap.updatedAt # draft'.updatedAt,
         \/ op \in Serializable
         \/ /\ UNCHANGED season
            /\ draft.status \in {"NOT_STARTED", "COMPLETE"} => draft'.status = draft.status
  PROVE  \A q \in Proc : PhaseSeen(tx[q])'
<1> SUFFICES ASSUME NEW q \in Proc, tx'[q].pc = "claim" PROVE PhaseSeen(tx[q])'
  BY DEF PhaseSeen
<1>1. tx[p] \in Tx /\ tx[q] \in Tx /\ PhaseSeen(tx[q])
      /\ (tx[p].pc # "idle" => After(tx[p]).pc # "claim")
  BY PhaseTypes, AfterTyped DEF PhaseInv, ClockInv, RequestsHonest
<1>2. q # p /\ tx'[q] = Spoils(op, tx[q])
  BY <1>1 DEF Landed
<1>3. /\ tx[q].pc = "claim" /\ tx'[q].op = tx[q].op /\ tx'[q].plan = tx[q].plan
      /\ tx'[q].snap = tx[q].snap
      /\ ~tx'[q].stale => ~tx[q].stale /\ ~Conflicts(op, tx[q].op)
  BY <1>1, <1>2 DEF Spoils, Tx
<1>4. ~tx'[q].stale /\ tx[q].op \in {"undo", "start", "phase"} =>
        UNCHANGED season /\ (draft.status \in {"NOT_STARTED", "COMPLETE"}
                               => draft'.status = draft.status)
  BY <1>3 DEF Conflicts, Serializable
<1>5. QED
  BY <1>1, <1>3, <1>4 DEF PhaseSeen, Live

-----------------------------------------------------------------------------
(* Requests arrive and read *)

\* A step that changes one request and no row.
LEMMA OneRequest ==
  ASSUME ClockInv, PhaseInv, NEW p \in Proc, UNCHANGED db, NEW r, PhaseSeen(r),
         tx' = [tx EXCEPT ![p] = r]
  PROVE  PhaseInv'
<1>1. \A q \in Proc : tx'[q] = IF q = p THEN r ELSE tx[q]
  BY DEF ClockInv, RowsTyped
<1>2. UNCHANGED <<season, draft>>
  BY DEF db
<1>3. AuctionOnlyInDraftPhase'
  BY <1>2 DEF PhaseInv, AuctionOnlyInDraftPhase, Live
<1>4. \A q \in Proc : PhaseSeen(tx[q])'
  BY <1>1, <1>2 DEF PhaseInv, PhaseSeen, Live
<1>5. QED
  BY <1>3, <1>4 DEF PhaseInv

\* A refused transaction ends.
LEMMA EndsQuietly ==
  ASSUME ClockInv, PhaseInv, NEW p \in Proc, tx[p].pc # "idle", UNCHANGED db,
         tx' = [tx EXCEPT ![p] = After(tx[p])]
  PROVE  PhaseInv'
<1>1. After(tx[p]).pc # "claim"
  BY AfterTyped, PhaseTypes DEF ClockInv, RequestsHonest
<1>2. QED
  BY <1>1, OneRequest DEF PhaseSeen

\* An arrival decides nothing yet.
LEMMA PhaseArrival ==
  ASSUME ClockInv, PhaseInv, NEW p \in Proc, Arrives(p)
  PROVE  PhaseInv'
<1>1. ASSUME NEW r, r.pc = "begin", Begins(p, r) PROVE PhaseInv'
  BY <1>1, OneRequest DEF Begins, PhaseSeen
<1>2. \A call, op : Request(call, op).pc = "begin"
  BY DEF Request, Idle
<1>3. CASE BidCall(p)
  BY <1>1, <1>3 DEF BidCall, Request, Idle
<1>4. CASE NominateCall(p)
  BY <1>1, <1>4 DEF NominateCall, Request, Idle
<1>5. CASE PollCall(p) \/ AdminCall(p)
  BY <1>1, <1>2, <1>5 DEF PollCall, AdminCall
<1>6. CASE UndoCall(p)
  BY <1>1, <1>6 DEF UndoCall, Request, Idle
<1>7. CASE MemberCall(p)
  BY <1>1, <1>7 DEF MemberCall, Request, Idle
<1>8. QED
  BY <1>3, <1>4, <1>5, <1>6, <1>7 DEF Arrives

\* A transaction that has decided saw the season as it is.
LEMMA PhaseReading ==
  ASSUME ClockInv, PhaseInv, NEW p \in Proc, ReadsRows(p)
  PROVE  PhaseInv'
<1> DEFINE me == tx[p]
<1>1. me \in Tx
  BY PhaseTypes
<1>2. ASSUME NEW op, NEW ok, NEW t, Reads(p, op, ok, t), ok => PhaseSeen(Decided(t))
      PROVE  PhaseInv'
  BY <1>2, OneRequest, EndsQuietly DEF Reads, Decided
<1>3. ASSUME NEW t \in Tx, t.op \notin {"undo", "start", "phase", "resume"}
      PROVE  PhaseSeen(Decided(t))
  BY <1>3 DEF PhaseSeen, Decided, Tx
<1>4. CASE BidRead(p)
  <2> DEFINE u == TeamCaptainedBy(me.by)
             t == [me EXCEPT !.team = u, !.view = NoRow, !.clock = ClockOf(me.amount, u)]
  <2>1. Decided(t).op = me.op
    BY <1>1 DEF Decided, Tx
  <2>2. me.op = "bid" => PhaseSeen(Decided(t))
    BY <2>1 DEF PhaseSeen
  <2> HIDE DEF t
  <2>3. QED
    BY <1>2, <1>4, <2>2 DEF BidRead, Reads, t
<1>5. CASE NominateRead(p)
  <2> DEFINE u == draft.nominatorTeam
             t == [me EXCEPT !.team = u, !.view = NoRow, !.clock = ClockOf(me.amount, u)]
  <2>1. Decided(t).op = me.op
    BY <1>1 DEF Decided, Tx
  <2>2. me.op = "nominate" => PhaseSeen(Decided(t))
    BY <2>1 DEF PhaseSeen
  <2>3. QED
    BY <1>2, <1>5, <2>2 DEF NominateRead, Reads
<1>6. CASE StalledRead(p)
  <2>1. ASSUME NEW ok, NEW t, Reads(p, "stalled", ok, t), t.op = me.op,
               DOMAIN t = DOMAIN me
        PROVE  PhaseInv'
    <3>1. me.op = "stalled" /\ Decided(t).op = "stalled"
      BY <1>1, <2>1 DEF Reads, Decided, Tx
    <3>2. QED
      BY <1>2, <2>1, <3>1 DEF PhaseSeen
  <2>2. QED
    BY <1>1, <1>6, <2>1 DEF StalledRead, Tx
<1>7. CASE ResumeRead(p)
  <2> DEFINE t == [me EXCEPT !.clock = IF draft.nominatedUser = None THEN "none"
                                       ELSE ClockOf(draft.currentBid, draft.bidTeam)]
  <2>1. Decided(t).op = me.op
    BY <1>1 DEF Decided, Tx
  <2>2. me.op = "resume" /\ Live => PhaseSeen(Decided(t))
    BY <2>1 DEF PhaseSeen
  <2>3. QED
    BY <1>2, <1>7, <2>2 DEF ResumeRead, Reads
<1>8. CASE UndoRead(p) \/ StartRead(p)
  <2>1. Live => season.active
    BY DEF Live
  <2>2. me.op = "undo" /\ Live => PhaseSeen(Decided(me))
    BY <1>1 DEF PhaseSeen, Decided, Tx
  <2>3. me.op = "start" /\ season.active => PhaseSeen(Decided(me))
    BY <1>1 DEF PhaseSeen, Decided, Tx
  <2>4. QED
    BY <1>2, <1>8, <2>2, <2>3 DEF UndoRead, StartRead, Reads
<1>9. CASE PhaseRead(p)
  <2> DEFINE t == [me EXCEPT !.plan = PhaseTarget]
  <2>1. Decided(t).op = me.op /\ Decided(t).plan = PhaseTarget
    BY <1>1 DEF Decided, Tx
  <2>2. PhaseTarget \in {"SIGNUPS", "REGULAR_SEASON"} =>
          draft.status \in {"NOT_STARTED", "COMPLETE"}
    BY DEF PhaseTarget
  <2>3. PhaseTarget \in {"SIGNUPS", "REGULAR_SEASON", "DRAFT", "none"}
    BY DEF PhaseTarget
  <2>4. me.op = "phase" /\ PhaseTarget # "none" => PhaseSeen(Decided(t))
    BY <2>1, <2>2, <2>3 DEF PhaseSeen
  <2>5. QED
    BY <1>2, <1>9, <2>4 DEF PhaseRead, Reads
<1>10. ASSUME NEW op, NEW ok, Reads(p, op, ok, me),
              op \notin {"undo", "start", "phase", "resume"}
       PROVE  PhaseInv'
  BY <1>1, <1>2, <1>3, <1>10 DEF Reads
<1>11. CASE SettleRead(p) \/ PauseRead(p) \/ VoidRead(p) \/ AbortRead(p)
  BY <1>10, <1>11 DEF SettleRead, PauseRead, VoidRead, AbortRead
<1>12. CASE ArchiveRead(p) \/ ReactivateRead(p) \/ WithdrawRead(p) \/ ReinstateRead(p)
  BY <1>10, <1>12 DEF ArchiveRead, ReactivateRead, WithdrawRead, ReinstateRead
<1>13. CASE SignRead(p) \/ ReleaseRead(p) \/ TransferRead(p)
  BY <1>10, <1>13 DEF SignRead, ReleaseRead, TransferRead
<1>14. QED
  BY <1>4, <1>5, <1>6, <1>7, <1>8, <1>9, <1>11, <1>12, <1>13 DEF ReadsRows

-----------------------------------------------------------------------------
(* Transactions write *)

\* A write that leaves the season alone, by an operation of either level.
LEMMA RowMoves ==
  ASSUME ClockInv, ClockInv', PhaseInv, NEW p \in Proc, NEW op, Landed(p, op),
         NEW row, Write(row), UNCHANGED season, AuctionOnlyInDraftPhase',
         \/ op \in Serializable
         \/ draft.status \in {"NOT_STARTED", "COMPLETE"} => draft'.status = draft.status
  PROVE  PhaseInv'
BY NewVersion, OthersSaw DEF PhaseInv

\* A running auction that goes on running, or comes to its end.
LEMMA GoesOnOrEnds ==
  ASSUME ClockInv, ClockInv', PhaseInv, NEW p \in Proc, NEW op, Landed(p, op),
         NEW row, Write(row), UNCHANGED season, draft.status = "IN_PROGRESS",
         row.status \in {"IN_PROGRESS", "COMPLETE"}, "status" \in DOMAIN row
  PROVE  PhaseInv'
<1>1. draft'.status = row.status
  BY DEF Write
<1>2. AuctionOnlyInDraftPhase'
  BY <1>1 DEF PhaseInv, AuctionOnlyInDraftPhase, Live
<1>3. QED
  BY <1>2, RowMoves

\* An operation that writes neither the season nor the Draft row.
LEMMA OtherRows ==
  ASSUME ClockInv, PhaseInv, NEW p \in Proc, NEW op, Landed(p, op),
         UNCHANGED <<season, draft>>
  PROVE  PhaseInv'
<1>1. AuctionOnlyInDraftPhase'
  BY DEF PhaseInv, AuctionOnlyInDraftPhase, Live
<1>2. QED
  BY <1>1, OthersSaw DEF PhaseInv

\* A cancelled or reactivated season's auction is parked.
LEMMA ParksTheAuction ==
  ASSUME ClockInv, ClockInv', PhaseInv, NEW p \in Proc, NEW op \in Serializable,
         Landed(p, op), Park, season'.status = season.status
  PROVE  PhaseInv'
<1>1. CASE draft.status \in {"IN_PROGRESS", "PAUSED"}
  <2> DEFINE row == [Parked(draft) EXCEPT !.status = "PAUSED"]
  <2>1. Write(row)
    BY <1>1 DEF Park
  <2>2. draft'.status = "PAUSED"
    BY <2>1, PhaseTypes DEF Write, Parked, DraftRow
  <2>3. season.status = "DRAFT"
    BY <1>1 DEF PhaseInv, AuctionOnlyInDraftPhase, Live
  <2>4. AuctionOnlyInDraftPhase'
    BY <2>2, <2>3 DEF AuctionOnlyInDraftPhase
  <2> HIDE DEF row
  <2>5. QED
    BY <2>1, <2>4, NewVersion, OthersSaw DEF PhaseInv
<1>2. CASE draft.status \notin {"IN_PROGRESS", "PAUSED"}
  <2>1. UNCHANGED draft
    BY <1>2 DEF Park
  <2>2. AuctionOnlyInDraftPhase'
    BY <1>2, <2>1 DEF AuctionOnlyInDraftPhase
  <2>3. QED
    BY <1>2, <2>1, <2>2, OthersSaw DEF PhaseInv
<1>3. QED
  BY <1>1, <1>2

\* Every second half keeps the invariant: the SERIALIZABLE ones because nothing
\* they read has changed, Resume because the row it read is the row.
LEMMA PhaseCommits ==
  ASSUME ClockInv, ClockInv', PhaseInv, NEW p \in Proc, Writes(p)
  PROVE  PhaseInv'
<1> DEFINE me == tx[p]
<1>1. /\ me \in Tx /\ Honest(me) /\ PhaseSeen(me) /\ AuctionOnlyInDraftPhase
      /\ draft \in DraftRow /\ season \in SeasonRow
  BY PhaseTypes DEF PhaseInv, ClockInv, RequestsHonest
<1>2. ASSUME NEW op, NEW claim, Lands(p, op, claim)
      PROVE  Landed(p, op) /\ me.pc = "claim" /\ me.op = op /\ claim /\ ~me.stale
  BY <1>2 DEF Lands, Landed
<1>3. CASE BidLand(p)
  BY <1>1, <1>2, <1>3, GoesOnOrEnds DEF BidLand, BidClaim, DraftRow
<1>4. CASE NominateLand(p)
  BY <1>1, <1>2, <1>4, GoesOnOrEnds DEF NominateLand, NominateClaim, OpenLot, DraftRow
<1>5. CASE StalledOpens(p) \/ StalledAdvances(p)
  BY <1>1, <1>2, <1>5, GoesOnOrEnds
  DEF StalledOpens, StalledAdvances, StalledClaim, OpenLot, DraftRow
<1>6. CASE StalledCompletes(p)
  BY <1>1, <1>2, <1>6, GoesOnOrEnds DEF StalledCompletes, StalledClaim, DraftRow
<1>7. ASSUME NEW money, NEW roster, Rotate(money, roster), Landed(p, "settle"),
             draft.status = "IN_PROGRESS", UNCHANGED season
      PROVE  PhaseInv'
  BY <1>1, <1>7, GoesOnOrEnds DEF Rotate, NoLot, DraftRow
<1>8. CASE SettleSells(p) \/ SettleVoids(p)
  BY <1>2, <1>7, <1>8 DEF SettleSells, SettleVoids, SettleClaim
<1>9. CASE PauseLand(p)
  <2>1. Landed(p, "pause") /\ draft.status = "IN_PROGRESS" /\ UNCHANGED season
        /\ Write([Parked(draft) EXCEPT !.status = "PAUSED"])
    BY <1>2, <1>9 DEF PauseLand, PauseClaim
  <2>2. draft'.status = "PAUSED"
    BY <1>1, <2>1 DEF Write, Parked, DraftRow
  <2>3. AuctionOnlyInDraftPhase'
    BY <1>1, <2>1, <2>2 DEF AuctionOnlyInDraftPhase, Live
  <2>4. QED
    BY <2>1, <2>3, RowMoves
<1>10. CASE ResumeLand(p)
  <2> DEFINE turn == [draft EXCEPT !.status = "IN_PROGRESS", !.nominationEndsAt = Now]
             block == [draft EXCEPT !.status = "IN_PROGRESS", !.bidEndsAt = Now,
                                    !.clock = me.clock]
  <2>1. /\ Landed(p, "resume") /\ me.pc = "claim" /\ me.op = "resume"
        /\ draft.status = "PAUSED" /\ draft.updatedAt = me.snap.updatedAt
        /\ Write(turn) \/ Write(block)
        /\ UNCHANGED season
    BY <1>2, <1>10 DEF ResumeLand, ResumeClaim
  <2>2. Live
    BY <1>1, <2>1 DEF PhaseSeen
  <2>3. AuctionOnlyInDraftPhase'
    <3>1. draft'.status = "IN_PROGRESS"
      BY <1>1, <2>1 DEF Write, DraftRow
    <3>2. QED
      BY <2>1, <2>2, <3>1 DEF AuctionOnlyInDraftPhase, Live
  <2> HIDE DEF turn, block
  <2>4. QED
    BY <2>1, <2>3, RowMoves
<1>11. CASE VoidLand(p)
  <2>1. Landed(p, "void") /\ UNCHANGED season
        /\ Write([NoLot(draft) EXCEPT !.nominationEndsAt = None])
    BY <1>2, <1>11 DEF VoidLand
  <2>2. draft'.status = draft.status
    BY <1>1, <2>1 DEF Write, NoLot, DraftRow
  <2>3. AuctionOnlyInDraftPhase'
    BY <1>1, <2>1, <2>2 DEF AuctionOnlyInDraftPhase, Live
  <2>4. QED
    BY <2>1, <2>2, <2>3, RowMoves
<1>12. CASE UndoLand(p)
  <2> DEFINE t == teamOf[me.user]
             held == [draft EXCEPT !.nominatorTeam = t, !.nominationEndsAt = None]
             turn == [draft EXCEPT !.status = "IN_PROGRESS", !.nominatorTeam = t,
                                   !.nominationEndsAt = Now]
  <2>1. /\ Landed(p, "undo") /\ me.pc = "claim" /\ me.op = "undo" /\ ~me.stale
        /\ (draft.status = "PAUSED" /\ Write(held)) \/ Write(turn)
        /\ UNCHANGED season
    BY <1>2, <1>12 DEF UndoLand
  <2>2. Live
    BY <1>1, <2>1 DEF PhaseSeen
  <2>3. AuctionOnlyInDraftPhase'
    BY <2>1, <2>2 DEF AuctionOnlyInDraftPhase, Live
  <2> HIDE DEF held, turn
  <2>4. QED
    BY <2>1, <2>3, RowMoves DEF Serializable
<1>13. CASE AbortLand(p)
  <2> DEFINE row == [NoRow EXCEPT !.updatedAt = draft.updatedAt]
  <2>1. Landed(p, "abort") /\ Write(row)
    BY <1>2, <1>13 DEF AbortLand
  <2>2. draft'.status = "NOT_STARTED"
    BY <2>1 DEF Write, NoRow
  <2>3. AuctionOnlyInDraftPhase'
    BY <2>2 DEF AuctionOnlyInDraftPhase
  <2> HIDE DEF row
  <2>4. QED
    BY <2>1, <2>3, NewVersion, OthersSaw DEF Serializable, PhaseInv
<1>14. CASE StartLand(p)
  <2> DEFINE row == [NoRow EXCEPT !.status = "IN_PROGRESS", !.nominatorTeam = Order[0],
                                  !.nominationEndsAt = Now]
  <2>1. /\ Landed(p, "start") /\ Write(row) /\ season' = [season EXCEPT !.status = "DRAFT"]
        /\ me.pc = "claim" /\ me.op = "start" /\ ~me.stale
    BY <1>2, <1>14 DEF StartLand
  <2>2. season'.active /\ season'.status = "DRAFT"
    BY <1>1, <2>1 DEF PhaseSeen, SeasonRow
  <2>3. AuctionOnlyInDraftPhase'
    BY <2>2 DEF AuctionOnlyInDraftPhase, Live
  <2> HIDE DEF row
  <2>4. QED
    BY <2>1, <2>3, NewVersion, OthersSaw DEF Serializable, PhaseInv
<1>15. CASE PhaseLand(p)
  <2>1. /\ Landed(p, "phase") /\ season' = [season EXCEPT !.status = me.plan]
        /\ UNCHANGED draft /\ season.active
        /\ me.pc = "claim" /\ me.op = "phase" /\ ~me.stale
        /\ (season.status = "DRAFT") <=> (me.plan # "DRAFT")
    BY <1>2, <1>15 DEF PhaseLand, PhaseClaim
  <2>2. season'.active /\ season'.status = me.plan
    BY <1>1, <2>1 DEF SeasonRow
  <2>3. CASE me.plan = "DRAFT"
    <3>1. draft.status \notin {"IN_PROGRESS", "PAUSED"}
      BY <1>1, <2>1, <2>3 DEF AuctionOnlyInDraftPhase, Live
    <3>2. AuctionOnlyInDraftPhase'
      BY <2>1, <3>1 DEF AuctionOnlyInDraftPhase
    <3>3. QED
      BY <2>1, <3>1, <3>2, OthersSaw DEF Serializable, PhaseInv
  <2>4. CASE me.plan # "DRAFT"
    <3>1. draft.status \in {"NOT_STARTED", "COMPLETE"}
      BY <1>1, <2>1, <2>4 DEF PhaseSeen
    <3>2. AuctionOnlyInDraftPhase'
      BY <2>1, <3>1 DEF AuctionOnlyInDraftPhase
    <3>3. QED
      BY <2>1, <3>1, <3>2, OthersSaw DEF Serializable, PhaseInv
  <2>5. QED
    BY <2>3, <2>4
<1>16. CASE ArchiveLand(p)
  <2>1. Landed(p, "archive") /\ Park /\ season'.status = season.status
    BY <1>1, <1>2, <1>16 DEF ArchiveLand, SeasonRow
  <2>2. QED
    BY <2>1, ParksTheAuction DEF Serializable
<1>17. CASE ReactivateLand(p)
  <2>1. Landed(p, "reactivate") /\ Park /\ season'.status = season.status
    BY <1>1, <1>2, <1>17 DEF ReactivateLand, SeasonRow
  <2>2. QED
    BY <2>1, ParksTheAuction DEF Serializable
<1>18. CASE WithdrawLand(p) \/ ReinstateLand(p)
  BY <1>2, <1>18, OtherRows DEF WithdrawLand, ReinstateLand
<1>19. CASE SignLand(p) \/ ReleaseLand(p) \/ TransferLand(p)
  BY <1>2, <1>19, OtherRows DEF SignLand, ReleaseLand, TransferLand
<1>20. CASE Refused(p)
  BY <1>20, EndsQuietly DEF Refused
<1>21. QED
  BY <1>3, <1>4, <1>5, <1>6, <1>8, <1>9, <1>10, <1>11, <1>12, <1>13, <1>14, <1>15, <1>16,
     <1>17, <1>18, <1>19, <1>20 DEF Writes

-----------------------------------------------------------------------------
(* The invariant *)

\* Nothing runs before Start.
LEMMA InitPhaseInv == Init => PhaseInv
<1> SUFFICES ASSUME Init PROVE PhaseInv
  OBVIOUS
<1>1. draft.status = "NOT_STARTED"
  BY DEF Init, NoRow
<1>2. \A q \in Proc : tx[q].pc = "idle"
  BY DEF Init, Idle
<1>3. QED
  BY <1>1, <1>2 DEF PhaseInv, AuctionOnlyInDraftPhase, PhaseSeen

\* The invariant is inductive, given the clocks'.
LEMMA StepPhaseInv == ClockInv /\ ClockInv' /\ PhaseInv /\ [Next]_vars => PhaseInv'
<1> SUFFICES ASSUME ClockInv, ClockInv', PhaseInv, [Next]_vars PROVE PhaseInv'
  OBVIOUS
<1>1. CASE Expire \/ UNCHANGED vars
  <2>1. UNCHANGED <<season, draft, tx>>
    BY <1>1 DEF Expire, vars, db
  <2>2. QED
    BY <2>1 DEF PhaseInv, PhaseSeen, AuctionOnlyInDraftPhase, Live
<1>2. CASE \E p \in Proc : Arrives(p) \/ ReadsRows(p) \/ Writes(p)
  BY <1>2, PhaseArrival, PhaseReading, PhaseCommits
<1>3. QED
  BY <1>1, <1>2 DEF Next

\* An auction runs only in the active season's Draft phase and is paused only in
\* that phase, whatever the phase buttons, Undo, Resume and the cancellation of
\* the season race with (draft-service.ts:784-787).
THEOREM AuctionStaysInDraftPhase == Spec => []AuctionOnlyInDraftPhase
<1>1. Init => PhaseInv
  BY InitPhaseInv
<1>2. ClockInv /\ ClockInv' /\ PhaseInv /\ [Next]_vars => PhaseInv'
  BY StepPhaseInv
<1>3. PhaseInv => AuctionOnlyInDraftPhase
  BY DEF PhaseInv
<1>4. QED
  BY <1>1, <1>2, <1>3, ClockInvariant, PTL DEF Spec

-----------------------------------------------------------------------------
(* The money: what a team has left and what its roster cost is what it      *)
(* started with.                                                           *)

Roster(t) == {u \in User : teamOf[u] = t}

\* What a roster cost is a sum of its players' prices.
LEMMA SpentIsSum ==
  ASSUME NEW t
  PROVE  Spent(t) = Sum(price, Roster(t)) /\ Spent(t)' = Sum(price', Roster(t)')
BY DEF Spent, Sum, Roster, MapThenSumSet, MapThenFoldSet

\* A roster is finite and its prices are numbers.
LEMMA RosterFinite ==
  ASSUME ClockInv, ClockInv', NEW t
  PROVE  /\ IsFiniteSet(Roster(t)) /\ \A u \in Roster(t) : price[u] \in Nat
         /\ IsFiniteSet(Roster(t)') /\ \A u \in Roster(t)' : price'[u] \in Nat
<1>1. Roster(t) \in SUBSET User /\ Roster(t)' \in SUBSET User
  BY DEF Roster
<1>2. price \in [User -> Nat] /\ price' \in [User -> Nat]
  BY DEF ClockInv, RowsTyped
<1>3. QED
  BY <1>1, <1>2, UserAssumption, FS_Subset

\* A team whose players and their prices stay has spent what it had.
LEMMA SpentStays ==
  ASSUME ClockInv, ClockInv', NEW t,
         Roster(t)' = Roster(t), \A u \in Roster(t) : price'[u] = price[u]
  PROVE  Spent(t)' = Spent(t)
BY SpentIsSum, RosterFinite, SumSame

\* A team that gains a player has spent that player's price more.
LEMMA SpentGains ==
  ASSUME ClockInv, ClockInv', NEW t, NEW u \in User,
         teamOf[u] # t, teamOf'[u] = t,
         \A v \in User \ {u} : teamOf'[v] = teamOf[v] /\ price'[v] = price[v]
  PROVE  Spent(t)' = price'[u] + Spent(t)
<1>1. Roster(t)' = Roster(t) \cup {u} /\ u \notin Roster(t)
  BY DEF Roster
<1>2. /\ IsFiniteSet(Roster(t)) /\ price'[u] \in Nat
      /\ \A v \in Roster(t) : price'[v] \in Nat /\ price[v] \in Nat /\ price'[v] = price[v]
  BY <1>1, RosterFinite DEF Roster
<1>3. Sum(price', Roster(t) \cup {u}) = price'[u] + Sum(price', Roster(t))
  BY <1>1, <1>2, SumAdd
<1>4. Sum(price', Roster(t)) = Sum(price, Roster(t))
  BY <1>2, SumSame
<1>5. QED
  BY <1>1, <1>3, <1>4, SpentIsSum

\* A team that loses a player has that player's price back.
LEMMA SpentLoses ==
  ASSUME ClockInv, ClockInv', NEW t, NEW u \in User,
         teamOf[u] = t, teamOf'[u] # t,
         \A v \in User \ {u} : teamOf'[v] = teamOf[v] /\ price'[v] = price[v]
  PROVE  Spent(t) = price[u] + Spent(t)'
<1>1. Roster(t) = Roster(t)' \cup {u} /\ u \notin Roster(t)'
  BY DEF Roster
<1>2. /\ IsFiniteSet(Roster(t)') /\ price[u] \in Nat
      /\ \A v \in Roster(t)' : price'[v] \in Nat /\ price[v] \in Nat /\ price'[v] = price[v]
  BY <1>1, RosterFinite DEF Roster
<1>3. Sum(price, Roster(t)' \cup {u}) = price[u] + Sum(price, Roster(t)')
  BY <1>1, <1>2, SumAdd
<1>4. Sum(price', Roster(t)') = Sum(price, Roster(t)')
  BY <1>2, SumSame
<1>5. QED
  BY <1>1, <1>3, <1>4, SpentIsSum

\* A team none of whose players has a price has spent nothing.
LEMMA SpentNothing ==
  ASSUME ClockInv, \A u \in User : price[u] = 0, NEW t
  PROVE  Spent(t) = 0
<1>1. Roster(t) \in SUBSET User /\ IsFiniteSet(Roster(t))
  BY UserAssumption, FS_Subset DEF Roster
<1>2. Sum(price, Roster(t)) = 0
  BY <1>1, SumZero
<1>3. QED
  BY <1>2, SpentIsSum

\* What a team has spent is a number.
LEMMA SpentType ==
  ASSUME ClockInv, NEW t
  PROVE  Spent(t) \in Nat
<1>1. Roster(t) \in SUBSET User /\ IsFiniteSet(Roster(t))
  BY UserAssumption, FS_Subset DEF Roster
<1>2. \A u \in Roster(t) : price[u] \in Nat
  BY <1>1 DEF ClockInv, RowsTyped
<1>3. QED
  BY <1>1, <1>2, SpentIsSum, SumType

-----------------------------------------------------------------------------
(* Steps that move no money *)

\* Rosters, prices and budgets stay.
LEMMA MoneyStays ==
  ASSUME ClockInv, ClockInv', MoneyInv, UNCHANGED <<budget, teamOf, price>>,
         draft'.status = "NOT_STARTED" => draft.status = "NOT_STARTED",
         draft'.nominatedUser # None => draft'.bidTeam \in Team
  PROVE  MoneyInv'
<1>1. ASSUME NEW t \in Team PROVE Spent(t)' = Spent(t)
  BY SpentStays DEF Roster
<1>2. MoneyConserved'
  BY <1>1 DEF MoneyInv, MoneyConserved
<1>3. QED
  BY <1>2 DEF MoneyInv

\* A running auction's row is written, its lot with a high bidder as before.
LEMMA RowMovesNoMoney ==
  ASSUME ClockInv, ClockInv', MoneyInv, UNCHANGED <<budget, teamOf, price>>,
         NEW row, Write(row), {"status", "nominatedUser", "bidTeam"} \subseteq DOMAIN row,
         row.status # "NOT_STARTED",
         row.nominatedUser # None => row.bidTeam \in Team
  PROVE  MoneyInv'
<1>1. /\ draft'.status = row.status /\ draft'.nominatedUser = row.nominatedUser
      /\ draft'.bidTeam = row.bidTeam
  BY DEF Write
<1>2. QED
  BY <1>1, MoneyStays

-----------------------------------------------------------------------------
(* Steps that move money *)

\* One player comes or goes.
LEMMA OneMoves ==
  ASSUME ClockInv, ClockInv', MoneyInv, NEW u \in User,
         \A v \in User \ {u} : teamOf'[v] = teamOf[v] /\ price'[v] = price[v],
         NEW t \in Team, budget' \in [Team -> Int],
         \A s \in Team \ {t} : budget'[s] = budget[s],
         \/ /\ teamOf[u] = None /\ teamOf'[u] = t
            /\ budget'[t] = budget[t] - price'[u]
            /\ draft.status # "NOT_STARTED" \/ price'[u] = 0
         \/ /\ teamOf[u] = t /\ teamOf'[u] = None /\ price'[u] = 0
            /\ budget'[t] = budget[t] + price[u],
         draft'.status # "NOT_STARTED" \/ UNCHANGED draft,
         draft'.nominatedUser # None => draft'.bidTeam \in Team
  PROVE  MoneyInv'
<1>1. t # None /\ price \in [User -> Nat] /\ price' \in [User -> Nat]
      /\ \A s \in Team : Spent(s) \in Nat /\ Spent(s)' \in Nat
                         /\ budget[s] + Spent(s) = StartBudget[s]
                         /\ StartBudget[s] \in Nat /\ budget[s] \in Int /\ budget'[s] \in Int
  <2>1. price \in [User -> Nat] /\ price' \in [User -> Nat]
    BY DEF ClockInv, RowsTyped
  <2>2. ASSUME NEW s \in Team PROVE Spent(s) \in Nat /\ Spent(s)' \in Nat
    BY SpentIsSum, RosterFinite, SumType
  <2>3. QED
    BY <2>1, <2>2, NoneApart, BudgetAssumption DEF MoneyInv, MoneyConserved
<1>2. ASSUME NEW s \in Team \ {t} PROVE Spent(s)' = Spent(s)
  <2>1. teamOf[u] # s /\ teamOf'[u] # s
    BY <1>1, NoneApart
  <2>2. Roster(s)' = Roster(s) /\ \A v \in Roster(s) : price'[v] = price[v]
    BY <2>1 DEF Roster
  <2>3. QED
    BY <2>2, SpentStays
<1>3. budget'[t] + Spent(t)' = StartBudget[t]
  <2>1. CASE teamOf[u] = None
    <3>1. Spent(t)' = price'[u] + Spent(t) /\ budget'[t] = budget[t] - price'[u]
      BY <1>1, <2>1, SpentGains
    <3>2. QED
      BY <1>1, <3>1
  <2>2. CASE teamOf[u] = t
    <3>1. Spent(t) = price[u] + Spent(t)' /\ budget'[t] = budget[t] + price[u]
      BY <1>1, <2>2, SpentLoses
    <3>2. QED
      BY <1>1, <3>1
  <2>3. QED
    BY <2>1, <2>2
<1>4. MoneyConserved'
  BY <1>1, <1>2, <1>3 DEF MoneyConserved
<1>5. /\ \A v \in User : teamOf'[v] = None => price'[v] = 0
      /\ draft'.status = "NOT_STARTED" => \A v \in User : price'[v] = 0
  BY <1>1 DEF MoneyInv
<1>6. QED
  BY <1>4, <1>5 DEF MoneyInv

\* The next turn, or the end: no lot is left on the block.
LEMMA RotateClears ==
  ASSUME ClockInv, NEW money, NEW roster, Rotate(money, roster), draft.status = "IN_PROGRESS"
  PROVE  draft'.status \in {"IN_PROGRESS", "COMPLETE"} /\ draft'.nominatedUser = None
<1>1. draft \in DraftRow
  BY DEF ClockInv, RowsTyped
<1>2. QED
  BY <1>1 DEF Rotate, NoLot, Write, DraftRow

\* Every second half conserves the money: Start finds the rosters without a
\* price, a sale finds its player on no roster, a refund is the price deleted.
LEMMA MoneyCommits ==
  ASSUME ClockInv, ClockInv', MoneyInv, NEW p \in Proc, Writes(p)
  PROVE  MoneyInv'
<1> DEFINE me == tx[p]
<1>1. /\ me \in Tx /\ Honest(me) /\ draft \in DraftRow
      /\ price \in [User -> Nat] /\ teamOf \in [User -> Orl(Team)]
      /\ budget \in [Team -> Int]
  BY DEF ClockInv, RowsTyped, RequestsHonest, MoneyInv
<1>2. draft.nominatedUser # None => draft.bidTeam \in Team
  BY DEF MoneyInv
<1>3. CASE BidLand(p)
  <2>1. me.team \in Team /\ draft.status = "IN_PROGRESS"
    BY <1>1, <1>3 DEF BidLand, Lands, BidClaim, Honest
  <2>2. QED
    BY <1>1, <1>3, <2>1, RowMovesNoMoney DEF BidLand, ledger, DraftRow
<1>4. ASSUME NEW u, NEW t \in Team, NEW a, NEW c, NEW by, OpenLot(u, t, a, c, by),
             draft.status = "IN_PROGRESS"
      PROVE  MoneyInv'
  BY <1>1, <1>4, RowMovesNoMoney DEF OpenLot, ledger, DraftRow
<1>5. CASE NominateLand(p)
  <2>1. me.team \in Team /\ draft.status = "IN_PROGRESS"
    BY <1>1, <1>5 DEF NominateLand, Lands, NominateClaim, Honest
  <2>2. QED
    BY <1>4, <1>5, <2>1 DEF NominateLand
<1>6. CASE StalledOpens(p)
  <2>1. me.team \in Team /\ draft.status = "IN_PROGRESS"
    BY <1>1, <1>6 DEF StalledOpens, Lands, StalledClaim, Honest
  <2>2. QED
    BY <1>4, <1>6, <2>1 DEF StalledOpens
<1>7. CASE StalledAdvances(p) \/ StalledCompletes(p)
  BY <1>1, <1>2, <1>7, RowMovesNoMoney
  DEF StalledAdvances, StalledCompletes, Lands, StalledClaim, ledger, DraftRow
<1>8. CASE SettleSells(p)
  <2> DEFINE u == draft.nominatedUser
             t == draft.bidTeam
  <2>1. /\ draft.status = "IN_PROGRESS" /\ u = me.snap.nominatedUser
        /\ me.pc = "claim" /\ me.op = "settle"
        /\ reg[u] = "ACTIVE" => teamOf[u] = None
        /\ reg[u] = "ACTIVE"
    BY <1>8 DEF SettleSells, Lands, SettleClaim, SameLot
  <2>2. /\ teamOf' = [teamOf EXCEPT ![u] = t]
        /\ price' = [price EXCEPT ![u] = draft.currentBid]
        /\ budget' = [budget EXCEPT ![t] = @ - draft.currentBid]
        /\ Rotate(budget', teamOf')
    BY <1>8 DEF SettleSells
  <2>3. u \in User /\ t \in Team /\ draft.currentBid \in Nat
    BY <1>1, <1>2, <2>1, NoneApart DEF Honest, DraftRow
  <2>4. draft'.status \in {"IN_PROGRESS", "COMPLETE"} /\ draft'.nominatedUser = None
    BY <2>1, <2>2, RotateClears
  <2>5. /\ \A v \in User \ {u} : teamOf'[v] = teamOf[v] /\ price'[v] = price[v]
        /\ \A s \in Team \ {t} : budget'[s] = budget[s]
        /\ budget' \in [Team -> Int] /\ teamOf'[u] = t
        /\ budget'[t] = budget[t] - price'[u]
    BY <1>1, <2>2, <2>3
  <2> HIDE DEF u, t
  <2>6. QED
    BY <2>1, <2>3, <2>4, <2>5, OneMoves
<1>9. CASE SettleVoids(p)
  <2>1. draft.status = "IN_PROGRESS" /\ UNCHANGED <<budget, teamOf, price>>
        /\ Rotate(budget, teamOf)
    BY <1>9 DEF SettleVoids, Lands, SettleClaim, ledger
  <2>2. QED
    BY <2>1, RotateClears, MoneyStays
<1>10. CASE PauseLand(p) \/ VoidLand(p)
  BY <1>1, <1>2, <1>10, RowMovesNoMoney
  DEF PauseLand, VoidLand, VoidClaim, Lands, Parked, NoLot, ledger, DraftRow
<1>11. CASE ResumeLand(p)
  BY <1>1, <1>2, <1>11, RowMovesNoMoney DEF ResumeLand, ledger, DraftRow
<1>12. ASSUME NEW u \in User, NEW t \in Team, teamOf[u] = t, LeavesTeam(u, t),
              draft'.status # "NOT_STARTED" \/ UNCHANGED draft,
              draft'.nominatedUser # None => draft'.bidTeam \in Team
       PROVE  MoneyInv'
  <2>1. /\ \A v \in User \ {u} : teamOf'[v] = teamOf[v] /\ price'[v] = price[v]
        /\ \A s \in Team \ {t} : budget'[s] = budget[s]
        /\ budget' \in [Team -> Int] /\ budget'[t] = budget[t] + price[u]
        /\ teamOf'[u] = None /\ price'[u] = 0
    BY <1>1, <1>12 DEF LeavesTeam
  <2>2. QED
    BY <1>12, <2>1, OneMoves
<1>13. CASE UndoLand(p)
  <2> DEFINE u == me.user
             t == teamOf[u]
  <2>1. /\ u \in Purchases /\ draft.nominatedUser = None /\ LeavesTeam(u, t)
        /\ \/ draft.status = "PAUSED"
                /\ Write([draft EXCEPT !.nominatorTeam = t, !.nominationEndsAt = None])
           \/ Write([draft EXCEPT !.status = "IN_PROGRESS", !.nominatorTeam = t,
                                  !.nominationEndsAt = Now])
    BY <1>13 DEF UndoLand, Lands, UndoClaim
  <2>2. u \in User /\ t \in Team
    BY <1>1, <2>1 DEF Purchases, Orl
  <2>3. draft'.status # "NOT_STARTED" /\ draft'.nominatedUser = None
    <3> HIDE DEF u, t
    <3>1. QED
      BY <1>1, <2>1 DEF Write, DraftRow
  <2> HIDE DEF u
  <2>4. QED
    BY <1>12, <2>1, <2>2, <2>3
<1>14. CASE ReleaseLand(p)
  <2>1. /\ LeavesTeam(me.user, me.team) /\ teamOf[me.user] = me.team
        /\ UNCHANGED draft /\ me.op = "release" /\ me.pc = "claim"
    BY <1>14 DEF ReleaseLand, Lands, ReleaseClaim
  <2>2. me.user \in User /\ me.team \in Team
    BY <1>1, <2>1 DEF Honest, NamesAUser, NamesATeam
  <2>3. QED
    BY <1>2, <1>12, <2>1, <2>2
<1>15. CASE AbortLand(p)
  <2>1. /\ draft' = [[NoRow EXCEPT !.updatedAt = draft.updatedAt] EXCEPT !.updatedAt = Now]
        /\ budget' = [t \in Team |-> budget[t] + Spent(t)]
        /\ price' = [u \in User |-> 0]
    BY <1>15 DEF AbortLand, Write
  <2>2. draft'.nominatedUser = None
    BY <2>1 DEF NoRow
  <2>3. \A t \in Team : Spent(t) \in Nat
    BY SpentType
  <2>4. ASSUME NEW t \in Team PROVE Spent(t)' = 0
    <3>1. Sum(price', Roster(t)') = 0
      BY <2>1, RosterFinite, SumZero DEF Roster
    <3>2. QED
      BY <3>1, SpentIsSum
  <2>5. MoneyConserved'
    BY <1>1, <2>1, <2>3, <2>4, BudgetAssumption DEF MoneyInv, MoneyConserved
  <2>6. budget' \in [Team -> Int]
    BY <1>1, <2>1, <2>3
  <2>7. QED
    BY <2>1, <2>2, <2>5, <2>6 DEF MoneyInv
<1>16. CASE StartLand(p)
  <2>1. /\ draft' = [[NoRow EXCEPT !.status = "IN_PROGRESS", !.nominatorTeam = Order[0],
                                   !.nominationEndsAt = Now] EXCEPT !.updatedAt = Now]
        /\ budget' = StartBudget /\ UNCHANGED <<teamOf, price>>
        /\ draft.status = "NOT_STARTED"
    BY <1>16 DEF StartLand, Write, Lands, StartClaim
  <2>2. draft'.nominatedUser = None /\ draft'.status = "IN_PROGRESS"
    BY <2>1 DEF NoRow
  <2>3. ASSUME NEW t \in Team PROVE Spent(t)' = 0
    <3>1. Spent(t) = 0
      BY <2>1, SpentNothing DEF MoneyInv
    <3>2. Spent(t)' = Spent(t)
      BY <2>1, SpentStays DEF Roster
    <3>3. QED
      BY <3>1, <3>2
  <2>4. MoneyConserved' /\ budget' \in [Team -> Int]
    BY <2>1, <2>3, BudgetAssumption DEF MoneyConserved
  <2>5. QED
    BY <2>1, <2>2, <2>4 DEF MoneyInv
<1>17. CASE PhaseLand(p) \/ WithdrawLand(p) \/ ReinstateLand(p) \/ TransferLand(p)
            \/ Refused(p)
  <2>1. UNCHANGED <<budget, teamOf, price, draft>>
    BY <1>17 DEF PhaseLand, WithdrawLand, ReinstateLand, TransferLand, Refused, ledger, db
  <2>2. QED
    BY <1>2, <2>1, MoneyStays
<1>18. CASE ArchiveLand(p) \/ ReactivateLand(p)
  <2>1. UNCHANGED <<budget, teamOf, price>> /\ Park
    BY <1>18 DEF ArchiveLand, ReactivateLand, ledger
  <2>2. CASE UNCHANGED draft
    BY <1>2, <2>1, <2>2, MoneyStays
  <2>3. CASE Write([Parked(draft) EXCEPT !.status = "PAUSED"])
    BY <1>1, <1>2, <2>1, <2>3, RowMovesNoMoney DEF Parked, DraftRow
  <2>4. QED
    BY <2>1, <2>2, <2>3 DEF Park
<1>19. CASE SignLand(p)
  <2>1. /\ teamOf' = [teamOf EXCEPT ![me.user] = me.team] /\ teamOf[me.user] = None
        /\ UNCHANGED <<budget, price, draft>> /\ me.op = "sign" /\ me.pc = "claim"
    BY <1>19 DEF SignLand, Lands, SignClaim
  <2>2. me.user \in User /\ me.team \in Team
    BY <1>1, <2>1 DEF Honest, NamesAUser, NamesATeam
  <2>3. price[me.user] = 0
    BY <2>1, <2>2 DEF MoneyInv
  <2>4. /\ teamOf'[me.user] = me.team /\ price'[me.user] = 0
        /\ \A v \in User \ {me.user} : teamOf'[v] = teamOf[v] /\ price'[v] = price[v]
        /\ budget'[me.team] = budget[me.team] - price'[me.user] /\ budget' \in [Team -> Int]
    BY <1>1, <2>1, <2>2, <2>3
  <2>5. \A s \in Team \ {me.team} : budget'[s] = budget[s]
    BY <2>1
  <2> HIDE DEF me
  <2>6. QED
    BY <1>2, <2>1, <2>2, <2>4, <2>5, OneMoves
<1>20. QED
  BY <1>3, <1>5, <1>6, <1>7, <1>8, <1>9, <1>10, <1>11, <1>13, <1>14, <1>15, <1>16,
     <1>17, <1>18, <1>19 DEF Writes

-----------------------------------------------------------------------------
(* The invariant *)

\* A request that arrives or reads leaves every row as it is.
LEMMA OnlyWritesMove ==
  ASSUME NEW p, Arrives(p) \/ ReadsRows(p)
  PROVE  UNCHANGED db
<1>1. CASE Arrives(p)
  BY <1>1 DEF Arrives, BidCall, NominateCall, PollCall, AdminCall, UndoCall, MemberCall, Begins
<1>2. CASE ReadsRows(p)
  BY <1>2
  DEF ReadsRows, BidRead, NominateRead, SettleRead, StalledRead, PauseRead, ResumeRead,
      VoidRead, UndoRead, AbortRead, StartRead, PhaseRead, ArchiveRead, ReactivateRead,
      WithdrawRead, ReinstateRead, SignRead, ReleaseRead, TransferRead, Reads
<1>3. QED
  BY <1>1, <1>2

\* Nobody has a price before Start.
LEMMA InitMoneyInv == Init /\ ClockInv => MoneyInv
<1> SUFFICES ASSUME Init, ClockInv PROVE MoneyInv
  OBVIOUS
<1>1. price = [u \in User |-> 0] /\ budget = StartBudget
  BY DEF Init
<1>2. draft.nominatedUser = None
  BY DEF Init, NoRow
<1>3. \A t \in Team : Spent(t) = 0
  BY <1>1, SpentNothing
<1>4. QED
  BY <1>1, <1>2, <1>3, BudgetAssumption DEF MoneyInv, MoneyConserved

\* The invariant is inductive, given the rows' types.
LEMMA StepMoneyInv == ClockInv /\ ClockInv' /\ MoneyInv /\ [Next]_vars => MoneyInv'
<1> SUFFICES ASSUME ClockInv, ClockInv', MoneyInv, [Next]_vars PROVE MoneyInv'
  OBVIOUS
<1>1. CASE Expire \/ UNCHANGED vars \/ \E p \in Proc : Arrives(p) \/ ReadsRows(p)
  <2>1. UNCHANGED <<budget, teamOf, price, draft>>
    BY <1>1, OnlyWritesMove DEF Expire, vars, db, ledger
  <2>2. QED
    BY <2>1, MoneyStays DEF MoneyInv
<1>2. CASE \E p \in Proc : Writes(p)
  BY <1>2, MoneyCommits
<1>3. QED
  BY <1>1, <1>2 DEF Next

\* No money appears or vanishes, through sales, undos, releases, aborts and
\* signings in any order and number (draft-service.ts:187-190, 898-900, 1154-1157,
\* admin-roster.ts:1491-1493).
THEOREM MoneyIsConserved == Spec => []MoneyConserved
<1>1. Init /\ ClockInv => MoneyInv
  BY InitMoneyInv
<1>2. ClockInv /\ ClockInv' /\ MoneyInv /\ [Next]_vars => MoneyInv'
  BY StepMoneyInv
<1>3. MoneyInv => MoneyConserved
  BY DEF MoneyInv
<1>4. QED
  BY <1>1, <1>2, <1>3, ClockInvariant, PTL DEF Spec
=============================================================================
