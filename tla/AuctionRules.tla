---------------------------- MODULE AuctionRules ----------------------------
(***************************************************************************)
(* The pure rules of the auction draft (src/src/lib/draft.ts): who needs a *)
(* player, what a team may spend, which bids are legal, whose turn it is.  *)
(* Every operator takes the money and the roster counts it judges by, so   *)
(* the modules above apply them to the rows a transaction read.            *)
(***************************************************************************)
EXTENDS Integers, FiniteSets

CONSTANTS Team,      \* the season's teams
          TeamSize,  \* seats on a roster, the captain's included
          MinBid,    \* DEFAULTS.MIN_BID
          Order      \* Order[i] is the team at place i of the draft order

N == Cardinality(Team)

ASSUME TeamAssumption  == IsFiniteSet(Team) /\ Team # {}
ASSUME SizeAssumption  == TeamSize \in Nat \ {0}
ASSUME MoneyAssumption == MinBid \in Nat \ {0}
ASSUME OrderAssumption == /\ Order \in [0 .. N - 1 -> Team]
                          /\ \A t \in Team : \E i \in 0 .. N - 1 : Order[i] = t

-----------------------------------------------------------------------------
TeamNeed(count) == IF count < TeamSize THEN TeamSize - count ELSE 0

\* The most a team may spend on one player while MinBid stays reserved for
\* each other open seat.
MaxBid(money, count) ==
  IF TeamNeed(count) = 0 THEN 0
  ELSE LET spare == money - (TeamNeed(count) - 1) * MinBid
       IN  IF spare > 0 THEN spare ELSE 0

CanNominate(money, count) ==
  TeamNeed(count) > 0 /\ MaxBid(money, count) >= MinBid

\* Mutant: the cap forgets the seats still to fill.
CanBidWithoutReserve(money, count, amount, currentBid) ==
  TeamNeed(count) > 0 /\ amount >= MinBid /\ amount > currentBid /\ amount <= money
CanBid(money, count, amount, currentBid) ==
  /\ TeamNeed(count) > 0
  /\ amount >= MinBid
  /\ amount > currentBid
  /\ amount <= MaxBid(money, count)

CanTopPrice(money, count, price) ==
  TeamNeed(count) > 0 /\ MaxBid(money, count) > price

\* Some team other than the high bidder can still top the price.
LotContested(budget, count, price, high) ==
  \E t \in Team \ {high} : CanTopPrice(budget[t], count[t], price)

\* Which of the two bid clocks a lot standing at price is given.
BidClock(budget, count, price, high) ==
  IF LotContested(budget, count, price, high) THEN "full" ELSE "short"

-----------------------------------------------------------------------------
Place(t) == CHOOSE i \in 0 .. N - 1 : Order[i] = t

\* The places 1..N after the last nominator's whose team can take the clock.
AbleSteps(budget, count, last) ==
  {k \in 1 .. N : LET t == Order[(Place(last) + k) % N]
                  IN  CanNominate(budget[t], count[t])}

SomeoneCanNominate(budget, count, last) == AbleSteps(budget, count, last) # {}

\* The first of them: the rotation skips the full and the broke.
NextNominator(budget, count, last) ==
  LET able == AbleSteps(budget, count, last)
      k    == CHOOSE j \in able : \A i \in able : j <= i
  IN  Order[(Place(last) + k) % N]
=============================================================================
