------------------------------- MODULE Auction -------------------------------
(***************************************************************************)
(* What the draft promises, one indivisible step per operation: every bid, *)
(* nomination, sale and correction is judged by the money and the rosters  *)
(* of the moment it takes effect.  There are no clocks, requests, versions *)
(* or transactions here; DraftAuction implements this module with them.    *)
(***************************************************************************)
EXTENDS AuctionRules

CONSTANTS User,        \* everyone signed up for the season
          None,        \* nobody, no team, no lot
          StartBudget, \* what each team starts with
          InitOwner    \* the rosters before the auction: the captains

VARIABLES
  phase,    \* "closed" before Start, then "running", "held" or "over"
  turn,     \* the team to nominate
  lot,      \* the lot on the block, or NoLot
  money,    \* what each team has left
  owner,    \* the team a user plays for
  paid,     \* what that team paid for them
  signups   \* the users with an active signup

vars == <<phase, turn, lot, money, owner, paid, signups>>
rosters == <<money, owner, paid, signups>>

NoLot == [user |-> None, price |-> 0, high |-> None]

Seats(own) == [t \in Team |-> Cardinality({u \in User : own[u] = t})]
Free(own)  == {u \in signups : own[u] = None}
Worth(t)   == MaxBid(money[t], Seats(owner)[t])

\* Nobody can take a turn, or nobody is left to nominate.
Done(cash, own, last) ==
  ~SomeoneCanNominate(cash, Seats(own), last) \/ Free(own) = {}

NextTurn(cash, own) ==
  IF Done(cash, own, turn)
  THEN phase' = "over" /\ turn' = turn
  ELSE phase' = "running" /\ turn' = NextNominator(cash, Seats(own), turn)

-----------------------------------------------------------------------------
Start ==
  /\ phase = "closed" /\ phase' = "running" /\ turn' = Order[0]
  /\ money' = StartBudget
  /\ UNCHANGED <<lot, owner, paid, signups>>

\* The team on turn puts a player up at a price it can afford.
Open(u) ==
  /\ phase = "running" /\ lot = NoLot /\ owner[u] = None
  /\ \E a \in MinBid .. Worth(turn) : lot' = [user |-> u, price |-> a, high |-> turn]
  /\ UNCHANGED <<phase, turn, rosters>>

\* Another team tops the price, within what it can afford now.
Raise(t) ==
  /\ phase = "running" /\ lot # NoLot /\ t # lot.high
  /\ \E a \in lot.price + 1 .. Worth(t) : lot' = [lot EXCEPT !.price = a, !.high = t]
  /\ UNCHANGED <<phase, turn, rosters>>

Sell ==
  /\ phase = "running" /\ lot # NoLot /\ lot.user \in signups
  /\ owner' = [owner EXCEPT ![lot.user] = lot.high]
  /\ paid' = [paid EXCEPT ![lot.user] = lot.price]
  /\ money' = [money EXCEPT ![lot.high] = @ - lot.price]
  /\ lot' = NoLot /\ NextTurn(money', owner')
  /\ UNCHANGED signups

\* The lot leaves the block and nobody pays.
Drop ==
  /\ lot # NoLot /\ lot' = NoLot
  /\ \/ phase = "running" /\ lot.user \notin signups /\ NextTurn(money, owner)
     \/ phase = "held" /\ UNCHANGED <<phase, turn>>
  /\ UNCHANGED rosters

\* A team that cannot take its turn is passed over.
Pass ==
  /\ phase = "running" /\ lot = NoLot
  /\ ~CanNominate(money[turn], Seats(owner)[turn])
  /\ SomeoneCanNominate(money, Seats(owner), turn)
  /\ turn' = NextNominator(money, Seats(owner), turn)
  /\ UNCHANGED <<phase, lot, rosters>>

Close ==
  /\ phase = "running" /\ lot = NoLot /\ Done(money, owner, turn)
  /\ phase' = "over"
  /\ UNCHANGED <<turn, lot, rosters>>

Hold   == phase = "running" /\ phase' = "held" /\ UNCHANGED <<turn, lot, rosters>>
Resume == phase = "held" /\ phase' = "running" /\ UNCHANGED <<turn, lot, rosters>>

\* The sale of u is taken back; its buyer is on turn, and an auction that was
\* over runs again.
TakeBack(u) ==
  /\ phase # "closed" /\ lot = NoLot /\ owner[u] # None /\ paid[u] > 0
  /\ owner' = [owner EXCEPT ![u] = None]
  /\ paid' = [paid EXCEPT ![u] = 0]
  /\ money' = [money EXCEPT ![owner[u]] = @ + paid[u]]
  /\ turn' = owner[u]
  /\ phase' = IF phase = "held" THEN "held" ELSE "running"
  /\ UNCHANGED <<lot, signups>>

\* Everything is undone but one player a team, who costs nothing.
Scrap(stays) ==
  /\ phase # "closed" /\ \A t \in Team : owner[stays[t]] = t
  /\ phase' = "closed" /\ turn' = None /\ lot' = NoLot
  /\ owner' = [u \in User |-> IF \E t \in Team : stays[t] = u THEN owner[u] ELSE None]
  /\ paid' = [u \in User |-> 0]
  /\ money' = StartBudget
  /\ UNCHANGED signups

-----------------------------------------------------------------------------
(* Signups and rosters change by hand only while no auction runs; a signup   *)
(* may still be withdrawn under a running one, by a free agent or, late, by  *)
(* a player just bought, never by a captain or a player signed by hand.      *)

Signup(u) ==
  /\ \/ /\ u \in signups /\ (owner[u] = None \/ paid[u] > 0)
        /\ signups' = signups \ {u}
     \/ phase \in {"closed", "over"} /\ signups' = signups \cup {u}
  /\ UNCHANGED <<phase, turn, lot, money, owner, paid>>

Sign(u, t) ==
  /\ phase = "over" /\ owner[u] = None /\ u \in signups /\ Seats(owner)[t] < TeamSize
  /\ owner' = [owner EXCEPT ![u] = t]
  /\ UNCHANGED <<phase, turn, lot, money, paid, signups>>

Release(u) ==
  /\ phase = "over" /\ owner[u] # None
  /\ owner' = [owner EXCEPT ![u] = None]
  /\ paid' = [paid EXCEPT ![u] = 0]
  /\ money' = [money EXCEPT ![owner[u]] = @ + paid[u]]
  /\ UNCHANGED <<phase, turn, lot, signups>>

-----------------------------------------------------------------------------
Init ==
  /\ phase = "closed" /\ turn = None /\ lot = NoLot
  /\ money = StartBudget
  /\ owner = InitOwner
  /\ paid = [u \in User |-> 0]
  /\ signups = User

Next ==
  \/ Start \/ Sell \/ Drop \/ Pass \/ Close \/ Hold \/ Resume
  \/ \E u \in User :
       \/ Open(u) \/ TakeBack(u) \/ Signup(u) \/ Release(u)
       \/ \E t \in Team : Sign(u, t)
  \/ \E t \in Team : Raise(t)
  \/ \E stays \in [Team -> User] : Scrap(stays)

Spec == Init /\ [][Next]_vars
=============================================================================
