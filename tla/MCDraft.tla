------------------------------ MODULE MCDraft ------------------------------
(***************************************************************************)
(* Small instances of the auction draft.  A behaviour has one workload, the *)
(* calls its requests are made of, so that one run covers several           *)
(* combinations of operations without their product.                       *)
(***************************************************************************)
EXTENDS DraftProperties, TLC

CONSTANTS Workloads, t1, t2, c1, c2, u1, u2, u3, p1, p2

VARIABLE workload  \* the calls of this behaviour

Teams     == {t1, t2}
InOrder   == 0 :> t1 @@ 1 :> t2
Captains  == t1 :> c1 @@ t2 :> c2
TwoFree   == {c1, c2, u1, u2}
ThreeFree == TwoFree \cup {u3}
Budget2   == [t \in Teams |-> 2]
Budget43  == t1 :> 4 @@ t2 :> 3
Flat2     == [u \in TwoFree |-> 0]
Flat3     == [u \in ThreeFree |-> 0]
Stamps1   == 1 .. 10
Stamps2   == 1 .. 16

Bidding     == {"start", "bid", "nominate", "poll"}
Nominations == {"start", "nominate", "poll"}
Voids       == {"start", "bid", "poll", "pause", "resume", "void"}
Undos       == {"start", "poll", "pause", "resume", "void", "undo"}
UndoneBids  == {"start", "bid", "poll", "pause", "void", "undo"}
Leaving     == {"start", "poll", "undo", "withdraw"}
Signings    == {"start", "poll", "withdraw", "reinstate", "release", "sign"}
LateSales   == {"start", "poll", "undo", "withdraw", "sign"}
RosterMoves == {"start", "poll", "undo", "phase", "release", "sign"}
Captaincies == {"start", "poll", "undo", "abort", "transfer"}
Restarts    == {"start", "poll", "pause", "resume", "abort", "phase"}
SeasonMoves == {"start", "poll", "pause", "resume", "undo", "phase", "archive", "reactivate"}
Reopening   == {"start", "poll", "undo", "release", "transfer"}

Bids      == {Bidding}
Lots      == {Nominations, Voids, Undos, UndoneBids, Leaving}
Rosters   == {Signings, LateSales, RosterMoves, Captaincies, Restarts, SeasonMoves}
Reopens   == {Reopening}
LotCalls  == UNION Lots
AllCalls  == UNION (Bids \cup Lots \cup Rosters)

\* A request that arrives is one of the workload's.
MCInit == Init /\ workload \in Workloads
MCNext ==
  /\ \/ Expire
     \/ \E p \in Proc : ReadsRows(p) \/ Writes(p)
     \/ \E p \in Proc : Arrives(p) /\ tx'[p].call \in workload
  /\ UNCHANGED workload
MCSpec == MCInit /\ [][MCNext]_<<vars, workload>>
MCFairSpec == MCSpec /\ Fairness

\* Free agents of one rating are interchangeable, and so are requests.
OneProc   == {p1}
TwoProcs  == {p1, p2}
SwapProcs == Permutations(TwoProcs)
Swap      == Permutations({u1, u2}) \cup SwapProcs
Swap3     == Permutations({u1, u2, u3})
=============================================================================
