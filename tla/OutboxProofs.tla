---------------------------- MODULE OutboxProofs ----------------------------
(***************************************************************************)
(* The league channel's queue, for any number of delivery passes, of       *)
(* automation passes, nights and posts.                                    *)
(*                                                                         *)
(* Of each row the invariant is an account: what Discord has heard, the    *)
(* passes that may still make it hear the row, and whether the row may be  *)
(* leased again, are paid for by one and the faults the row has met.  Of   *)
(* each night it is the history of its marker: the one event its posts     *)
(* name, until a change of the night takes the marker away.                *)
(***************************************************************************)
EXTENDS OutboxProperties, FiniteSetTheorems, TLAPS

Live    == {"leased", "checked", "yes", "no", "never"}
Aiming  == {"picked"} \cup Live
Risky   == {"leased", "checked"}
Working == [pc : {"idle", "swept"} \cup Aiming, row : 0 .. MaxRows]
ProdPc  == {"idle", "claim", "reclaim", "reread", "send", "sent", "failed"}
Producing == [pc : ProdPc, rev : Night, event : Event, seen : Marker]

Typed ==
  /\ rev \in 0 .. MaxRev /\ phase \in {"setup", "live", "over"} /\ past \subseteq Night
  /\ marker \in [Night -> Marker] /\ events \in Event
  /\ rows \in Seq(Row) /\ Len(rows) <= MaxRows
  /\ heard \in Seq(Nat) /\ Len(heard) = Len(rows)
  /\ faults \in [0 .. Len(rows) -> Nat]
  /\ admin \in Snapshot
  /\ prod \in [Producer -> Producing] /\ work \in [Worker -> Working]

-----------------------------------------------------------------------------
(* One row, the passes at it and what it has met *)

Pending(row)   == row.status \in {"PENDING", "SENDING"}
\* w has the row under a lease that still runs.
Holder(row, w) == row.status = "SENDING" /\ row.token = w /\ ~row.lapsed
At(wk, k, pcs) == {w \in Worker : wk[w].row = k /\ wk[w].pc \in pcs}
\* A pass holds the row that has not been told to try again later.
Kept(row, wk, k) == \E w \in At(wk, k, Live \ {"no"}) : Holder(row, w)
Reserve(row, wk, k) == IF Pending(row) /\ ~Kept(row, wk, k) THEN 1 ELSE 0
Afford(row, h, f, wk, k) ==
  LET aimed == At(wk, k, Risky) IN
  IsFiniteSet(aimed) /\ h + Cardinality(aimed) + Reserve(row, wk, k) <= 1 + f
\* A row no fault touched is in the hands of who leased it, and says what it met.
Tells(row, h, f, wk, k) == f = 0 =>
  /\ row.status = "SENDING" => \E w \in At(wk, k, Live) : Holder(row, w)
  /\ \A w \in At(wk, k, Live) : Holder(row, w)
  /\ h = IF row.status = "SENT" \/ At(wk, k, {"yes"}) # {} THEN 1 ELSE 0
Sound(row, h, f, wk, k) == Afford(row, h, f, wk, k) /\ Tells(row, h, f, wk, k)

\* A pass aims at a row that is there and before which nothing waits.
InLine(wk, rs) ==
  \A w \in Worker : /\ wk[w].row <= Len(rs)
                    /\ wk[w].pc \in Aiming =>
                         wk[w].row # 0 /\ \A i \in 1 .. wk[w].row - 1 : ~Pending(rs[i])
\* Where no pass is slower than its lease, one that delivers holds its row.
Steady(wk, rs) == "slow" \notin Faults =>
  \A w \in Worker : wk[w].pc \in Live => Holder(rs[wk[w].row], w)

DeliveryInv ==
  /\ \A k \in 1 .. Len(rows) : Sound(rows[k], heard[k], faults[k], work, k)
  /\ InLine(work, rows) /\ Steady(work, rows)

-----------------------------------------------------------------------------
(* Types *)

LEMMA Bounds ==
  ASSUME OutboxAssumption
  PROVE  MaxRev \in Nat /\ MaxRev >= 1 /\ MaxRows \in Nat /\ MaxEvents \in Nat /\ MaxFaults \in Nat
         /\ None \notin Worker /\ None \notin Producer
BY DEF OutboxAssumption

\* What the types say of the rows, place by place.
LEMMA Shape ==
  ASSUME Typed
  PROVE  /\ Len(rows) \in Nat /\ DOMAIN rows = 1 .. Len(rows) /\ DOMAIN heard = 1 .. Len(rows)
         /\ DOMAIN faults = 0 .. Len(rows) /\ faults[0] \in Nat
         /\ \A k \in 1 .. Len(rows) : rows[k] \in Row /\ heard[k] \in Nat /\ faults[k] \in Nat
<1>1. /\ rows \in Seq(Row) /\ heard \in Seq(Nat) /\ Len(heard) = Len(rows)
      /\ faults \in [0 .. Len(rows) -> Nat]
  BY DEF Typed
<1>2. ASSUME NEW k \in 1 .. Len(rows) PROVE rows[k] \in Row
  BY <1>1
<1>3. ASSUME NEW k \in 1 .. Len(rows) PROVE heard[k] \in Nat /\ faults[k] \in Nat
  BY <1>1
<1>4. Len(rows) \in Nat /\ DOMAIN rows = 1 .. Len(rows)
  BY <1>1
<1>5. DOMAIN heard = 1 .. Len(rows)
  BY <1>1
<1>6. QED
  BY <1>1, <1>2, <1>3, <1>4, <1>5

LEMMA IsSeq ==
  ASSUME NEW S, NEW n \in Nat, NEW f \in [1 .. n -> S]
  PROVE  f \in Seq(S) /\ Len(f) = n
OBVIOUS

\* A row's next value is a row.
LEMMA RowTyped ==
  ASSUME NEW r \in Row, NEW s \in {"PENDING", "SENDING", "SENT", "CANCELLED"},
         NEW t \in Worker \cup {None}, NEW d \in BOOLEAN
  PROVE  /\ [r EXCEPT !.status = s, !.due = d, !.token = t, !.lapsed = FALSE] \in Row
         /\ [r EXCEPT !.status = s, !.token = t, !.lapsed = FALSE] \in Row
         /\ [r EXCEPT !.due = TRUE] \in Row /\ [r EXCEPT !.lapsed = TRUE] \in Row
         /\ [r EXCEPT !.stale = TRUE] \in Row
<1>1. FALSE \in BOOLEAN /\ TRUE \in BOOLEAN
  OBVIOUS
<1>2. QED
  BY <1>1, Zenon DEF Row

-----------------------------------------------------------------------------
(* Counting the passes *)

\* One pass moves: it joins or leaves those that aim at a row.
Moves(wk, new, w) == \A x \in Worker : x # w => new[x] = wk[x]

LEMMA OneJoinsOrLeaves ==
  ASSUME NEW wk, NEW new, NEW w \in Worker, Moves(wk, new, w), NEW k, IsFiniteSet(At(wk, k, Risky))
  PROVE  /\ IsFiniteSet(At(new, k, Risky))
         /\ Cardinality(At(wk, k, Risky)) \in Nat /\ Cardinality(At(new, k, Risky)) \in Nat
         /\ (w \in At(wk, k, Risky) <=> w \in At(new, k, Risky)) =>
              Cardinality(At(new, k, Risky)) = Cardinality(At(wk, k, Risky))
         /\ w \in At(wk, k, Risky) /\ w \notin At(new, k, Risky) =>
              Cardinality(At(new, k, Risky)) = Cardinality(At(wk, k, Risky)) - 1
         /\ w \notin At(wk, k, Risky) /\ w \in At(new, k, Risky) =>
              Cardinality(At(new, k, Risky)) = Cardinality(At(wk, k, Risky)) + 1
<1> DEFINE S == At(wk, k, Risky)
           T == At(new, k, Risky)
<1>1. \A x \in Worker : x # w => (x \in S <=> x \in T)
  BY DEF At, Moves
<1>2. S \subseteq Worker /\ T \subseteq Worker
  BY DEF At
<1> HIDE DEF S, T
<1>3. IsFiniteSet(S) /\ Cardinality(S) \in Nat
  BY FS_CardinalityType DEF S
<1>4. CASE w \in S <=> w \in T
  <2>1. S = T
    BY <1>1, <1>2, <1>4
  <2>2. QED
    BY <1>3, <1>4, <2>1 DEF S, T
<1>5. CASE w \in S /\ w \notin T
  <2>1. T = S \ {w}
    BY <1>1, <1>2, <1>5
  <2>2. IsFiniteSet(T) /\ Cardinality(T) = Cardinality(S) - 1
    BY <1>3, <1>5, <2>1, FS_RemoveElement
  <2>3. Cardinality(T) \in Nat
    BY <2>2, FS_CardinalityType
  <2>4. QED
    BY <1>3, <1>5, <2>2, <2>3 DEF S, T
<1>6. CASE w \notin S /\ w \in T
  <2>1. T = S \cup {w}
    BY <1>1, <1>2, <1>6
  <2>2. IsFiniteSet(T) /\ Cardinality(T) = Cardinality(S) + 1
    BY <1>3, <1>6, <2>1, FS_AddElement
  <2>3. QED
    BY <1>3, <1>6, <2>2 DEF S, T
<1>7. QED
  BY <1>4, <1>5, <1>6

\* Who stands at a row after the move.
LEMMA AtMoves ==
  ASSUME NEW wk, NEW new, NEW w \in Worker, Moves(wk, new, w), NEW k, NEW pcs
  PROVE  /\ \A x : x # w => (x \in At(new, k, pcs) <=> x \in At(wk, k, pcs))
         /\ w \in At(wk, k, pcs) <=> wk[w].row = k /\ wk[w].pc \in pcs
         /\ w \in At(new, k, pcs) <=> new[w].row = k /\ new[w].pc \in pcs
BY DEF At, Moves

LEMMA ReserveIs ==
  ASSUME NEW row, NEW wk, NEW k
  PROVE  /\ Reserve(row, wk, k) \in {0, 1}
         /\ ~Pending(row) \/ Kept(row, wk, k) => Reserve(row, wk, k) = 0
         /\ Pending(row) /\ ~Kept(row, wk, k) => Reserve(row, wk, k) = 1
BY DEF Reserve

\* Rows the step is not about: the pass that moves stands at another, or aims at none.
LEMMA OthersStaySound ==
  ASSUME NEW row, NEW h, NEW f, NEW wk, NEW new, NEW w \in Worker, Moves(wk, new, w), NEW k,
         \/ wk[w].row # k /\ new[w].row # k
         \/ wk[w].pc \notin Live /\ new[w].pc \notin Live,
         Sound(row, h, f, wk, k)
  PROVE  Sound(row, h, f, new, k)
<1>1. ASSUME NEW pcs \in SUBSET Live PROVE At(new, k, pcs) = At(wk, k, pcs)
  BY DEF At, Moves
<1>2. Risky \in SUBSET Live /\ {"yes"} \in SUBSET Live /\ (Live \ {"no"}) \in SUBSET Live /\ Live \in SUBSET Live
  BY DEF Risky, Live
<1>3. /\ At(new, k, Risky) = At(wk, k, Risky) /\ At(new, k, {"yes"}) = At(wk, k, {"yes"})
      /\ At(new, k, Live) = At(wk, k, Live) /\ At(new, k, Live \ {"no"}) = At(wk, k, Live \ {"no"})
  BY <1>1, <1>2
<1>4. Reserve(row, new, k) = Reserve(row, wk, k)
  BY <1>3 DEF Reserve, Kept
<1>5. Afford(row, h, f, new, k) /\ Tells(row, h, f, new, k)
  BY <1>3, <1>4 DEF Sound, Afford, Tells
<1>6. QED
  BY <1>5 DEF Sound

\* The row stays as it is to every pass at it, or is dropped when no lease covers it.
LEMMA RowStaysSound ==
  ASSUME NEW row, NEW new, NEW h \in Nat, NEW f \in Nat, NEW wk, NEW k, Sound(row, h, f, wk, k),
         \/ new.status = row.status /\ new.token = row.token /\ new.lapsed = row.lapsed
         \/ /\ row.status = "PENDING" \/ (row.status = "SENDING" /\ row.lapsed)
            /\ new.status = "CANCELLED"
  PROVE  Sound(new, h, f, wk, k)
<1>1. Cardinality(At(wk, k, Risky)) \in Nat
  BY FS_CardinalityType DEF Sound, Afford
<1>2. CASE new.status = row.status /\ new.token = row.token /\ new.lapsed = row.lapsed
  <2>1. \A w : Holder(new, w) <=> Holder(row, w)
    BY <1>2 DEF Holder
  <2>2. Reserve(new, wk, k) = Reserve(row, wk, k)
    BY <1>2, <2>1 DEF Reserve, Kept, Pending
  <2>3. QED
    BY <1>2, <2>1, <2>2 DEF Sound, Afford, Tells
<1>3. CASE /\ row.status = "PENDING" \/ (row.status = "SENDING" /\ row.lapsed)
           /\ new.status = "CANCELLED"
  <2>1. Reserve(new, wk, k) = 0 /\ Reserve(row, wk, k) \in {0, 1}
    BY <1>3, ReserveIs DEF Pending
  <2>2. Afford(new, h, f, wk, k)
    BY <1>1, <2>1 DEF Sound, Afford
  <2>3. \A w : ~Holder(row, w)
    BY <1>3 DEF Holder
  <2>4. Tells(new, h, f, wk, k)
    BY <1>3, <2>3 DEF Sound, Tells
  <2>5. QED
    BY <2>2, <2>4 DEF Sound
<1>4. QED
  BY <1>2, <1>3

\* A lease runs out: under its sender that is a fault, and else nobody's loss.
LEMMA LapseStaysSound ==
  ASSUME NEW row, NEW new, NEW h \in Nat, NEW f \in Nat, NEW g \in Nat, NEW wk, NEW k, Sound(row, h, f, wk, k),
         row.status = "SENDING", new.status = row.status, new.token = row.token, ~row.lapsed,
         \/ g = f + 1
         \/ g = f /\ \A w \in At(wk, k, Live) : row.token # w
  PROVE  Sound(new, h, g, wk, k)
<1>1. Cardinality(At(wk, k, Risky)) \in Nat
  BY FS_CardinalityType DEF Sound, Afford
<1>2. Reserve(new, wk, k) \in {0, 1} /\ Reserve(row, wk, k) \in {0, 1}
  BY ReserveIs
<1>3. CASE g = f + 1
  BY <1>1, <1>2, <1>3 DEF Sound, Afford, Tells
<1>4. CASE g = f /\ \A w \in At(wk, k, Live) : row.token # w
  <2>1. \A w \in At(wk, k, Live) : ~Holder(row, w)
    BY <1>4 DEF Holder
  <2>2. ~Kept(row, wk, k)
    BY <2>1 DEF Kept, At
  <2>3. Reserve(row, wk, k) = 1
    BY <2>2, ReserveIs DEF Pending
  <2>4. Afford(new, h, g, wk, k)
    BY <1>1, <1>2, <1>4, <2>3 DEF Sound, Afford
  <2>5. f # 0
    BY <2>1 DEF Sound, Tells
  <2>6. QED
    BY <1>4, <2>4, <2>5 DEF Sound, Tells
<1>5. QED
  BY <1>3, <1>4

\* A post is new: nobody can have heard of it.
LEMMA NewRowIsSound ==
  ASSUME NEW row, row.status = "PENDING", NEW wk, NEW k, \A w \in Worker : wk[w].row # k
  PROVE  Sound(row, 0, 0, wk, k)
<1>1. \A pcs : At(wk, k, pcs) = {}
  BY DEF At
<1>2. Reserve(row, wk, k) \in {0, 1}
  BY ReserveIs
<1>3. QED
  BY <1>1, <1>2, FS_EmptySet DEF Sound, Afford, Tells

\* A pass leases a row that waits, or whose lease ran out.
LEMMA LeaseStaysSound ==
  ASSUME NEW row, NEW nrow, NEW h \in Nat, NEW f \in Nat, NEW wk, NEW new, NEW w \in Worker, Moves(wk, new, w),
         NEW k, Sound(row, h, f, wk, k), wk[w].pc \notin Live, new[w].row = k, new[w].pc = "leased",
         row.status = "PENDING" \/ (row.status = "SENDING" /\ row.lapsed),
         Holder(nrow, w)
  PROVE  Sound(nrow, h, f, new, k)
<1>1. /\ w \notin At(wk, k, Risky) /\ w \notin At(wk, k, {"yes"}) /\ w \notin At(wk, k, Live)
      /\ w \in At(new, k, Risky) /\ w \in At(new, k, Live) /\ w \in At(new, k, Live \ {"no"})
      /\ w \notin At(new, k, {"yes"})
  BY DEF At, Risky, Live
<1>2. /\ \A x : x # w => (x \in At(new, k, {"yes"}) <=> x \in At(wk, k, {"yes"}))
      /\ \A x : x # w => (x \in At(new, k, Live) <=> x \in At(wk, k, Live))
  BY AtMoves
<1>3. IsFiniteSet(At(wk, k, Risky))
  BY DEF Sound, Afford
<1>4. /\ IsFiniteSet(At(new, k, Risky)) /\ Cardinality(At(wk, k, Risky)) \in Nat
      /\ Cardinality(At(new, k, Risky)) = Cardinality(At(wk, k, Risky)) + 1
  BY <1>1, <1>3, OneJoinsOrLeaves
<1>5. \A x : ~Holder(row, x)
  BY DEF Holder
<1>6. Reserve(row, wk, k) = 1
  BY <1>5, ReserveIs DEF Kept, Pending
<1>7. Reserve(nrow, new, k) = 0
  BY <1>1, ReserveIs DEF Kept
<1>8. Afford(nrow, h, f, new, k)
  BY <1>4, <1>6, <1>7 DEF Sound, Afford
<1>9. Tells(nrow, h, f, new, k)
  <2>1. SUFFICES ASSUME f = 0
                 PROVE  /\ \E x \in At(new, k, Live) : Holder(nrow, x)
                        /\ \A x \in At(new, k, Live) : Holder(nrow, x)
                        /\ h = 0 /\ At(new, k, {"yes"}) = {} /\ nrow.status = "SENDING"
    BY DEF Tells
  <2>2. At(wk, k, Live) = {} /\ h = IF row.status = "SENT" \/ At(wk, k, {"yes"}) # {} THEN 1 ELSE 0
    BY <1>5, <2>1 DEF Sound, Tells
  <2>3. At(wk, k, {"yes"}) = {}
    BY <2>2 DEF At, Live
  <2>4. At(new, k, {"yes"}) = {}
    BY <1>1, <1>2, <2>3
  <2>5. QED
    BY <1>1, <1>2, <2>2, <2>3, <2>4 DEF Holder
<1>10. QED
  BY <1>8, <1>9 DEF Sound

\* A pass goes on with the row it leased: to the source's answer, to Discord's.
Goes(pc, p, h, f, g, e) ==
  \/ pc = "leased" /\ p = "checked" /\ g = h /\ e = f
  \/ pc = "checked" /\ p = "yes" /\ g = h + 1 /\ e = f
  \/ pc = "checked" /\ p = "no" /\ g = h + 1 /\ e = f + 1
  \/ pc = "checked" /\ p \in {"never", "no"} /\ g = h /\ e = f

LEMMA GoesOnSound ==
  ASSUME NEW row, NEW h \in Nat, NEW f \in Nat, NEW wk, NEW new, NEW w \in Worker, Moves(wk, new, w),
         NEW k, Sound(row, h, f, wk, k), wk[w].row = k, new[w].row = k, NEW g \in Nat, NEW e \in Nat,
         Goes(wk[w].pc, new[w].pc, h, f, g, e)
  PROVE  Sound(row, g, e, new, k)
<1> USE DEF Goes
<1>1. /\ w \in At(wk, k, Risky) /\ w \in At(wk, k, Live \ {"no"}) /\ w \in At(wk, k, Live)
      /\ w \notin At(wk, k, {"yes"}) /\ w \in At(new, k, Live)
      /\ w \in At(new, k, Risky) <=> new[w].pc = "checked"
      /\ w \in At(new, k, {"yes"}) <=> new[w].pc = "yes"
      /\ w \in At(new, k, Live \ {"no"}) <=> new[w].pc # "no"
  BY DEF At, Risky, Live
<1>2. /\ \A x : x # w => (x \in At(new, k, {"yes"}) <=> x \in At(wk, k, {"yes"}))
      /\ \A x : x # w => (x \in At(new, k, Live) <=> x \in At(wk, k, Live))
      /\ \A x : x # w => (x \in At(new, k, Live \ {"no"}) <=> x \in At(wk, k, Live \ {"no"}))
  BY AtMoves
<1>3. IsFiniteSet(At(wk, k, Risky))
  BY DEF Sound, Afford
<1>4. /\ IsFiniteSet(At(new, k, Risky))
      /\ Cardinality(At(wk, k, Risky)) \in Nat /\ Cardinality(At(new, k, Risky)) \in Nat
      /\ new[w].pc = "checked" => Cardinality(At(new, k, Risky)) = Cardinality(At(wk, k, Risky))
      /\ new[w].pc # "checked" => Cardinality(At(new, k, Risky)) = Cardinality(At(wk, k, Risky)) - 1
  BY <1>1, <1>3, OneJoinsOrLeaves
<1>5. /\ Reserve(row, wk, k) \in {0, 1} /\ Reserve(row, new, k) \in {0, 1}
      /\ new[w].pc # "no" => Reserve(row, new, k) = Reserve(row, wk, k)
  <2>1. new[w].pc # "no" => \A x : x \in At(new, k, Live \ {"no"}) <=> x \in At(wk, k, Live \ {"no"})
    BY <1>1, <1>2
  <2>2. new[w].pc # "no" => (Kept(row, new, k) <=> Kept(row, wk, k))
    BY <2>1 DEF Kept
  <2>3. QED
    BY <2>2, ReserveIs DEF Reserve
<1>6. ~Holder(row, w) => Reserve(row, new, k) = Reserve(row, wk, k)
  <2>1. ~Holder(row, w) => (Kept(row, new, k) <=> Kept(row, wk, k))
    BY <1>2 DEF Kept
  <2>2. QED
    BY <2>1 DEF Reserve
<1>7. Holder(row, w) => Reserve(row, wk, k) = 0
  BY <1>1, ReserveIs DEF Kept
<1>8. Afford(row, g, e, new, k)
  <2>1. h + Cardinality(At(wk, k, Risky)) + Reserve(row, wk, k) <= 1 + f
    BY DEF Sound, Afford
  <2> DEFINE c == Cardinality(At(wk, k, Risky))
             d == Cardinality(At(new, k, Risky))
             a == Reserve(row, wk, k)
             b == Reserve(row, new, k)
  <2>2. c \in Nat /\ d \in Nat /\ a \in {0, 1} /\ b \in {0, 1} /\ h + c + a <= 1 + f
        /\ (new[w].pc # "no" => b = a)
        /\ (new[w].pc = "checked" => d = c) /\ (new[w].pc # "checked" => d = c - 1)
    BY <1>4, <1>5, <2>1
  <2> HIDE DEF a, b, c, d
  <2>3. g + d + b <= 1 + e
    BY <2>2
  <2>4. QED
    BY <1>4, <2>3 DEF Afford, b, d
<1>9. Tells(row, g, e, new, k)
  <2> SUFFICES ASSUME e = 0
               PROVE  /\ row.status = "SENDING" => \E x \in At(new, k, Live) : Holder(row, x)
                      /\ \A x \in At(new, k, Live) : Holder(row, x)
                      /\ g = IF row.status = "SENT" \/ At(new, k, {"yes"}) # {} THEN 1 ELSE 0
    BY DEF Tells
  <2>1. f = 0
    OBVIOUS
  <2>2. /\ \A x \in At(wk, k, Live) : Holder(row, x)
        /\ h = IF row.status = "SENT" \/ At(wk, k, {"yes"}) # {} THEN 1 ELSE 0
    BY <2>1 DEF Sound, Tells
  <2>3. Holder(row, w) /\ row.status = "SENDING"
    BY <1>1, <2>2 DEF Holder
  <2>4. \A x \in At(wk, k, Live) : x = w
    BY <2>2, <2>3 DEF Holder
  <2>5. At(wk, k, {"yes"}) = {}
    BY <1>1, <2>4 DEF At, Live
  <2>6. h = 0
    BY <2>2, <2>3, <2>5
  <2>7. At(new, k, {"yes"}) # {} <=> new[w].pc = "yes"
    BY <1>1, <1>2, <2>5
  <2>8. QED
    BY <1>1, <1>2, <2>1, <2>3, <2>4, <2>6, <2>7
<1>10. QED
  BY <1>8, <1>9 DEF Sound

\* A pass writes the outcome over its own lease, or finds that it lost it.
Outcome(pc) == CASE pc = "leased" -> {"PENDING", "CANCELLED"} [] pc = "yes" -> {"SENT"}
                 [] pc = "no" -> {"PENDING"} [] pc = "never" -> {"CANCELLED"}

LEMMA LeavesSound ==
  ASSUME NEW row, NEW nrow, NEW h \in Nat, NEW f \in Nat, NEW wk, NEW new, NEW w \in Worker, Moves(wk, new, w),
         NEW k, Sound(row, h, f, wk, k), wk[w].row = k, wk[w].pc \in Live \ {"checked"}, new[w].pc = "swept",
         row.status = "SENDING" /\ row.token = w => nrow.status \in Outcome(wk[w].pc),
         (row.status = "SENDING" /\ row.token = w) \/ nrow = row
  PROVE  Sound(nrow, h, f, new, k)
<1>1. /\ w \in At(wk, k, Live) /\ w \notin At(new, k, Live)
      /\ w \notin At(new, k, {"yes"}) /\ w \notin At(new, k, Live \ {"no"}) /\ w \notin At(new, k, Risky)
      /\ w \in At(wk, k, Risky) <=> wk[w].pc = "leased"
      /\ w \in At(wk, k, {"yes"}) <=> wk[w].pc = "yes"
      /\ w \in At(wk, k, Live \ {"no"}) <=> wk[w].pc # "no"
  BY DEF At, Risky, Live
<1>2. /\ \A x : x # w => (x \in At(new, k, {"yes"}) <=> x \in At(wk, k, {"yes"}))
      /\ \A x : x # w => (x \in At(new, k, Live) <=> x \in At(wk, k, Live))
      /\ \A x : x # w => (x \in At(new, k, Live \ {"no"}) <=> x \in At(wk, k, Live \ {"no"}))
  BY AtMoves
<1>3. IsFiniteSet(At(wk, k, Risky))
  BY DEF Sound, Afford
<1>4. /\ IsFiniteSet(At(new, k, Risky))
      /\ Cardinality(At(wk, k, Risky)) \in Nat /\ Cardinality(At(new, k, Risky)) \in Nat
      /\ wk[w].pc # "leased" => Cardinality(At(new, k, Risky)) = Cardinality(At(wk, k, Risky))
      /\ wk[w].pc = "leased" => Cardinality(At(new, k, Risky)) = Cardinality(At(wk, k, Risky)) - 1
  BY <1>1, <1>3, OneJoinsOrLeaves
<1>5. h + Cardinality(At(wk, k, Risky)) + Reserve(row, wk, k) <= 1 + f
  BY DEF Sound, Afford
<1>6. Reserve(row, wk, k) \in {0, 1} /\ Reserve(nrow, new, k) \in {0, 1}
  BY ReserveIs
<1>7. wk[w].pc \in {"leased", "yes", "no", "never"}
  BY DEF Live
<1>8. CASE row.status = "SENDING" /\ row.token = w
  <2>1. nrow.status \in Outcome(wk[w].pc)
    BY <1>8
  <2>2. ~Pending(nrow) => Reserve(nrow, new, k) = 0
    BY ReserveIs
  <2>3. wk[w].pc = "no" => Reserve(row, wk, k) = 1
    <3>1. wk[w].pc = "no" => ~Kept(row, wk, k)
      BY <1>1, <1>8 DEF Kept, Holder
    <3>2. QED
      BY <1>8, <3>1, ReserveIs DEF Pending
  <2>4. wk[w].pc \in {"yes", "never"} => ~Pending(nrow)
    BY <2>1 DEF Outcome, Pending
  <2>5. Afford(nrow, h, f, new, k)
    <3> DEFINE c == Cardinality(At(wk, k, Risky))
               d == Cardinality(At(new, k, Risky))
               a == Reserve(row, wk, k)
               b == Reserve(nrow, new, k)
    <3>1. c \in Nat /\ d \in Nat /\ a \in {0, 1} /\ b \in {0, 1} /\ h + c + a <= 1 + f
          /\ (wk[w].pc \in {"yes", "never"} => b = 0) /\ (wk[w].pc = "no" => a = 1)
          /\ (wk[w].pc # "leased" => d = c) /\ (wk[w].pc = "leased" => d = c - 1)
      BY <1>4, <1>5, <1>6, <2>2, <2>3, <2>4
    <3> HIDE DEF a, b, c, d
    <3>2. h + d + b <= 1 + f
      BY <1>7, <3>1
    <3>3. QED
      BY <1>4, <3>2 DEF Afford, b, d
  <2>6. Tells(nrow, h, f, new, k)
    <3> SUFFICES ASSUME f = 0
                 PROVE  /\ nrow.status = "SENDING" => \E x \in At(new, k, Live) : Holder(nrow, x)
                        /\ \A x \in At(new, k, Live) : Holder(nrow, x)
                        /\ h = IF nrow.status = "SENT" \/ At(new, k, {"yes"}) # {} THEN 1 ELSE 0
      BY DEF Tells
    <3>1. /\ \A x \in At(wk, k, Live) : Holder(row, x)
          /\ h = IF row.status = "SENT" \/ At(wk, k, {"yes"}) # {} THEN 1 ELSE 0
      BY DEF Sound, Tells
    <3>2. \A x \in At(wk, k, Live) : x = w
      BY <1>8, <3>1 DEF Holder
    <3>3. At(new, k, Live) = {} /\ At(new, k, {"yes"}) = {}
      <4>1. At(new, k, Live) = {}
        BY <1>1, <1>2, <3>2
      <4>2. QED
        BY <4>1 DEF At, Live
    <3>4. At(wk, k, {"yes"}) # {} <=> wk[w].pc = "yes"
      BY <1>1, <1>2, <3>3
    <3>5. nrow.status # "SENDING" /\ (nrow.status = "SENT" <=> wk[w].pc = "yes")
      BY <1>7, <2>1 DEF Outcome
    <3>6. QED
      BY <1>8, <3>1, <3>3, <3>4, <3>5
  <2>7. QED
    BY <2>5, <2>6 DEF Sound
<1>9. CASE ~(row.status = "SENDING" /\ row.token = w)
  <2>1. nrow = row /\ ~Holder(row, w)
    BY <1>9 DEF Holder
  <2>2. Kept(row, new, k) <=> Kept(row, wk, k)
    BY <1>2, <2>1 DEF Kept
  <2>3. Reserve(row, new, k) = Reserve(row, wk, k)
    BY <2>2 DEF Reserve
  <2>4. Afford(nrow, h, f, new, k)
    BY <1>4, <1>5, <1>6, <2>1, <2>3 DEF Afford
  <2>5. f # 0
    BY <1>1, <2>1 DEF Sound, Tells
  <2>6. QED
    BY <2>4, <2>5 DEF Sound, Tells
<1>10. QED
  BY <1>8, <1>9

\* A pass dies at a row.
LEMMA DiesSound ==
  ASSUME NEW row, NEW h \in Nat, NEW f \in Nat, NEW wk, NEW new, NEW w \in Worker, Moves(wk, new, w),
         NEW k, Sound(row, h, f, wk, k), new[w].pc = "idle"
  PROVE  Sound(row, h, f + 1, new, k)
<1>1. IsFiniteSet(At(wk, k, Risky)) /\ h + Cardinality(At(wk, k, Risky)) + Reserve(row, wk, k) <= 1 + f
  BY DEF Sound, Afford
<1>2. w \notin At(new, k, Risky)
  BY DEF At, Risky
<1>3. /\ IsFiniteSet(At(new, k, Risky))
      /\ Cardinality(At(wk, k, Risky)) \in Nat /\ Cardinality(At(new, k, Risky)) \in Nat
      /\ Cardinality(At(new, k, Risky)) <= Cardinality(At(wk, k, Risky))
  BY <1>1, <1>2, OneJoinsOrLeaves
<1>4. Reserve(row, wk, k) \in {0, 1} /\ Reserve(row, new, k) \in {0, 1}
  BY ReserveIs
<1>5. QED
  BY <1>1, <1>3, <1>4 DEF Sound, Afford, Tells

-----------------------------------------------------------------------------
(* The rows move under everybody *)

\* What every step leaves of the rows it finds: their night and their event, and a
\* row that is settled.
InPlace ==
  \A k \in 1 .. Len(rows) : /\ rows'[k].rev = rows[k].rev /\ rows'[k].event = rows[k].event
                            /\ ~Pending(rows[k]) => rows'[k].status = rows[k].status

\* Rows as passes that hold none of them leave them.
Passive(rs) ==
  /\ rs = [k \in 1 .. Len(rows) |-> rs[k]]
  /\ \A k \in 1 .. Len(rows) :
       /\ rs[k] \in Row /\ rs[k].rev = rows[k].rev /\ rs[k].event = rows[k].event
       /\ \/ rs[k].status = rows[k].status /\ rs[k].token = rows[k].token /\ rs[k].lapsed = rows[k].lapsed
          \/ Droppable(k) /\ rs[k].status = "CANCELLED"

LEMMA DropsArePassive ==
  ASSUME OutboxAssumption, Typed, NEW S, \A k \in 1 .. Len(rows) : k \in S => Droppable(k),
         NEW rs, rs = [k \in 1 .. Len(rows) |-> rs[k]],
         \A k \in 1 .. Len(rows) : rs[k] = rows[k] \/ rs[k] = [rows[k] EXCEPT !.stale = TRUE]
  PROVE  Passive(DropAll(S, rs))
<1>1. DOMAIN rs = 1 .. Len(rows)
  OBVIOUS
<1>2. ASSUME NEW k \in 1 .. Len(rows)
      PROVE  /\ rs[k] \in Row /\ rs[k].rev = rows[k].rev /\ rs[k].event = rows[k].event
             /\ rs[k].status = rows[k].status /\ rs[k].token = rows[k].token /\ rs[k].lapsed = rows[k].lapsed
  <2>1. rows[k] \in Row /\ [rows[k] EXCEPT !.stale = TRUE] \in Row
    <3>1. rows[k] \in Row
      BY Shape
    <3>2. TRUE \in BOOLEAN
      OBVIOUS
    <3>3. QED
      BY <3>1, <3>2, Zenon DEF Row
  <2>2. QED
    BY <2>1 DEF Row
<1>3. ASSUME NEW k \in 1 .. Len(rows)
      PROVE  /\ Dropped(rs[k]) \in Row /\ Dropped(rs[k]).rev = rs[k].rev /\ Dropped(rs[k]).event = rs[k].event
             /\ Dropped(rs[k]).status = "CANCELLED"
  BY <1>2 DEF Dropped, Row
<1>4. \A k \in 1 .. Len(rows) : DropAll(S, rs)[k] = IF k \in S THEN Dropped(rs[k]) ELSE rs[k]
  BY <1>1 DEF DropAll
<1>5. DropAll(S, rs) = [k \in 1 .. Len(rows) |-> DropAll(S, rs)[k]]
  BY <1>1 DEF DropAll
<1>6. ASSUME NEW k \in 1 .. Len(rows)
      PROVE  LET r == DropAll(S, rs)[k] IN
             /\ r \in Row /\ r.rev = rows[k].rev /\ r.event = rows[k].event
             /\ \/ r.status = rows[k].status /\ r.token = rows[k].token /\ r.lapsed = rows[k].lapsed
                \/ Droppable(k) /\ r.status = "CANCELLED"
  BY <1>2, <1>3, <1>4
<1>7. QED
  BY <1>5, <1>6 DEF Passive

LEMMA PassiveRows ==
  ASSUME OutboxAssumption, Typed, NEW rs, Passive(rs)
  PROVE  rs \in Seq(Row) /\ Len(rs) = Len(rows) /\ rs \in [1 .. Len(rows) -> Row]
<1>1. Len(rows) \in Nat
  BY Shape
<1>2. rs \in [1 .. Len(rows) -> Row]
  BY DEF Passive
<1>3. QED
  BY <1>1, <1>2, IsSeq

LEMMA PassiveKeeps ==
  ASSUME OutboxAssumption, Typed, DeliveryInv, Passive(rows'), UNCHANGED <<heard, faults>>,
         \/ UNCHANGED work
         \/ \E w \in Worker : /\ Moves(work, work', w) /\ work[w].pc \notin Live
                              /\ work'[w].pc \in {"idle", "swept"} /\ work'[w].row = work[w].row
  PROVE  DeliveryInv' /\ InPlace /\ rows' \in Seq(Row) /\ Len(rows') = Len(rows)
<1>1. /\ rows' \in Seq(Row) /\ Len(rows') = Len(rows) /\ Len(rows) \in Nat
      /\ \A k \in 1 .. Len(rows) : heard[k] \in Nat /\ faults[k] \in Nat
  BY PassiveRows, Shape
<1>2. ASSUME NEW k \in 1 .. Len(rows)
      PROVE  /\ rows'[k].rev = rows[k].rev /\ rows'[k].event = rows[k].event
             /\ \/ rows'[k].status = rows[k].status /\ rows'[k].token = rows[k].token /\ rows'[k].lapsed = rows[k].lapsed
                \/ /\ rows[k].status = "PENDING" \/ (rows[k].status = "SENDING" /\ rows[k].lapsed)
                   /\ rows'[k].status = "CANCELLED"
  BY DEF Passive, Droppable
<1>3. InPlace
  BY <1>2 DEF InPlace, Pending
<1>4. ASSUME NEW k \in 1 .. Len(rows) PROVE Sound(rows'[k], heard[k], faults[k], work', k)
  <2>1. Sound(rows[k], heard[k], faults[k], work, k)
    BY DEF DeliveryInv
  <2>2. Sound(rows'[k], heard[k], faults[k], work, k)
    BY <1>1, <1>2, <2>1, RowStaysSound
  <2>3. CASE UNCHANGED work
    BY <2>2, <2>3
  <2>4. ASSUME NEW w \in Worker, Moves(work, work', w), work[w].pc \notin Live, work'[w].pc \in {"idle", "swept"}
        PROVE  Sound(rows'[k], heard[k], faults[k], work', k)
    <3>1. work'[w].pc \notin Live
      BY <2>4 DEF Live
    <3>2. QED
      BY <2>2, <2>4, <3>1, OthersStaySound
  <2>5. QED
    BY <2>3, <2>4
<1>5. ASSUME NEW x \in Worker
      PROVE  /\ work'[x].row = work[x].row
             /\ work'[x].pc \in Aiming => work'[x].pc = work[x].pc
  BY DEF Moves, Aiming, Live
<1>6. InLine(work', rows')
  <2>1. \A k \in 1 .. Len(rows) : Pending(rows'[k]) => Pending(rows[k])
    BY <1>2 DEF Pending
  <2>2. ASSUME NEW x \in Worker
        PROVE  /\ work'[x].row <= Len(rows')
               /\ work'[x].pc \in Aiming =>
                    work'[x].row # 0 /\ \A i \in 1 .. work'[x].row - 1 : ~Pending(rows'[i])
    <3>1. work[x].row \in Nat /\ work[x].row <= Len(rows)
      BY Bounds DEF Typed, Working, DeliveryInv, InLine
    <3>2. QED
      BY <1>1, <1>5, <2>1, <3>1 DEF DeliveryInv, InLine
  <2>3. QED
    BY <2>2 DEF InLine
<1>7. Steady(work', rows')
  <2> SUFFICES ASSUME "slow" \notin Faults, NEW x \in Worker, work'[x].pc \in Live
               PROVE  Holder(rows'[work'[x].row], x)
    BY DEF Steady
  <2>1. work[x].pc \in Live /\ work'[x].row = work[x].row /\ work[x].pc \in Aiming
    BY <1>5 DEF Aiming
  <2>2. Holder(rows[work[x].row], x) /\ work[x].row \in 1 .. Len(rows)
    BY <1>1, <2>1, Bounds DEF DeliveryInv, Steady, InLine, Typed, Working
  <2>3. QED
    BY <1>2, <2>1, <2>2 DEF Holder
<1>8. DeliveryInv'
  <2>1. \A k \in 1 .. Len(rows') : Sound(rows'[k], heard'[k], faults'[k], work', k)
    BY <1>1, <1>4
  <2>2. QED
    BY <1>6, <1>7, <2>1 DEF DeliveryInv
<1>9. QED
  BY <1>1, <1>3, <1>8


\* A pass moves at its row, and nothing else does.
LEMMA OneMovesKeeps ==
  ASSUME OutboxAssumption, Typed, DeliveryInv, Typed', NEW w \in Worker, Moves(work, work', w),
         NEW k \in 1 .. Len(rows), work[w].row = k, Len(rows') = Len(rows),
         \A j \in 1 .. Len(rows) : j # k => rows'[j] = rows[j] /\ heard'[j] = heard[j] /\ faults'[j] = faults[j],
         rows'[k].rev = rows[k].rev /\ rows'[k].event = rows[k].event,
         ~Pending(rows[k]) => rows'[k].status = rows[k].status,
         Sound(rows'[k], heard'[k], faults'[k], work', k),
         work'[w].row \in {0, k}, work'[w].pc \in Aiming => work'[w].row = k /\ work[w].pc \in Aiming,
         "slow" \notin Faults =>
           \A x \in Worker : work'[x].pc \in Live /\ work'[x].row = k => Holder(rows'[k], x)
  PROVE  DeliveryInv' /\ InPlace
<1>1. Len(rows) \in Nat /\ \A j \in 1 .. Len(rows) : heard[j] \in Nat /\ faults[j] \in Nat
  BY Shape
<1>2. InPlace
  BY DEF InPlace
<1>3. ASSUME NEW j \in 1 .. Len(rows) PROVE Sound(rows'[j], heard'[j], faults'[j], work', j)
  <2>1. CASE j = k
    BY <2>1
  <2>2. CASE j # k
    <3>1. Sound(rows[j], heard[j], faults[j], work, j)
      BY DEF DeliveryInv
    <3>2. work[w].row # j /\ work'[w].row # j
      BY <2>2
    <3>3. Sound(rows[j], heard[j], faults[j], work', j)
      BY <3>1, <3>2, OthersStaySound
    <3>4. QED
      BY <2>2, <3>3
  <2>3. QED
    BY <2>1, <2>2
<1>4. \A j \in 1 .. Len(rows) : Pending(rows'[j]) => Pending(rows[j])
  BY DEF Pending
<1>5. ASSUME NEW x \in Worker
      PROVE  /\ work[x].row \in Nat /\ work[x].row <= Len(rows)
             /\ x # w => work'[x] = work[x]
  BY DEF Moves, Typed, Working, DeliveryInv, InLine
<1>6. InLine(work', rows')
  <2>1. ASSUME NEW x \in Worker
        PROVE  /\ work'[x].row <= Len(rows')
               /\ work'[x].pc \in Aiming =>
                    work'[x].row # 0 /\ \A i \in 1 .. work'[x].row - 1 : ~Pending(rows'[i])
    <3>1. work'[x].row <= Len(rows')
      BY <1>1, <1>5
    <3>2. work'[x].pc \in Aiming => work[x].pc \in Aiming /\ work'[x].row = work[x].row
      BY <1>5
    <3>3. work[x].pc \in Aiming => work[x].row # 0 /\ \A i \in 1 .. work[x].row - 1 : ~Pending(rows[i])
      BY DEF DeliveryInv, InLine
    <3>4. QED
      BY <1>1, <1>4, <1>5, <3>1, <3>2, <3>3
  <2>2. QED
    BY <2>1 DEF InLine
<1>7. Steady(work', rows')
  <2> SUFFICES ASSUME "slow" \notin Faults, NEW x \in Worker, work'[x].pc \in Live
               PROVE  Holder(rows'[work'[x].row], x)
    BY DEF Steady
  <2>1. CASE work'[x].row = k
    BY <2>1
  <2>2. CASE work'[x].row # k
    <3>1. x # w
      BY <2>2 DEF Aiming
    <3>2. work'[x] = work[x] /\ work[x].pc \in Aiming /\ work[x].row \in 1 .. Len(rows)
      BY <1>1, <1>5, <3>1 DEF Aiming, DeliveryInv, InLine
    <3>3. QED
      BY <2>2, <3>2 DEF DeliveryInv, Steady
  <2>3. QED
    BY <2>1, <2>2
<1>8. QED
  <2>1. \A j \in 1 .. Len(rows') : Sound(rows'[j], heard'[j], faults'[j], work', j)
    BY <1>3
  <2>2. QED
    BY <1>2, <1>6, <1>7, <2>1 DEF DeliveryInv

-----------------------------------------------------------------------------
(* Each step of delivery *)

LEMMA WorkMoves ==
  ASSUME Typed, NEW w \in Worker, NEW v \in Working
  PROVE  /\ [work EXCEPT ![w] = v] \in [Worker -> Working]
         /\ [work EXCEPT ![w] = v][w] = v
         /\ Moves(work, [work EXCEPT ![w] = v], w)
BY DEF Typed, Moves

LEMMA PcTyped ==
  ASSUME NEW v \in Working, NEW p \in {"idle", "swept"} \cup Aiming
  PROVE  [v EXCEPT !.pc = p] \in Working /\ [v EXCEPT !.pc = p].pc = p /\ [v EXCEPT !.pc = p].row = v.row
BY DEF Working

LEMMA WorkPcMoves ==
  ASSUME Typed, NEW w \in Worker, NEW p \in {"idle", "swept"} \cup Aiming, work' = [work EXCEPT ![w].pc = p]
  PROVE  /\ work' \in [Worker -> Working] /\ Moves(work, work', w)
         /\ work'[w].pc = p /\ work'[w].row = work[w].row
<1> DEFINE v == [work[w] EXCEPT !.pc = p]
<1>1. work[w] \in Working /\ work' = [work EXCEPT ![w] = v]
  BY DEF Typed
<1>2. v \in Working /\ v.pc = p /\ v.row = work[w].row
  BY <1>1, PcTyped
<1> HIDE DEF v
<1>3. work' \in [Worker -> Working] /\ work'[w] = v /\ Moves(work, work', w)
  BY <1>1, <1>2 DEF Typed, Moves
<1>4. QED
  BY <1>2, <1>3

\* Sweeps, Discards, Resumes and BecomesDue: no lease that runs is touched.
LEMMA SweepsKeep ==
  ASSUME OutboxAssumption, Typed, DeliveryInv, NEW w \in Worker, Sweeps(w)
  PROVE  Typed' /\ DeliveryInv' /\ InPlace /\ Len(rows') = Len(rows)
<1>1. DOMAIN rows = 1 .. Len(rows) /\ rows = [k \in 1 .. Len(rows) |-> rows[k]]
  BY Shape DEF Typed
<1>2. Passive(rows')
  BY <1>1, DropsArePassive DEF Sweeps
<1>3. /\ work' \in [Worker -> Working] /\ Moves(work, work', w)
      /\ work'[w].pc = "swept" /\ work'[w].row = work[w].row /\ work[w].pc = "idle"
  BY WorkPcMoves DEF Sweeps
<1>4. work[w].pc \notin Live
  BY <1>3 DEF Live
<1>5. UNCHANGED <<rev, phase, past, marker, events, heard, admin, prod, faults>>
  BY DEF Sweeps
<1>6. DeliveryInv' /\ InPlace /\ rows' \in Seq(Row) /\ Len(rows') = Len(rows)
  BY <1>2, <1>3, <1>4, <1>5, PassiveKeeps
<1>7. Typed'
  BY <1>3, <1>5, <1>6 DEF Typed
<1>8. QED
  BY <1>6, <1>7

LEMMA DiscardsKeep ==
  ASSUME OutboxAssumption, Typed, DeliveryInv, Discards
  PROVE  Typed' /\ DeliveryInv' /\ InPlace /\ Len(rows') = Len(rows)
<1>1. DOMAIN rows = 1 .. Len(rows) /\ rows = [k \in 1 .. Len(rows) |-> rows[k]]
  BY Shape DEF Typed
<1>2. Passive(rows')
  BY <1>1, DropsArePassive DEF Discards
<1>3. UNCHANGED <<rev, phase, past, marker, events, heard, admin, prod, work, faults>>
  BY DEF Discards
<1>4. DeliveryInv' /\ InPlace /\ rows' \in Seq(Row) /\ Len(rows') = Len(rows)
  BY <1>2, <1>3, PassiveKeeps
<1>5. Typed'
  BY <1>3, <1>4 DEF Typed
<1>6. QED
  BY <1>4, <1>5

LEMMA DuesArePassive ==
  ASSUME OutboxAssumption, Typed, Resumes \/ \E k \in 1 .. MaxRows : BecomesDue(k)
  PROVE  Passive(rows')
<1>1. DOMAIN rows = 1 .. Len(rows) /\ rows = [k \in 1 .. Len(rows) |-> rows[k]]
  BY Shape DEF Typed
<1>2. /\ DOMAIN rows' = 1 .. Len(rows) /\ rows' = [k \in DOMAIN rows' |-> rows'[k]]
      /\ \A k \in 1 .. Len(rows) : rows'[k] \in {rows[k], [rows[k] EXCEPT !.due = TRUE]}
  BY <1>1 DEF Resumes, BecomesDue
<1>3. ASSUME NEW k \in 1 .. Len(rows)
      PROVE  /\ rows'[k] \in Row /\ rows'[k].rev = rows[k].rev /\ rows'[k].event = rows[k].event
             /\ rows'[k].status = rows[k].status /\ rows'[k].token = rows[k].token /\ rows'[k].lapsed = rows[k].lapsed
  <2>1. rows[k] \in Row /\ [rows[k] EXCEPT !.due = TRUE] \in Row
    <3>1. rows[k] \in Row /\ TRUE \in BOOLEAN
      BY Shape
    <3>2. QED
      BY <3>1, Zenon DEF Row
  <2>2. QED
    BY <1>2, <2>1 DEF Row
<1>4. QED
  BY <1>2, <1>3 DEF Passive

LEMMA DuesKeep ==
  ASSUME OutboxAssumption, Typed, DeliveryInv, Resumes \/ \E k \in 1 .. MaxRows : BecomesDue(k)
  PROVE  Typed' /\ DeliveryInv' /\ InPlace /\ Len(rows') = Len(rows)
<1>1. UNCHANGED <<rev, phase, past, marker, events, heard, admin, prod, work, faults>>
  BY DEF Resumes, BecomesDue
<1>2. DeliveryInv' /\ InPlace /\ rows' \in Seq(Row) /\ Len(rows') = Len(rows)
  BY <1>1, DuesArePassive, PassiveKeeps
<1>3. Typed'
  BY <1>1, <1>2 DEF Typed
<1>4. QED
  BY <1>2, <1>3


\* One row is written.
LEMMA OneRowMoves ==
  ASSUME Typed, NEW k \in 1 .. Len(rows), NEW r \in Row, rows' = [rows EXCEPT ![k] = r]
  PROVE  /\ rows' \in Seq(Row) /\ Len(rows') = Len(rows) /\ rows'[k] = r
         /\ \A j \in 1 .. Len(rows) : j # k => rows'[j] = rows[j]
BY DEF Typed

LEMMA PicksKeep ==
  ASSUME OutboxAssumption, Typed, DeliveryInv, NEW w \in Worker, Picks(w)
  PROVE  Typed' /\ DeliveryInv' /\ InPlace /\ Len(rows') = Len(rows)
<1>1. UNCHANGED <<rev, phase, past, marker, events, rows, heard, admin, prod, faults>> /\ work[w].pc = "swept"
  BY DEF Picks
<1>2. /\ Len(rows) \in Nat /\ DOMAIN rows = 1 .. Len(rows) /\ work[w] \in Working
      /\ rows = [k \in 1 .. Len(rows) |-> rows[k]] /\ \A k \in 1 .. Len(rows) : rows[k] \in Row
  BY Shape DEF Typed
<1>3. CASE ~\E k \in DOMAIN rows : First(k)
  <2>1. work' = [work EXCEPT ![w].pc = "idle"]
    BY <1>3 DEF Picks
  <2>2. /\ work' \in [Worker -> Working] /\ Moves(work, work', w)
        /\ work'[w].pc = "idle" /\ work'[w].row = work[w].row
    BY <2>1, WorkPcMoves
  <2>3. Passive(rows')
    BY <1>1, <1>2 DEF Passive
  <2>4. work[w].pc \notin Live
    BY <1>1 DEF Live
  <2>5. DeliveryInv' /\ InPlace /\ Len(rows') = Len(rows)
    BY <1>1, <2>2, <2>3, <2>4, PassiveKeeps
  <2>6. QED
    BY <1>1, <2>2, <2>5 DEF Typed
<1>4. ASSUME NEW k \in 1 .. Len(rows), First(k), work' = [work EXCEPT ![w] = [@ EXCEPT !.pc = "picked", !.row = k]]
      PROVE  Typed' /\ DeliveryInv' /\ InPlace /\ Len(rows') = Len(rows)
  <2> DEFINE v == [work[w] EXCEPT !.pc = "picked", !.row = k]
  <2>1. v \in Working /\ v.pc = "picked" /\ v.row = k
    <3>1. k \in 0 .. MaxRows
      BY <1>2, Bounds DEF Typed
    <3>2. QED
      BY <1>2, <3>1 DEF Working, Aiming
  <2>2. work' = [work EXCEPT ![w] = v]
    BY <1>4
  <2> HIDE DEF v
  <2>3. /\ work' \in [Worker -> Working] /\ Moves(work, work', w)
        /\ work'[w].pc = "picked" /\ work'[w].row = k
    BY <2>1, <2>2, WorkMoves
  <2>4. Typed'
    BY <1>1, <2>3 DEF Typed
  <2>5. \A i \in 1 .. k - 1 : ~Pending(rows[i])
    BY <1>4 DEF First, Open, Waiting, Pending
  <2>6. \A j \in 1 .. Len(rows) : Sound(rows[j], heard[j], faults[j], work', j)
    <3>1. work[w].pc \notin Live /\ work'[w].pc \notin Live
      BY <1>1, <2>3 DEF Live
    <3>2. QED
      BY <2>3, <3>1, OthersStaySound DEF DeliveryInv
  <2>7. InLine(work', rows)
    BY <1>2, <2>3, <2>5 DEF DeliveryInv, InLine, Moves
  <2>8. Steady(work', rows)
    BY <2>3 DEF DeliveryInv, Steady, Moves, Live
  <2>9. DeliveryInv'
    BY <1>1, <2>6, <2>7, <2>8 DEF DeliveryInv
  <2>10. QED
    BY <1>1, <2>4, <2>9 DEF InPlace
<1>5. QED
  BY <1>2, <1>3, <1>4 DEF Picks

\* What an aiming pass stands at.
LEMMA AimedAt ==
  ASSUME OutboxAssumption, Typed, DeliveryInv, NEW w \in Worker, work[w].pc \in Aiming
  PROVE  /\ work[w] \in Working /\ work[w].row \in 1 .. Len(rows)
         /\ rows[work[w].row] \in Row /\ heard[work[w].row] \in Nat /\ faults[work[w].row] \in Nat
         /\ Sound(rows[work[w].row], heard[work[w].row], faults[work[w].row], work, work[w].row)
         /\ "slow" \notin Faults =>
              \A x \in Worker : work[x].pc \in Live /\ work[x].row = work[w].row => Holder(rows[work[w].row], x)
<1>1. work[w] \in Working /\ work[w].row \in Nat /\ Len(rows) \in Nat
  BY Shape DEF Typed, Working
<1>2. work[w].row \in 1 .. Len(rows)
  BY <1>1 DEF DeliveryInv, InLine
<1>3. QED
  BY <1>1, <1>2, Shape DEF DeliveryInv, Steady

LEMMA LeasesKeep ==
  ASSUME OutboxAssumption, Typed, DeliveryInv, NEW w \in Worker, Leases(w)
  PROVE  Typed' /\ DeliveryInv' /\ InPlace /\ Len(rows') = Len(rows)
<1> DEFINE k == work[w].row
<1>1. UNCHANGED <<rev, phase, past, marker, events, heard, admin, prod, faults>> /\ work[w].pc = "picked"
  BY DEF Leases
<1>2. /\ work[w] \in Working /\ k \in 1 .. Len(rows)
      /\ rows[k] \in Row /\ heard[k] \in Nat /\ faults[k] \in Nat
      /\ Sound(rows[k], heard[k], faults[k], work, k)
      /\ "slow" \notin Faults =>
           \A x \in Worker : work[x].pc \in Live /\ work[x].row = k => Holder(rows[k], x)
      /\ work[w].pc \notin Live
  BY <1>1, AimedAt DEF Aiming, Live
<1>3. CASE ~Eligible(k)
  <2>1. work' = [work EXCEPT ![w].pc = "swept"] /\ UNCHANGED rows
    BY <1>3 DEF Leases
  <2>2. /\ work' \in [Worker -> Working] /\ Moves(work, work', w)
        /\ work'[w].pc = "swept" /\ work'[w].row = work[w].row
    BY <2>1, WorkPcMoves
  <2>3. Passive(rows')
    BY <2>1, Shape DEF Passive, Typed
  <2>4. DeliveryInv' /\ InPlace /\ Len(rows') = Len(rows)
    BY <1>1, <1>2, <2>2, <2>3, PassiveKeeps
  <2>5. QED
    BY <1>1, <2>1, <2>2, <2>4 DEF Typed
<1>4. CASE Eligible(k)
  <2> DEFINE r == [rows[k] EXCEPT !.status = "SENDING", !.due = FALSE, !.token = w, !.lapsed = FALSE]
  <2>1. rows' = [rows EXCEPT ![k] = r] /\ work' = [work EXCEPT ![w].pc = "leased"]
    BY <1>4 DEF Leases
  <2>2. r \in Row
    BY <1>2, RowTyped
  <2>3. /\ r.status = "SENDING" /\ r.token = w /\ r.lapsed = FALSE
        /\ r.rev = rows[k].rev /\ r.event = rows[k].event
    BY <1>2 DEF Row
  <2> HIDE DEF r
  <2>4. /\ rows' \in Seq(Row) /\ Len(rows') = Len(rows) /\ rows'[k] = r
        /\ \A j \in 1 .. Len(rows) : j # k => rows'[j] = rows[j]
    BY <1>2, <2>1, <2>2, OneRowMoves
  <2>5. /\ work' \in [Worker -> Working] /\ Moves(work, work', w)
        /\ work'[w].pc = "leased" /\ work'[w].row = k
    BY <2>1, WorkPcMoves DEF Aiming, Live
  <2>6. Typed'
    BY <1>1, <2>4, <2>5 DEF Typed
  <2>7. rows[k].status = "PENDING" \/ (rows[k].status = "SENDING" /\ rows[k].lapsed)
    BY <1>4 DEF Eligible
  <2>8. Holder(r, w)
    BY <2>3 DEF Holder
  <2>9. Sound(r, heard[k], faults[k], work', k)
    BY <1>2, <2>5, <2>7, <2>8, LeaseStaysSound
  <2>10. "slow" \notin Faults =>
           \A x \in Worker : work'[x].pc \in Live /\ work'[x].row = k => Holder(rows'[k], x)
    <3>1. SUFFICES ASSUME "slow" \notin Faults, NEW x \in Worker, work'[x].pc \in Live, work'[x].row = k, x # w
                   PROVE  FALSE
      BY <2>4, <2>8
    <3>2. Holder(rows[k], x)
      BY <1>2, <2>5, <3>1 DEF Moves
    <3>3. QED
      BY <2>7, <3>2 DEF Holder
  <2>11. /\ rows'[k].rev = rows[k].rev /\ rows'[k].event = rows[k].event
         /\ ~Pending(rows[k]) => rows'[k].status = rows[k].status
    BY <2>3, <2>4, <2>7 DEF Pending
  <2>12. /\ \A j \in 1 .. Len(rows) : j # k =>
              rows'[j] = rows[j] /\ heard'[j] = heard[j] /\ faults'[j] = faults[j]
         /\ Sound(rows'[k], heard'[k], faults'[k], work', k)
    BY <1>1, <2>4, <2>9
  <2>13. work'[w].row = k /\ work[w].pc \in Aiming
    BY <1>1, <2>5 DEF Aiming
  <2>14. k \in 1 .. Len(rows) /\ Len(rows') = Len(rows) /\ Moves(work, work', w)
    BY <1>2, <2>4, <2>5
  <2>15. DeliveryInv' /\ InPlace
    BY <2>6, <2>10, <2>11, <2>12, <2>13, <2>14, OneMovesKeeps
  <2>16. QED
    BY <2>6, <2>14, <2>15
<1>5. QED
  BY <1>3, <1>4

\* ChecksSource, CheckFails and Settles leave a row: its outcome is written over the lease.
LEMMA SettleKeeps ==
  ASSUME OutboxAssumption, Typed, DeliveryInv, NEW w \in Worker, work[w].pc \in Live \ {"checked"},
         NEW s \in Outcome(work[w].pc), NEW d \in BOOLEAN, Settle(w, s, d),
         work' = [work EXCEPT ![w].pc = "swept"],
         UNCHANGED <<rev, phase, past, marker, events, heard, admin, prod, faults>>
  PROVE  Typed' /\ DeliveryInv' /\ InPlace /\ Len(rows') = Len(rows)
<1> DEFINE k == work[w].row
           r == IF Holds(w) THEN [rows[k] EXCEPT !.status = s, !.due = d, !.token = None, !.lapsed = FALSE]
                ELSE rows[k]
<1>1. /\ work[w] \in Working /\ k \in 1 .. Len(rows)
      /\ rows[k] \in Row /\ heard[k] \in Nat /\ faults[k] \in Nat
      /\ Sound(rows[k], heard[k], faults[k], work, k)
      /\ "slow" \notin Faults =>
           \A x \in Worker : work[x].pc \in Live /\ work[x].row = k => Holder(rows[k], x)
  BY AimedAt DEF Aiming
<1>2. s \in {"PENDING", "SENDING", "SENT", "CANCELLED"}
  BY DEF Outcome, Live
<1>3. r \in Row /\ r.rev = rows[k].rev /\ r.event = rows[k].event
  <2>1. [rows[k] EXCEPT !.status = s, !.due = d, !.token = None, !.lapsed = FALSE] \in Row
    BY <1>1, <1>2, RowTyped
  <2>2. QED
    BY <1>1, <2>1 DEF Row
<1>4. rows' = [rows EXCEPT ![k] = r]
  <2>1. ~Holds(w) => rows = [rows EXCEPT ![k] = rows[k]]
    BY <1>1 DEF Typed
  <2>2. QED
    BY <2>1 DEF Settle
<1>5. IF rows[k].status = "SENDING" /\ rows[k].token = w THEN r.status = s ELSE r = rows[k]
  BY <1>1 DEF Holds, Row
<1> HIDE DEF r
<1>6. /\ rows' \in Seq(Row) /\ Len(rows') = Len(rows) /\ rows'[k] = r
      /\ \A j \in 1 .. Len(rows) : j # k => rows'[j] = rows[j]
  BY <1>1, <1>3, <1>4, OneRowMoves
<1>7. /\ work' \in [Worker -> Working] /\ Moves(work, work', w)
      /\ work'[w].pc = "swept" /\ work'[w].row = k
  BY WorkPcMoves
<1>8. Typed'
  BY <1>6, <1>7 DEF Typed
<1>9. Sound(r, heard[k], faults[k], work', k)
  <2>1. /\ rows[k].status = "SENDING" /\ rows[k].token = w => r.status \in Outcome(work[w].pc)
        /\ (rows[k].status = "SENDING" /\ rows[k].token = w) \/ r = rows[k]
    BY <1>5
  <2>2. QED
    BY <1>1, <1>7, <2>1, LeavesSound
<1>10. ~Pending(rows[k]) => r.status = rows[k].status
  BY <1>5 DEF Pending
<1>11. "slow" \notin Faults =>
         \A x \in Worker : work'[x].pc \in Live /\ work'[x].row = k => Holder(rows'[k], x)
  <2>1. SUFFICES ASSUME "slow" \notin Faults, NEW x \in Worker, work'[x].pc \in Live, work'[x].row = k
                 PROVE  FALSE
    OBVIOUS
  <2>2. x # w
    BY <1>7, <2>1 DEF Live
  <2>3. Holder(rows[k], x) /\ Holder(rows[k], w)
    BY <1>1, <1>7, <2>1, <2>2 DEF Moves
  <2>4. QED
    BY <2>2, <2>3 DEF Holder
<1>12. work'[w].pc \notin Aiming
  BY <1>7 DEF Aiming, Live
<1>13. /\ rows'[k].rev = rows[k].rev /\ rows'[k].event = rows[k].event
       /\ ~Pending(rows[k]) => rows'[k].status = rows[k].status
       /\ \A j \in 1 .. Len(rows) : j # k =>
            rows'[j] = rows[j] /\ heard'[j] = heard[j] /\ faults'[j] = faults[j]
       /\ Sound(rows'[k], heard'[k], faults'[k], work', k)
  BY <1>3, <1>6, <1>9, <1>10
<1>14. k \in 1 .. Len(rows) /\ Len(rows') = Len(rows) /\ Moves(work, work', w) /\ work'[w].row = k
  BY <1>1, <1>6, <1>7
<1>15. DeliveryInv' /\ InPlace
  BY <1>8, <1>11, <1>12, <1>13, <1>14, OneMovesKeeps
<1>16. QED
  BY <1>8, <1>14, <1>15

\* ChecksSource, Accepts and Refuses go on with the row.
LEMMA GoesOnKeeps ==
  ASSUME OutboxAssumption, Typed, DeliveryInv, NEW w \in Worker, NEW p \in Live,
         NEW g \in Nat, NEW e \in Nat, work' = [work EXCEPT ![w].pc = p],
         heard' = [heard EXCEPT ![work[w].row] = g], faults' = [faults EXCEPT ![work[w].row] = e],
         Goes(work[w].pc, p, heard[work[w].row], faults[work[w].row], g, e),
         UNCHANGED <<rev, phase, past, marker, events, rows, admin, prod>>
  PROVE  Typed' /\ DeliveryInv' /\ InPlace /\ Len(rows') = Len(rows)
<1> DEFINE k == work[w].row
<1>1. /\ work[w].pc \in Aiming /\ work[w].pc \in Live
      /\ work[w] \in Working /\ k \in 1 .. Len(rows)
      /\ rows[k] \in Row /\ heard[k] \in Nat /\ faults[k] \in Nat
      /\ Sound(rows[k], heard[k], faults[k], work, k)
      /\ "slow" \notin Faults =>
           \A x \in Worker : work[x].pc \in Live /\ work[x].row = k => Holder(rows[k], x)
  <2>1. work[w].pc \in Aiming /\ work[w].pc \in Live
    BY DEF Aiming, Live, Goes
  <2>2. QED
    BY <2>1, AimedAt
<1>2. /\ work' \in [Worker -> Working] /\ Moves(work, work', w)
      /\ work'[w].pc = p /\ work'[w].row = k
  BY WorkPcMoves DEF Aiming
<1>3. /\ heard' \in Seq(Nat) /\ Len(heard') = Len(rows) /\ heard'[k] = g
      /\ \A j \in 1 .. Len(rows) : j # k => heard'[j] = heard[j]
  BY <1>1, Shape DEF Typed
<1>4. /\ faults' \in [0 .. Len(rows) -> Nat] /\ faults'[k] = e
      /\ \A j \in 1 .. Len(rows) : j # k => faults'[j] = faults[j]
  BY <1>1, Shape DEF Typed
<1>5. Typed'
  BY <1>2, <1>3, <1>4 DEF Typed
<1>6. Sound(rows[k], g, e, work', k)
  <2>1. Goes(work[w].pc, work'[w].pc, heard[k], faults[k], g, e) /\ work[w].row = k
    BY <1>2
  <2> HIDE DEF k
  <2>2. QED
    BY <1>1, <1>2, <2>1, GoesOnSound
<1>7. \A x \in Worker : work'[x].pc \in Live /\ work'[x].row = k => work[x].pc \in Live /\ work[x].row = k
  BY <1>1, <1>2 DEF Moves
<1>8. /\ rows'[k] = rows[k] /\ Len(rows') = Len(rows)
      /\ \A j \in 1 .. Len(rows) : j # k => rows'[j] = rows[j] /\ heard'[j] = heard[j] /\ faults'[j] = faults[j]
      /\ Sound(rows'[k], heard'[k], faults'[k], work', k)
      /\ "slow" \notin Faults =>
           \A x \in Worker : work'[x].pc \in Live /\ work'[x].row = k => Holder(rows'[k], x)
  BY <1>1, <1>3, <1>4, <1>6, <1>7
<1>9. DeliveryInv' /\ InPlace
  BY <1>1, <1>2, <1>5, <1>8, OneMovesKeeps
<1>10. QED
  BY <1>5, <1>8, <1>9

LEMMA ChecksKeep ==
  ASSUME OutboxAssumption, Typed, DeliveryInv, NEW w \in Worker,
         ChecksSource(w) \/ CheckFails(w) \/ Settles(w)
  PROVE  Typed' /\ DeliveryInv' /\ InPlace /\ Len(rows') = Len(rows)
<1>1. UNCHANGED <<rev, phase, past, marker, events, heard, admin, prod, faults>>
  BY DEF ChecksSource, CheckFails, Settles
<1>2. CASE Settles(w)
  BY <1>1, <1>2, SettleKeeps DEF Settles, Outcome, Live
<1>3. CASE CheckFails(w)
  BY <1>1, <1>3, SettleKeeps DEF CheckFails, Outcome, Live
<1>4. CASE ChecksSource(w)
  <2>1. work[w].pc = "leased"
    BY <1>4 DEF ChecksSource
  <2>2. CASE Settle(w, "CANCELLED", FALSE) /\ work' = [work EXCEPT ![w].pc = "swept"]
    BY <1>1, <2>1, <2>2, SettleKeeps DEF Outcome, Live
  <2>3. CASE work' = [work EXCEPT ![w].pc = "checked"] /\ UNCHANGED rows
    <3>1. work[w].row \in 1 .. Len(rows) /\ heard[work[w].row] \in Nat /\ faults[work[w].row] \in Nat
      BY <2>1, AimedAt DEF Aiming, Live
    <3>2. /\ heard' = [heard EXCEPT ![work[w].row] = heard[work[w].row]]
          /\ faults' = [faults EXCEPT ![work[w].row] = faults[work[w].row]]
      BY <1>1, <3>1, Shape DEF Typed
    <3>3. "checked" \in Live
      BY DEF Live
    <3>4. Goes(work[w].pc, "checked", heard[work[w].row], faults[work[w].row],
               heard[work[w].row], faults[work[w].row])
      BY <2>1 DEF Goes
    <3>5. UNCHANGED <<rev, phase, past, marker, events, rows, admin, prod>>
      BY <1>1, <2>3
    <3>6. work' = [work EXCEPT ![w].pc = "checked"]
      BY <2>3
    <3>7. QED
      BY <3>1, <3>2, <3>3, <3>4, <3>5, <3>6, GoesOnKeeps
  <2>4. QED
    BY <1>4, <2>2, <2>3 DEF ChecksSource
<1>5. QED
  BY <1>2, <1>3, <1>4

LEMMA SameAgain ==
  ASSUME NEW D, NEW S, NEW f \in [D -> S], NEW k \in D
  PROVE  f = [f EXCEPT ![k] = f[k]]
OBVIOUS

LEMMA AnswersKeep ==
  ASSUME OutboxAssumption, Typed, DeliveryInv, NEW w \in Worker, Accepts(w) \/ Refuses(w)
  PROVE  Typed' /\ DeliveryInv' /\ InPlace /\ Len(rows') = Len(rows)
<1> DEFINE k == work[w].row
<1>1. work[w].pc = "checked" /\ UNCHANGED <<rev, phase, past, marker, events, rows, admin, prod>>
  BY DEF Accepts, Refuses
<1>2. k \in 1 .. Len(rows) /\ heard[k] \in Nat /\ faults[k] \in Nat
  BY <1>1, AimedAt DEF Aiming, Live
<1>3. /\ heard = [heard EXCEPT ![k] = heard[k]] /\ faults = [faults EXCEPT ![k] = faults[k]]
      /\ heard[k] + 1 \in Nat /\ faults[k] + 1 \in Nat
  <2>1. heard \in [1 .. Len(rows) -> Nat] /\ faults \in [0 .. Len(rows) -> Nat] /\ k \in 0 .. Len(rows)
    BY <1>2, Shape DEF Typed
  <2>2. heard = [heard EXCEPT ![k] = heard[k]]
    BY <1>2, <2>1, SameAgain
  <2>3. faults = [faults EXCEPT ![k] = faults[k]]
    BY <2>1, SameAgain
  <2>4. QED
    BY <1>2, <2>2, <2>3
<1>4. /\ {"yes", "no", "never"} \subseteq Live
      /\ Goes(work[w].pc, "yes", heard[k], faults[k], heard[k] + 1, faults[k])
      /\ Goes(work[w].pc, "no", heard[k], faults[k], heard[k] + 1, faults[k] + 1)
      /\ \A p \in {"never", "no"} : Goes(work[w].pc, p, heard[k], faults[k], heard[k], faults[k])
  <2>1. \A h, f : /\ Goes("checked", "yes", h, f, h + 1, f) /\ Goes("checked", "no", h, f, h + 1, f + 1)
                  /\ \A p \in {"never", "no"} : Goes("checked", p, h, f, h, f)
    BY DEF Goes
  <2>2. {"yes", "no", "never"} \subseteq Live
    BY DEF Live
  <2>3. QED
    BY <1>1, <2>1, <2>2
<1>5. CASE Accepts(w)
  <2>1. heard' = [heard EXCEPT ![k] = heard[k] + 1]
    BY <1>5 DEF Accepts
  <2>2. CASE work' = [work EXCEPT ![w].pc = "yes"] /\ UNCHANGED faults
    BY <1>1, <1>2, <1>3, <1>4, <2>1, <2>2, GoesOnKeeps
  <2>3. CASE work' = [work EXCEPT ![w].pc = "no"] /\ faults' = [faults EXCEPT ![k] = faults[k] + 1]
    BY <1>1, <1>2, <1>3, <1>4, <2>1, <2>3, GoesOnKeeps
  <2>4. QED
    BY <1>5, <2>2, <2>3 DEF Accepts
<1>6. CASE Refuses(w)
  <2>1. PICK p \in {"never", "no"} : work' = [work EXCEPT ![w].pc = p]
    BY <1>6 DEF Refuses
  <2>2. UNCHANGED <<heard, faults>>
    BY <1>6 DEF Refuses
  <2>3. QED
    BY <1>1, <1>2, <1>3, <1>4, <2>1, <2>2, GoesOnKeeps
<1>7. QED
  BY <1>5, <1>6

\* A delivery pass dies.
LEMMA DiesKeep ==
  ASSUME OutboxAssumption, Typed, DeliveryInv, NEW w \in Worker, work' = [work EXCEPT ![w] = IdleWork],
         faults' = [faults EXCEPT ![work[w].row] = @ + 1],
         UNCHANGED <<rev, phase, past, marker, events, rows, heard, admin, prod>>
  PROVE  Typed' /\ DeliveryInv' /\ InPlace /\ Len(rows') = Len(rows)
<1> DEFINE k == work[w].row
<1>1. /\ IdleWork \in Working /\ IdleWork.row = 0 /\ IdleWork.pc = "idle"
  BY Bounds DEF IdleWork, Working
<1>2. /\ work' \in [Worker -> Working] /\ work'[w] = IdleWork /\ Moves(work, work', w)
  BY <1>1, WorkMoves
<1>3. k \in 0 .. Len(rows) /\ faults[k] \in Nat /\ Len(rows) \in Nat
  <2>1. k \in Nat /\ k <= Len(rows) /\ Len(rows) \in Nat
    BY Shape DEF Typed, Working, DeliveryInv, InLine
  <2>2. QED
    BY <2>1 DEF Typed
<1>4. /\ faults' \in [0 .. Len(rows) -> Nat] /\ faults'[k] = faults[k] + 1
      /\ \A j \in 1 .. Len(rows) : j # k => faults'[j] = faults[j]
  BY <1>3 DEF Typed
<1>5. Typed'
  BY <1>2, <1>4 DEF Typed
<1>6. CASE k # 0
  <2>1. /\ k \in 1 .. Len(rows) /\ heard[k] \in Nat /\ Sound(rows[k], heard[k], faults[k], work, k)
    BY <1>3, <1>6, Shape DEF DeliveryInv
  <2>2. Sound(rows[k], heard[k], faults[k] + 1, work', k)
    BY <1>1, <1>2, <1>3, <2>1, DiesSound
  <2>3. \A x \in Worker : work'[x].pc \in Live /\ work'[x].row = k => work[x].pc \in Live /\ work[x].row = k
    BY <1>1, <1>2 DEF Moves, Live
  <2>4. "slow" \notin Faults =>
          \A x \in Worker : work'[x].pc \in Live /\ work'[x].row = k => Holder(rows[k], x)
    BY <2>3 DEF DeliveryInv, Steady
  <2>5. work'[w].pc \notin Aiming /\ work'[w].row \in {0, k}
    BY <1>1, <1>2 DEF Aiming, Live
  <2>6. /\ rows'[k] = rows[k] /\ Len(rows') = Len(rows)
        /\ \A j \in 1 .. Len(rows) : j # k => rows'[j] = rows[j] /\ heard'[j] = heard[j] /\ faults'[j] = faults[j]
        /\ Sound(rows'[k], heard'[k], faults'[k], work', k)
        /\ "slow" \notin Faults =>
             \A x \in Worker : work'[x].pc \in Live /\ work'[x].row = k => Holder(rows'[k], x)
    BY <1>4, <2>2, <2>4
  <2>7. DeliveryInv' /\ InPlace
    BY <1>2, <1>5, <2>1, <2>5, <2>6, OneMovesKeeps
  <2>8. QED
    BY <1>5, <2>6, <2>7
<1>7. CASE k = 0
  <2>1. work[w].pc \notin Live /\ work'[w].pc \notin Live /\ work'[w].pc \notin Aiming
    BY <1>1, <1>2, <1>7 DEF DeliveryInv, InLine, Aiming, Live
  <2>2. \A j \in 1 .. Len(rows) : faults'[j] = faults[j] /\ heard[j] \in Nat /\ faults[j] \in Nat
    BY <1>4, <1>7, Shape
  <2>3. \A j \in 1 .. Len(rows) : Sound(rows[j], heard[j], faults[j], work', j)
    BY <1>2, <2>1, <2>2, OthersStaySound DEF DeliveryInv
  <2>4. InLine(work', rows)
    BY <1>1, <1>2, <1>3, <2>1 DEF DeliveryInv, InLine, Moves
  <2>5. Steady(work', rows)
    BY <1>2, <2>1 DEF DeliveryInv, Steady, Moves
  <2>6. DeliveryInv'
    BY <2>2, <2>3, <2>4, <2>5 DEF DeliveryInv
  <2>7. QED
    BY <1>5, <2>6 DEF InPlace
<1>8. QED
  BY <1>6, <1>7

\* A lease runs out.
LEMMA RowLapsesKeep ==
  ASSUME OutboxAssumption, Typed, DeliveryInv, NEW k, RowLapses(k)
  PROVE  Typed' /\ DeliveryInv' /\ InPlace /\ Len(rows') = Len(rows)
<1> DEFINE alive == \E w \in Worker : work[w].row = k /\ rows[k].token = w
                      /\ work[w].pc \in {"leased", "checked", "yes", "no", "never"}
           r == [rows[k] EXCEPT !.lapsed = TRUE]
<1>1. /\ k \in 1 .. Len(rows) /\ rows[k].status = "SENDING" /\ ~rows[k].lapsed
      /\ rows[k] \in Row /\ heard[k] \in Nat /\ faults[k] \in Nat /\ Len(rows) \in Nat
      /\ Sound(rows[k], heard[k], faults[k], work, k)
  BY Shape DEF RowLapses, DeliveryInv
<1>2. /\ alive => "slow" \in Faults
      /\ faults' = IF alive THEN [faults EXCEPT ![k] = faults[k] + 1] ELSE faults
      /\ UNCHANGED <<rev, phase, past, marker, events, heard, admin, prod, work>>
  BY DEF RowLapses
<1>3. r \in Row /\ r.status = "SENDING" /\ r.token = rows[k].token
      /\ r.rev = rows[k].rev /\ r.event = rows[k].event
  <2>1. r \in Row
    BY <1>1, Zenon DEF Row
  <2>2. QED
    BY <1>1, <2>1 DEF Row
<1>4. rows' = [rows EXCEPT ![k] = r]
  BY DEF RowLapses
<1>5. alive <=> \E w \in At(work, k, Live) : rows[k].token = w
  BY DEF At, Live
<1> HIDE DEF r, alive
<1>6. /\ rows' \in Seq(Row) /\ Len(rows') = Len(rows) /\ rows'[k] = r
      /\ \A j \in 1 .. Len(rows) : j # k => rows'[j] = rows[j]
  BY <1>1, <1>3, <1>4, OneRowMoves
<1>7. /\ faults' \in [0 .. Len(rows) -> Nat]
      /\ \A j \in 1 .. Len(rows) : j # k => faults'[j] = faults[j]
      /\ faults'[k] \in Nat /\ faults'[k] = IF alive THEN faults[k] + 1 ELSE faults[k]
  BY <1>1, <1>2 DEF Typed
<1>8. Typed'
  BY <1>2, <1>6, <1>7 DEF Typed
<1>9. Sound(r, heard[k], faults'[k], work, k)
  <2>1. \/ faults'[k] = faults[k] + 1
        \/ faults'[k] = faults[k] /\ \A w \in At(work, k, Live) : rows[k].token # w
    BY <1>5, <1>7
  <2>2. QED
    BY <1>1, <1>3, <1>7, <2>1, LapseStaysSound
<1>10. \A j \in 1 .. Len(rows') : Sound(rows'[j], heard'[j], faults'[j], work', j)
  BY <1>2, <1>6, <1>7, <1>9 DEF DeliveryInv
<1>11. \A j \in 1 .. Len(rows) : Pending(rows'[j]) => Pending(rows[j])
  BY <1>1, <1>6 DEF Pending
<1>12. InLine(work', rows')
  <2>1. ASSUME NEW x \in Worker
        PROVE  /\ work'[x].row <= Len(rows')
               /\ work'[x].pc \in Aiming =>
                    work'[x].row # 0 /\ \A i \in 1 .. work'[x].row - 1 : ~Pending(rows'[i])
    <3>1. work[x].row \in Nat
      BY DEF Typed, Working
    <3>2. QED
      BY <1>1, <1>2, <1>6, <1>11, <3>1 DEF DeliveryInv, InLine
  <2>2. QED
    BY <2>1 DEF InLine
<1>13. Steady(work', rows')
  <2> SUFFICES ASSUME "slow" \notin Faults, NEW x \in Worker, work[x].pc \in Live
               PROVE  Holder(rows'[work[x].row], x)
    BY <1>2 DEF Steady
  <2>1. Holder(rows[work[x].row], x)
    BY DEF DeliveryInv, Steady
  <2>2. work[x].row \in 1 .. Len(rows)
    BY AimedAt DEF Aiming
  <2>3. work[x].row # k
    BY <1>2, <1>5, <2>1 DEF Holder, At
  <2>4. QED
    BY <1>6, <2>1, <2>2, <2>3
<1>14. InPlace
  BY <1>1, <1>3, <1>6 DEF InPlace, Pending
<1>15. QED
  BY <1>6, <1>8, <1>10, <1>12, <1>13, <1>14 DEF DeliveryInv

\* A post is queued: it is the last, and nobody stands at it.
LEMMA AddsKeep ==
  ASSUME OutboxAssumption, Typed, DeliveryInv, NEW r \in Row, r.status = "PENDING", Adds(r), UNCHANGED work
  PROVE  /\ rows' \in Seq(Row) /\ Len(rows') = Len(rows) + 1 /\ Len(rows') <= MaxRows
         /\ heard' \in Seq(Nat) /\ Len(heard') = Len(rows')
         /\ faults' \in [0 .. Len(rows') -> Nat]
         /\ rows'[Len(rows')] = r /\ \A k \in 1 .. Len(rows) : rows'[k] = rows[k] /\ heard'[k] = heard[k]
         /\ DeliveryInv' /\ InPlace
<1> DEFINE n == Len(rows)
<1>1. /\ rows \in Seq(Row) /\ heard \in Seq(Nat) /\ Len(heard) = n /\ n \in Nat
      /\ n < MaxRows /\ rows' = Append(rows, r) /\ heard' = Append(heard, 0)
      /\ DOMAIN faults = 0 .. n /\ faults \in [0 .. n -> Nat] /\ MaxRows \in Nat
  BY Shape, Bounds DEF Typed, Adds
<1>2. /\ rows' \in Seq(Row) /\ Len(rows') = n + 1 /\ rows'[n + 1] = r
      /\ \A k \in 1 .. n : rows'[k] = rows[k]
  BY <1>1
<1>3. /\ heard' \in Seq(Nat) /\ Len(heard') = n + 1 /\ heard'[n + 1] = 0
      /\ \A k \in 1 .. n : heard'[k] = heard[k]
  BY <1>1
<1>4. /\ faults' \in [0 .. n + 1 -> Nat] /\ faults'[n + 1] = 0
      /\ \A k \in 1 .. n : faults'[k] = faults[k]
  <2>1. 0 .. n + 1 = (0 .. n) \cup {n + 1}
    BY <1>1
  <2>2. faults' = [k \in 0 .. n + 1 |-> IF k \in 0 .. n THEN faults[k] ELSE 0]
    BY <1>1, <2>1 DEF Adds
  <2>3. QED
    BY <1>1, <2>2
<1>5. ASSUME NEW x \in Worker PROVE work[x].row \in Nat /\ work[x].row <= n
  BY DEF Typed, Working, DeliveryInv, InLine
<1>6. Sound(rows'[n + 1], 0, 0, work, n + 1)
  <2>1. \A x \in Worker : work[x].row # n + 1
    BY <1>1, <1>5
  <2>2. QED
    BY <1>2, <2>1, NewRowIsSound
<1>7. \A k \in 1 .. Len(rows') : Sound(rows'[k], heard'[k], faults'[k], work', k)
  <2>1. \A k \in 1 .. n : Sound(rows'[k], heard'[k], faults'[k], work', k)
    BY <1>2, <1>3, <1>4 DEF DeliveryInv
  <2>2. Sound(rows'[n + 1], heard'[n + 1], faults'[n + 1], work', n + 1)
    BY <1>3, <1>4, <1>6
  <2>3. \A k \in 1 .. n + 1 : k \in 1 .. n \/ k = n + 1
    BY <1>1
  <2>4. QED
    BY <1>2, <2>1, <2>2, <2>3
<1>8. InLine(work', rows')
  <2>1. ASSUME NEW x \in Worker
        PROVE  /\ work[x].row <= Len(rows')
               /\ work[x].pc \in Aiming =>
                    work[x].row # 0 /\ \A i \in 1 .. work[x].row - 1 : ~Pending(rows'[i])
    BY <1>1, <1>2, <1>5 DEF DeliveryInv, InLine
  <2>2. QED
    BY <2>1 DEF InLine
<1>9. Steady(work', rows')
  <2>1. ASSUME NEW x \in Worker, work[x].pc \in Live PROVE rows'[work[x].row] = rows[work[x].row]
    BY <1>2, <2>1, AimedAt DEF Aiming
  <2>2. QED
    BY <2>1 DEF DeliveryInv, Steady
<1>10. InPlace
  BY <1>2 DEF InPlace
<1>11. QED
  BY <1>1, <1>2, <1>3, <1>4, <1>7, <1>8, <1>9, <1>10 DEF DeliveryInv

-----------------------------------------------------------------------------
(* Nights, markers and events *)

Claiming == {"reread", "send", "sent", "failed"}

\* Every event in use was drawn, and what a pass or a row is about has been announced.
EventsAreDrawn ==
  /\ \A r \in Night : /\ marker[r].event <= events
                      /\ marker[r].kind \in {"claim", "failed"} => marker[r].event # 0
                      /\ r > rev => marker[r].kind = "none"
  /\ \A p \in Producer : /\ prod[p].pc # "idle" => prod[p].rev <= rev
                         /\ prod[p].event <= events
                         /\ prod[p].pc \in Claiming => prod[p].event # 0
                         /\ prod[p].pc = "reclaim" =>
                              /\ prod[p].seen.kind \in {"claim", "failed"}
                              /\ prod[p].seen.event # 0 /\ prod[p].seen.event <= events
  /\ \A k \in 1 .. Len(rows) : /\ rows[k].rev <= rev /\ rows[k].event <= events
                               /\ rows[k].rev # 0 <=> rows[k].event # 0
\* While a night is due its marker names the event of its posts.
MarkerNamesIts ==
  Due => /\ \A p \in Producer : prod[p].pc \in Claiming /\ prod[p].rev = rev
                                  => OwnsEvent(marker[rev], prod[p].event)
         /\ \A k \in 1 .. Len(rows) : rows[k].rev = rev => OwnsEvent(marker[rev], rows[k].event)
\* So that a night's posts, those still to be queued too, are of one event ...
OneEventPerNight ==
  /\ \A j, k \in 1 .. Len(rows) : rows[j].rev = rows[k].rev => rows[j].event = rows[k].event
  /\ \A k \in 1 .. Len(rows), p \in Producer :
       prod[p].pc = "send" /\ rows[k].rev = prod[p].rev => rows[k].event = prod[p].event
  /\ \A p, q \in Producer : prod[p].pc = "send" /\ prod[q].pc = "send" /\ prod[p].rev = prod[q].rev
                              => prod[p].event = prod[q].event
\* ... and an event is one row.
OneRowPerEvent ==
  \A j, k \in 1 .. Len(rows) : rows[j].event = rows[k].event /\ rows[k].event # 0 => j = k
Listed(e) == \E k \in 1 .. Len(rows) : rows[k].event = e
SentWasQueued ==
  /\ \A r \in Night : marker[r].kind = "sent" /\ marker[r].event # 0 => Listed(marker[r].event)
  /\ \A p \in Producer : prod[p].pc = "sent" => Listed(prod[p].event)
\* Where an admin's change and the automation pass take turns, a change leaves no
\* marker that a post still to go out could be checked against.
Over(r) == r # rev \/ phase # "setup"
OldNightsForgotten == ~Overlaps =>
  /\ \A k \in 1 .. Len(rows) : Pending(rows[k]) /\ rows[k].rev # 0 /\ Over(rows[k].rev)
                                 => ~OwnsEvent(marker[rows[k].rev], rows[k].event)
  /\ \A p \in Producer : prod[p].pc = "send" /\ Over(prod[p].rev)
                           => ~OwnsEvent(marker[prod[p].rev], prod[p].event) \/ Listed(prod[p].event)
  /\ admin.pc # "idle" =>
       /\ phase = "setup"
       /\ \A r \in Night : admin.ms[r].kind = marker[r].kind
       /\ \A k \in 1 .. Len(rows) : Pending(rows[k]) => rows[k].rev \in admin.queued

\* An open change was opened for the night that stands, before the auction.
Opened == admin.pc # "idle" => phase = "setup" /\ (admin.pc = "move" => rev < MaxRev)

NightInv == /\ EventsAreDrawn /\ MarkerNamesIts /\ OneEventPerNight
            /\ OneRowPerEvent /\ SentWasQueued /\ OldNightsForgotten

\* Nothing but rows and time moves.
LEMMA NightStands ==
  ASSUME OutboxAssumption, Typed, NightInv, InPlace, Len(rows') = Len(rows), past \subseteq past',
         phase' = phase \/ (phase = "live" /\ phase' = "over"),
         UNCHANGED <<rev, marker, events, prod, admin>>
  PROVE  NightInv'
<1>1. /\ \A k \in 1 .. Len(rows) : rows'[k].rev = rows[k].rev /\ rows'[k].event = rows[k].event
      /\ \A k \in 1 .. Len(rows) : Pending(rows'[k]) => Pending(rows[k])
  BY DEF InPlace, Pending
<1>2. Due' => Due
  BY DEF Due
<1>3. (EventsAreDrawn /\ OneEventPerNight /\ OneRowPerEvent)'
  BY <1>1 DEF NightInv, EventsAreDrawn, OneEventPerNight, OneRowPerEvent
<1>4. MarkerNamesIts'
  BY <1>1, <1>2 DEF NightInv, MarkerNamesIts
<1>5. \A e : Listed(e)' <=> Listed(e)
  BY <1>1 DEF Listed
<1>6. SentWasQueued'
  BY <1>5 DEF NightInv, SentWasQueued
<1>7. OldNightsForgotten'
  <2>1. \A r : Over(r)' <=> Over(r)
    BY DEF Over
  <2>2. phase = "setup" => phase' = "setup"
    OBVIOUS
  <2>3. QED
    BY <1>1, <1>5, <2>1, <2>2 DEF NightInv, OldNightsForgotten
<1>8. QED
  BY <1>3, <1>4, <1>6, <1>7 DEF NightInv

\* A pass of the automation moves, and with it at most its night's marker: that never
\* comes to name an event of before, and while the night is due keeps the one it names.
LEMMA ProducerMoves ==
  ASSUME OutboxAssumption, Typed, Typed', NightInv, NEW p \in Producer,
         UNCHANGED <<rev, phase, past, rows, admin>>, events' >= events,
         \A q \in Producer : q # p => prod'[q] = prod[q],
         (~Overlaps => admin.pc = "idle") \/ UNCHANGED marker,
         \A r \in Night : \A e \in 0 .. events :
           /\ OwnsEvent(marker'[r], e) => OwnsEvent(marker[r], e)
           /\ Due /\ r = rev /\ OwnsEvent(marker[r], e) => OwnsEvent(marker'[r], e),
         \A r \in Night : marker'[r] = marker[r] \/
           /\ marker'[r].event <= events' /\ r <= rev
           /\ marker'[r].kind \in {"claim", "failed"} => marker'[r].event # 0
           /\ marker'[r].kind = "sent" /\ marker'[r].event # 0 => Listed(marker'[r].event),
         /\ prod'[p].pc # "idle" => prod'[p].rev <= rev
         /\ prod'[p].event <= events'
         /\ prod'[p].pc \in Claiming => prod'[p].event # 0
         /\ prod'[p].pc = "reclaim" =>
              /\ prod'[p].seen.kind \in {"claim", "failed"}
              /\ prod'[p].seen.event # 0 /\ prod'[p].seen.event <= events',
         prod'[p].pc \in Claiming /\ prod'[p].rev = rev /\ Due => OwnsEvent(marker'[rev], prod'[p].event),
         prod'[p].pc = "send" => Due /\ prod'[p].rev = rev,
         prod'[p].pc = "sent" => Listed(prod'[p].event)
  PROVE  NightInv'
<1>1. /\ events \in Nat /\ events' \in Nat /\ Len(rows) \in Nat /\ (Due => rev \in Night)
      /\ \A q \in Producer : prod[q].event \in Nat /\ prod[q].rev \in Night /\ prod[q].seen.event \in Nat
      /\ \A r \in Night : marker[r].event \in Nat
      /\ \A k \in 1 .. Len(rows) : rows[k].rev \in Nat /\ rows[k].event \in Nat
  <2>1. Event \subseteq Nat /\ Night \subseteq Nat
    BY Bounds DEF Event, Night
  <2>2. \A q \in Producer : prod[q].event \in Nat /\ prod[q].rev \in Night /\ prod[q].seen.event \in Nat
    BY <2>1 DEF Typed, Producing, Marker
  <2>3. \A r \in Night : marker[r].event \in Nat
    BY <2>1 DEF Typed, Marker
  <2>4. \A k \in 1 .. Len(rows) : rows[k].rev \in Nat /\ rows[k].event \in Nat
    <3>1. ASSUME NEW k \in 1 .. Len(rows) PROVE rows[k].rev \in 0 .. MaxRev /\ rows[k].event \in Event
      BY Shape DEF Row
    <3>2. 0 .. MaxRev \subseteq Nat
      BY Bounds
    <3>3. QED
      BY <2>1, <3>1, <3>2
  <2>5. events \in Nat /\ events' \in Nat /\ Len(rows) \in Nat /\ (Due => rev \in Night)
    BY <2>1, Shape, Bounds DEF Typed, Due, Night
  <2>6. QED
    BY <2>2, <2>3, <2>4, <2>5
<1>2. EventsAreDrawn'
  <2>1. ASSUME NEW r \in Night
        PROVE  /\ marker'[r].event <= events'
               /\ marker'[r].kind \in {"claim", "failed"} => marker'[r].event # 0
               /\ r > rev => marker'[r].kind = "none"
    <3>1. rev \in Nat /\ r \in Nat
      BY Bounds DEF Typed, Night
    <3>2. QED
      BY <1>1, <3>1 DEF NightInv, EventsAreDrawn
  <2>2. ASSUME NEW q \in Producer, q # p
        PROVE  /\ prod[q].pc # "idle" => prod[q].rev <= rev
               /\ prod[q].event <= events'
               /\ prod[q].pc \in Claiming => prod[q].event # 0
               /\ prod[q].pc = "reclaim" =>
                    /\ prod[q].seen.kind \in {"claim", "failed"}
                    /\ prod[q].seen.event # 0 /\ prod[q].seen.event <= events'
    BY <1>1 DEF NightInv, EventsAreDrawn
  <2>3. ASSUME NEW k \in 1 .. Len(rows)
        PROVE  /\ rows[k].rev <= rev /\ rows[k].event <= events'
               /\ rows[k].rev # 0 <=> rows[k].event # 0
    BY <1>1 DEF NightInv, EventsAreDrawn
  <2>4. QED
    BY <2>1, <2>2, <2>3 DEF EventsAreDrawn
<1>3. Due' = Due /\ \A r : Over(r)' <=> Over(r)
  BY DEF Due, Over
<1>4. \A e : Listed(e)' <=> Listed(e)
  BY DEF Listed
<1>5. \A q \in Producer : q # p => prod[q].event \in 0 .. events
  BY <1>1 DEF NightInv, EventsAreDrawn
<1>6. \A k \in 1 .. Len(rows) : rows[k].event \in 0 .. events
  BY <1>1 DEF NightInv, EventsAreDrawn
<1>7. MarkerNamesIts'
  <2> SUFFICES ASSUME Due
               PROVE  /\ \A q \in Producer : prod'[q].pc \in Claiming /\ prod'[q].rev = rev
                                               => OwnsEvent(marker'[rev], prod'[q].event)
                      /\ \A k \in 1 .. Len(rows) : rows[k].rev = rev => OwnsEvent(marker'[rev], rows[k].event)
    BY <1>3 DEF MarkerNamesIts
  <2>1. ASSUME NEW q \in Producer, q # p, prod[q].pc \in Claiming, prod[q].rev = rev
        PROVE  OwnsEvent(marker'[rev], prod[q].event)
    BY <1>1, <1>5, <2>1 DEF NightInv, MarkerNamesIts
  <2>2. ASSUME NEW k \in 1 .. Len(rows), rows[k].rev = rev PROVE OwnsEvent(marker'[rev], rows[k].event)
    BY <1>1, <1>6, <2>2 DEF NightInv, MarkerNamesIts
  <2>3. QED
    BY <2>1, <2>2
<1>8. OneEventPerNight'
  <2>1. ASSUME NEW k \in 1 .. Len(rows), NEW q \in Producer, prod'[q].pc = "send", rows[k].rev = prod'[q].rev
        PROVE  rows[k].event = prod'[q].event
    <3>1. CASE q = p
      BY <1>3, <1>7, <2>1, <3>1 DEF MarkerNamesIts, OwnsEvent, Claiming
    <3>2. CASE q # p
      BY <2>1, <3>2 DEF NightInv, OneEventPerNight
    <3>3. QED
      BY <3>1, <3>2
  <2>2. ASSUME NEW q \in Producer, NEW x \in Producer, prod'[q].pc = "send", prod'[x].pc = "send",
               prod'[q].rev = prod'[x].rev
        PROVE  prod'[q].event = prod'[x].event
    <3>1. CASE q = p \/ x = p
      BY <1>3, <1>7, <2>2, <3>1 DEF MarkerNamesIts, OwnsEvent, Claiming
    <3>2. CASE q # p /\ x # p
      BY <2>2, <3>2 DEF NightInv, OneEventPerNight
    <3>3. QED
      BY <3>1, <3>2
  <2>3. QED
    BY <2>1, <2>2 DEF NightInv, OneEventPerNight
<1>9. OneRowPerEvent'
  BY DEF NightInv, OneRowPerEvent
<1>10. SentWasQueued'
  BY <1>4 DEF NightInv, SentWasQueued
<1>11. OldNightsForgotten'
  <2> SUFFICES ASSUME ~Overlaps
               PROVE  /\ \A k \in 1 .. Len(rows) : Pending(rows[k]) /\ rows[k].rev # 0 /\ Over(rows[k].rev)
                           => ~OwnsEvent(marker'[rows[k].rev], rows[k].event)
                      /\ \A q \in Producer : prod'[q].pc = "send" /\ Over(prod'[q].rev)
                           => ~OwnsEvent(marker'[prod'[q].rev], prod'[q].event) \/ Listed(prod'[q].event)
                      /\ admin.pc # "idle" =>
                           /\ phase = "setup"
                           /\ \A r \in Night : admin.ms[r].kind = marker'[r].kind
                           /\ \A k \in 1 .. Len(rows) : Pending(rows[k]) => rows[k].rev \in admin.queued
    BY <1>3, <1>4 DEF OldNightsForgotten
  <2>1. ASSUME NEW k \in 1 .. Len(rows), Pending(rows[k]), rows[k].rev # 0, Over(rows[k].rev)
        PROVE  ~OwnsEvent(marker'[rows[k].rev], rows[k].event)
    <3>1. rows[k].rev \in Night
      BY <1>1, <2>1, Shape DEF Night, Row
    <3>2. QED
      BY <1>6, <2>1, <3>1 DEF NightInv, OldNightsForgotten
  <2>2. ASSUME NEW q \in Producer, prod'[q].pc = "send", Over(prod'[q].rev)
        PROVE  ~OwnsEvent(marker'[prod'[q].rev], prod'[q].event) \/ Listed(prod'[q].event)
    <3>1. q # p
      BY <2>2 DEF Over, Due
    <3>2. QED
      BY <1>1, <1>5, <2>2, <3>1 DEF NightInv, OldNightsForgotten
  <2>3. QED
    BY <2>1, <2>2 DEF NightInv, OldNightsForgotten
<1>12. QED
  BY <1>2, <1>7, <1>8, <1>9, <1>10, <1>11 DEF NightInv


-----------------------------------------------------------------------------
(* The passes of the automation *)

\* What the types say of a pass and of its night.
LEMMA PassTyped ==
  ASSUME OutboxAssumption, Typed
  PROVE  /\ \A p \in Producer :
              /\ prod[p] \in Producing /\ prod[p].pc \in ProdPc /\ prod[p].rev \in Night
              /\ prod[p].event \in Event /\ prod[p].seen \in Marker /\ marker[prod[p].rev] \in Marker
         /\ \A r \in Night : marker[r] \in Marker
         /\ \A m \in Marker : m.kind \in {"none", "claim", "failed", "sent"} /\ m.event \in Nat /\ m.event \in Event
         /\ events \in Nat /\ events \in Event /\ NoMarker \in Marker /\ (Due => rev \in Night)
         /\ rev \in Nat /\ 0 \in Event /\ 1 \in Night
<1>1. /\ MaxEvents \in Nat /\ MaxRev \in Nat /\ MaxRev >= 1 /\ rev \in 0 .. MaxRev /\ events \in 0 .. MaxEvents
      /\ marker \in [Night -> Marker] /\ prod \in [Producer -> Producing]
  BY Bounds DEF Typed, Event
<1>2. ASSUME NEW p \in Producer
      PROVE  /\ prod[p] \in Producing /\ prod[p].pc \in ProdPc /\ prod[p].rev \in Night
             /\ prod[p].event \in Event /\ prod[p].seen \in Marker /\ marker[prod[p].rev] \in Marker
  BY <1>1 DEF Producing
<1>3. \A r \in Night : marker[r] \in Marker
  BY <1>1
<1>4. \A m \in Marker : m.kind \in {"none", "claim", "failed", "sent"} /\ m.event \in Nat /\ m.event \in Event
  BY <1>1 DEF Marker, Event
<1>5. 0 \in Event /\ 1 \in Night /\ events \in Nat /\ events \in Event /\ rev \in Nat /\ (Due => rev \in Night)
  BY <1>1 DEF Event, Night, Due
<1>6. NoMarker \in Marker
  BY <1>5 DEF NoMarker, Marker
<1>7. QED
  BY <1>2, <1>3, <1>4, <1>5, <1>6

LEMMA PassMoves ==
  ASSUME Typed, NEW p \in Producer, NEW x \in Producing, prod' = [prod EXCEPT ![p] = x]
  PROVE  /\ prod' \in [Producer -> Producing] /\ prod'[p] = x
         /\ \A q \in Producer : q # p => prod'[q] = prod[q]
BY DEF Typed

LEMMA MarkerMoves ==
  ASSUME Typed, NEW r \in Night, NEW m \in Marker, marker' = [marker EXCEPT ![r] = m]
  PROVE  /\ marker' \in [Night -> Marker] /\ marker'[r] = m
         /\ \A q \in Night : q # r => marker'[q] = marker[q]
BY DEF Typed

\* Delivery does not see a step that leaves its rows and passes alone.
LEMMA DeliveryStands ==
  ASSUME Typed, DeliveryInv, UNCHANGED <<rows, heard, work>>,
         \A k \in 1 .. Len(rows) : faults'[k] = faults[k]
  PROVE  DeliveryInv' /\ InPlace /\ Len(rows') = Len(rows)
<1>1. \A k \in 1 .. Len(rows) : Sound(rows[k], heard[k], faults'[k], work, k)
  BY DEF DeliveryInv
<1>2. QED
  BY <1>1 DEF DeliveryInv, InPlace

LEMMA LooksKeep ==
  ASSUME OutboxAssumption, Typed, NightInv, NEW p \in Producer, Looks(p)
  PROVE  Typed' /\ NightInv'
<1> DEFINE x == [prod[p] EXCEPT !.pc = "claim", !.rev = rev]
<1>1. /\ Due /\ prod' = [prod EXCEPT ![p] = x]
      /\ UNCHANGED <<rev, phase, past, marker, events, rows, heard, admin, work, faults>>
  BY DEF Looks
<1>2. x \in Producing /\ x.pc = "claim" /\ x.rev = rev /\ x.event = prod[p].event
  <2>1. "claim" \in ProdPc /\ rev \in Night /\ prod[p] \in Producing
    BY <1>1, PassTyped DEF ProdPc
  <2>2. QED
    BY <2>1 DEF Producing
<1> HIDE DEF x
<1>3. /\ prod' \in [Producer -> Producing] /\ prod'[p] = x
      /\ \A q \in Producer : q # p => prod'[q] = prod[q]
  BY <1>1, <1>2, PassMoves
<1>4. Typed'
  BY <1>1, <1>3 DEF Typed
<1>5. events \in Nat /\ rev \in Nat /\ prod[p].event <= events /\ events' >= events
  BY <1>1, PassTyped DEF NightInv, EventsAreDrawn
<1>6. NightInv'
  <2>1. \A r \in Night : \A e \in 0 .. events :
           /\ OwnsEvent(marker'[r], e) => OwnsEvent(marker[r], e)
           /\ Due /\ r = rev /\ OwnsEvent(marker[r], e) => OwnsEvent(marker'[r], e)
    BY <1>1
  <2>2. \A r \in Night : marker'[r] = marker[r] \/
           /\ marker'[r].event <= events' /\ r <= rev
           /\ marker'[r].kind \in {"claim", "failed"} => marker'[r].event # 0
           /\ marker'[r].kind = "sent" /\ marker'[r].event # 0 => Listed(marker'[r].event)
    BY <1>1
  <2>3. prod'[p].pc \notin Claiming /\ prod'[p].pc \notin {"reclaim", "send", "sent"}
    BY <1>2, <1>3 DEF Claiming
  <2>4. /\ prod'[p].pc # "idle" => prod'[p].rev <= rev
        /\ prod'[p].event <= events'
    BY <1>1, <1>2, <1>3, <1>5
  <2>5. QED
    BY <1>1, <1>3, <1>4, <1>5, <2>1, <2>2, <2>3, <2>4, ProducerMoves
<1>7. QED
  BY <1>4, <1>6

\* The insert is refused, or the event is queued already: the pass goes on to say so.
LEMMA SendEndsKeeps ==
  ASSUME OutboxAssumption, Typed, NightInv, NEW p \in Producer, NEW pc \in {"failed", "sent"},
         prod[p].pc = "send", prod' = [prod EXCEPT ![p].pc = pc],
         pc = "sent" => Queued(prod[p].event),
         UNCHANGED <<rev, phase, past, marker, events, rows, heard, admin, work, faults>>
  PROVE  Typed' /\ NightInv'
<1> DEFINE x == [prod[p] EXCEPT !.pc = pc]
<1>1. prod' = [prod EXCEPT ![p] = x]
  OBVIOUS
<1>2. x \in Producing /\ x.pc = pc /\ x.rev = prod[p].rev /\ x.event = prod[p].event
  <2>1. pc \in ProdPc /\ prod[p] \in Producing
    BY PassTyped DEF ProdPc
  <2>2. QED
    BY <2>1 DEF Producing
<1> HIDE DEF x
<1>3. /\ prod' \in [Producer -> Producing] /\ prod'[p] = x
      /\ \A q \in Producer : q # p => prod'[q] = prod[q]
  BY <1>1, <1>2, PassMoves
<1>4. Typed'
  BY <1>3 DEF Typed
<1>5. /\ prod[p].rev <= rev /\ prod[p].event <= events /\ prod[p].event # 0 /\ events' >= events
      /\ Due /\ prod[p].rev = rev => OwnsEvent(marker[rev], prod[p].event)
  BY PassTyped DEF NightInv, EventsAreDrawn, MarkerNamesIts, Claiming
<1>6. NightInv'
  <2>1. \A r \in Night : \A e \in 0 .. events :
           /\ OwnsEvent(marker'[r], e) => OwnsEvent(marker[r], e)
           /\ Due /\ r = rev /\ OwnsEvent(marker[r], e) => OwnsEvent(marker'[r], e)
    OBVIOUS
  <2>2. \A r \in Night : marker'[r] = marker[r] \/
           /\ marker'[r].event <= events' /\ r <= rev
           /\ marker'[r].kind \in {"claim", "failed"} => marker'[r].event # 0
           /\ marker'[r].kind = "sent" /\ marker'[r].event # 0 => Listed(marker'[r].event)
    OBVIOUS
  <2>3. prod'[p].pc \notin {"idle", "reclaim", "send"} /\ prod'[p].rev = prod[p].rev /\ prod'[p].event = prod[p].event
    BY <1>2, <1>3
  <2>4. prod'[p].pc = "sent" => Listed(prod'[p].event)
    BY <1>2, <1>3, Shape DEF Queued, Listed
  <2>5. prod'[p].pc \in Claiming /\ prod'[p].rev = rev /\ Due => OwnsEvent(marker'[rev], prod'[p].event)
    BY <1>5, <2>3
  <2>6. /\ prod'[p].pc # "idle" => prod'[p].rev <= rev
        /\ prod'[p].event <= events'
        /\ prod'[p].pc \in Claiming => prod'[p].event # 0
    BY <1>5, <2>3
  <2>7. QED
    BY <1>3, <1>4, <1>5, <2>1, <2>2, <2>3, <2>4, <2>5, <2>6, ProducerMoves
<1>7. QED
  BY <1>4, <1>6


\* A claim: the marker's first, over a new event, or a look at whoever was there.
LEMMA ClaimsKeep ==
  ASSUME OutboxAssumption, Typed, NightInv, NEW p \in Producer, Claims(p)
  PROVE  Typed' /\ NightInv'
<1> DEFINE r == prod[p].rev
           m == Claimed(p, events + 1)
<1>1. /\ prod[p].pc = "claim" /\ (Overlaps \/ admin.pc = "idle")
      /\ UNCHANGED <<rev, phase, past, rows, heard, admin, work, faults>>
  BY DEF Claims, ProducersMayStep
<1>2. /\ r \in Night /\ marker[r] \in Marker /\ events \in Nat /\ rev \in Nat /\ r <= rev
      /\ prod[p] \in Producing /\ prod[p].event <= events /\ prod[p].event \in Nat
      /\ marker[r].event \in Nat /\ marker[r].event <= events
      /\ marker[r].kind \in {"claim", "failed"} => marker[r].event # 0
  <2>1. r \in Night /\ marker[r] \in Marker /\ events \in Nat /\ rev \in Nat /\ prod[p] \in Producing
        /\ prod[p].event \in Nat /\ marker[r].event \in Nat
    BY PassTyped DEF Event
  <2>2. QED
    BY <1>1, <2>1 DEF NightInv, EventsAreDrawn
<1>3. CASE marker[r].kind = "none"
  <2> DEFINE x == [prod[p] EXCEPT !.pc = "reread", !.event = events + 1]
  <2>1. /\ events < MaxEvents /\ events' = events + 1 /\ marker' = [marker EXCEPT ![r] = m]
        /\ prod' = [prod EXCEPT ![p] = x]
    BY <1>3 DEF Claims
  <2>2. events + 1 \in Event
    BY <1>2, <2>1, Bounds DEF Event
  <2>3. x \in Producing /\ x.pc = "reread" /\ x.rev = r /\ x.event = events + 1
    <3>1. "reread" \in ProdPc
      BY DEF ProdPc
    <3>2. QED
      BY <1>2, <2>2, <3>1 DEF Producing
  <2>4. m \in Marker /\ m.kind = "claim" /\ m.event = events + 1
    BY <2>2 DEF Claimed, Marker
  <2> HIDE DEF x, m, r
  <2>5. /\ prod' \in [Producer -> Producing] /\ prod'[p] = x
        /\ \A q \in Producer : q # p => prod'[q] = prod[q]
    BY <2>1, <2>3, PassMoves
  <2>6. /\ marker' \in [Night -> Marker] /\ marker'[r] = m
        /\ \A q \in Night : q # r => marker'[q] = marker[q]
    BY <1>2, <2>1, <2>4, MarkerMoves
  <2>7. Typed'
    BY <1>1, <2>1, <2>2, <2>5, <2>6 DEF Typed
  <2>8. \A q \in Night : \A e \in 0 .. events :
           /\ OwnsEvent(marker'[q], e) => OwnsEvent(marker[q], e)
           /\ Due /\ q = rev /\ OwnsEvent(marker[q], e) => OwnsEvent(marker'[q], e)
    BY <1>2, <1>3, <2>4, <2>6 DEF OwnsEvent
  <2>9. \A q \in Night : marker'[q] = marker[q] \/
           /\ marker'[q].event <= events' /\ q <= rev
           /\ marker'[q].kind \in {"claim", "failed"} => marker'[q].event # 0
           /\ marker'[q].kind = "sent" /\ marker'[q].event # 0 => Listed(marker'[q].event)
    BY <1>2, <2>1, <2>4, <2>6
  <2>10. /\ prod'[p].pc = "reread" /\ prod'[p].rev = r /\ prod'[p].event = events + 1
         /\ events' >= events
    BY <1>2, <2>1, <2>3, <2>5
  <2>11. prod'[p].pc \in Claiming /\ prod'[p].rev = rev /\ Due => OwnsEvent(marker'[rev], prod'[p].event)
    BY <2>4, <2>6, <2>10 DEF OwnsEvent
  <2>12. /\ prod'[p].pc # "idle" => prod'[p].rev <= rev
         /\ prod'[p].event <= events'
         /\ prod'[p].pc \in Claiming => prod'[p].event # 0
    BY <1>2, <2>1, <2>10
  <2>13. NightInv'
    BY <1>1, <2>5, <2>7, <2>8, <2>9, <2>10, <2>11, <2>12, ProducerMoves
  <2>14. QED
    BY <2>7, <2>13
<1>4. CASE marker[r].kind # "none"
  <2> DEFINE x == IF Recoverable(marker[r]) THEN [prod[p] EXCEPT !.pc = "reclaim", !.seen = marker[r]]
                                            ELSE [prod[p] EXCEPT !.pc = "idle"]
  <2>1. prod' = [prod EXCEPT ![p] = x] /\ UNCHANGED <<marker, events>>
    BY <1>4 DEF Claims
  <2>2. /\ x \in Producing /\ x.rev = r /\ x.event = prod[p].event /\ x.pc \in {"idle", "reclaim"}
        /\ x.pc = "reclaim" => Recoverable(marker[r]) /\ x.seen = marker[r]
    <3>1. "reclaim" \in ProdPc /\ "idle" \in ProdPc
      BY DEF ProdPc
    <3>2. CASE Recoverable(marker[r])
      BY <1>2, <3>1, <3>2 DEF Producing
    <3>3. CASE ~Recoverable(marker[r])
      BY <1>2, <3>1, <3>3 DEF Producing
    <3>4. QED
      BY <3>2, <3>3
  <2> HIDE DEF x, r
  <2>3. /\ prod' \in [Producer -> Producing] /\ prod'[p] = x
        /\ \A q \in Producer : q # p => prod'[q] = prod[q]
    BY <2>1, <2>2, PassMoves
  <2>4. Typed'
    BY <1>1, <2>1, <2>3 DEF Typed
  <2>5. \A q \in Night : \A e \in 0 .. events :
           /\ OwnsEvent(marker'[q], e) => OwnsEvent(marker[q], e)
           /\ Due /\ q = rev /\ OwnsEvent(marker[q], e) => OwnsEvent(marker'[q], e)
    BY <2>1
  <2>6. \A q \in Night : marker'[q] = marker[q] \/
           /\ marker'[q].event <= events' /\ q <= rev
           /\ marker'[q].kind \in {"claim", "failed"} => marker'[q].event # 0
           /\ marker'[q].kind = "sent" /\ marker'[q].event # 0 => Listed(marker'[q].event)
    BY <2>1
  <2>7. /\ prod'[p].pc \notin Claiming /\ prod'[p].pc \notin {"send", "sent"} /\ events' >= events
        /\ prod'[p].pc # "idle" => prod'[p].rev <= rev
        /\ prod'[p].event <= events'
    BY <1>2, <2>1, <2>2, <2>3 DEF Claiming
  <2>8. prod'[p].pc = "reclaim" =>
              /\ prod'[p].seen.kind \in {"claim", "failed"}
              /\ prod'[p].seen.event # 0 /\ prod'[p].seen.event <= events'
    BY <1>2, <2>1, <2>2, <2>3 DEF Recoverable
  <2>9. NightInv'
    BY <1>1, <2>1, <2>3, <2>4, <2>5, <2>6, <2>7, <2>8, ProducerMoves
  <2>10. QED
    BY <2>4, <2>9
<1>5. QED
  BY <1>3, <1>4

\* A retry writes over the value it read, and keeps its event.
LEMMA ReclaimsKeep ==
  ASSUME OutboxAssumption, Typed, NightInv, NEW p \in Producer, Reclaims(p)
  PROVE  Typed' /\ NightInv'
<1> DEFINE r == prod[p].rev
           won == marker[r] = prod[p].seen
           m == Claimed(p, marker[r].event)
           x == [prod[p] EXCEPT !.pc = IF won THEN "reread" ELSE "idle",
                                !.event = prod[p].seen.event, !.seen = NoMarker]
<1>1. /\ prod[p].pc = "reclaim" /\ (Overlaps \/ admin.pc = "idle")
      /\ UNCHANGED <<rev, phase, past, events, rows, heard, admin, work, faults>>
      /\ marker' = IF won THEN [marker EXCEPT ![r] = m] ELSE marker
      /\ prod' = [prod EXCEPT ![p] = x]
  BY DEF Reclaims, ProducersMayStep
<1>2. /\ r \in Night /\ marker[r] \in Marker /\ events \in Nat /\ rev \in Nat /\ r <= rev
      /\ prod[p] \in Producing /\ prod[p].seen.event \in Event /\ prod[p].seen.event \in Nat
      /\ prod[p].seen.event <= events /\ prod[p].seen.event # 0
      /\ prod[p].seen.kind \in {"claim", "failed"} /\ NoMarker \in Marker
  <2>1. /\ r \in Night /\ marker[r] \in Marker /\ events \in Nat /\ rev \in Nat /\ prod[p] \in Producing
        /\ prod[p].seen.event \in Event /\ prod[p].seen.event \in Nat /\ NoMarker \in Marker
    BY PassTyped
  <2>2. QED
    BY <1>1, <2>1 DEF NightInv, EventsAreDrawn
<1>3. /\ x \in Producing /\ x.rev = r /\ x.event = prod[p].seen.event
      /\ x.pc = IF won THEN "reread" ELSE "idle"
  <2>1. "reread" \in ProdPc /\ "idle" \in ProdPc
    BY DEF ProdPc
  <2>2. QED
    BY <1>2, <2>1 DEF Producing
<1>4. won => m \in Marker /\ m.kind = "claim" /\ m.event = marker[r].event
  BY <1>2 DEF Claimed, Marker
<1> HIDE DEF x, m, r
<1>5. /\ prod' \in [Producer -> Producing] /\ prod'[p] = x
      /\ \A q \in Producer : q # p => prod'[q] = prod[q]
  BY <1>1, <1>3, PassMoves
<1>6. /\ marker' \in [Night -> Marker] /\ marker'[r] = IF won THEN m ELSE marker[r]
      /\ \A q \in Night : q # r => marker'[q] = marker[q]
  <2>1. CASE won
    BY <1>1, <1>2, <1>4, <2>1, MarkerMoves
  <2>2. CASE ~won
    BY <1>1, <2>2 DEF Typed
  <2>3. QED
    BY <2>1, <2>2
<1>7. Typed'
  BY <1>1, <1>5, <1>6 DEF Typed
<1>8. \A q \in Night : \A e \in 0 .. events :
         /\ OwnsEvent(marker'[q], e) => OwnsEvent(marker[q], e)
         /\ Due /\ q = rev /\ OwnsEvent(marker[q], e) => OwnsEvent(marker'[q], e)
  BY <1>2, <1>4, <1>6 DEF OwnsEvent
<1>9. \A q \in Night : marker'[q] = marker[q] \/
         /\ marker'[q].event <= events' /\ q <= rev
         /\ marker'[q].kind \in {"claim", "failed"} => marker'[q].event # 0
         /\ marker'[q].kind = "sent" /\ marker'[q].event # 0 => Listed(marker'[q].event)
  BY <1>1, <1>2, <1>4, <1>6
<1>10. /\ prod'[p].pc = (IF won THEN "reread" ELSE "idle") /\ prod'[p].rev = r
       /\ prod'[p].event = prod[p].seen.event /\ events' >= events
  BY <1>1, <1>2, <1>3, <1>5
<1>11. prod'[p].pc \in Claiming /\ prod'[p].rev = rev /\ Due => OwnsEvent(marker'[rev], prod'[p].event)
  BY <1>4, <1>6, <1>10 DEF OwnsEvent, Claiming
<1>12. /\ prod'[p].pc # "idle" => prod'[p].rev <= rev
       /\ prod'[p].event <= events'
       /\ prod'[p].pc \in Claiming => prod'[p].event # 0
       /\ prod'[p].pc \notin {"reclaim", "send", "sent"}
  BY <1>1, <1>2, <1>10
<1>13. NightInv'
  BY <1>1, <1>5, <1>7, <1>8, <1>9, <1>10, <1>11, <1>12, ProducerMoves
<1>14. QED
  BY <1>7, <1>13


\* A claim whose night is gone is released; one whose night stands is the night's.
LEMMA RereadsKeep ==
  ASSUME OutboxAssumption, Typed, NightInv, NEW p \in Producer, Rereads(p)
  PROVE  Typed' /\ NightInv'
<1> DEFINE r == prod[p].rev
           ok == Due /\ rev = r
           drop == ~ok /\ Mine(p)
           x == [prod[p] EXCEPT !.pc = IF ok THEN "send" ELSE "idle"]
<1>1. /\ prod[p].pc = "reread" /\ (Overlaps \/ admin.pc = "idle")
      /\ UNCHANGED <<rev, phase, past, events, rows, heard, admin, work, faults>>
      /\ marker' = IF drop THEN [marker EXCEPT ![r] = NoMarker] ELSE marker
      /\ prod' = [prod EXCEPT ![p] = x]
  BY DEF Rereads, ProducersMayStep
<1>2. /\ r \in Night /\ events \in Nat /\ rev \in Nat /\ r <= rev /\ prod[p] \in Producing
      /\ prod[p].event <= events /\ prod[p].event # 0 /\ prod[p].event \in Nat /\ NoMarker \in Marker
      /\ Due /\ r = rev => OwnsEvent(marker[rev], prod[p].event)
  <2>1. r \in Night /\ events \in Nat /\ rev \in Nat /\ prod[p] \in Producing /\ NoMarker \in Marker
        /\ prod[p].event \in Nat
    BY PassTyped DEF Event
  <2>2. QED
    BY <1>1, <2>1 DEF NightInv, EventsAreDrawn, MarkerNamesIts, Claiming
<1>3. /\ x \in Producing /\ x.rev = r /\ x.event = prod[p].event
      /\ x.pc = IF ok THEN "send" ELSE "idle"
  <2>1. "send" \in ProdPc /\ "idle" \in ProdPc
    BY DEF ProdPc
  <2>2. QED
    BY <1>2, <2>1 DEF Producing
<1> HIDE DEF x, drop, r
<1>4. /\ prod' \in [Producer -> Producing] /\ prod'[p] = x
      /\ \A q \in Producer : q # p => prod'[q] = prod[q]
  BY <1>1, <1>3, PassMoves
<1>5. /\ marker' \in [Night -> Marker] /\ marker'[r] = IF drop THEN NoMarker ELSE marker[r]
      /\ \A q \in Night : q # r => marker'[q] = marker[q]
  <2>1. CASE drop
    BY <1>1, <1>2, <2>1, MarkerMoves
  <2>2. CASE ~drop
    BY <1>1, <2>2 DEF Typed
  <2>3. QED
    BY <2>1, <2>2
<1>6. Typed'
  BY <1>1, <1>4, <1>5 DEF Typed
<1>7. \A q \in Night : \A e \in 0 .. events :
         /\ OwnsEvent(marker'[q], e) => OwnsEvent(marker[q], e)
         /\ Due /\ q = rev /\ OwnsEvent(marker[q], e) => OwnsEvent(marker'[q], e)
  BY <1>2, <1>5 DEF OwnsEvent, NoMarker, drop
<1>8. \A q \in Night : marker'[q] = marker[q] \/
         /\ marker'[q].event <= events' /\ q <= rev
         /\ marker'[q].kind \in {"claim", "failed"} => marker'[q].event # 0
         /\ marker'[q].kind = "sent" /\ marker'[q].event # 0 => Listed(marker'[q].event)
  BY <1>1, <1>2, <1>5 DEF NoMarker
<1>9. /\ prod'[p].pc = (IF ok THEN "send" ELSE "idle") /\ prod'[p].rev = r
      /\ prod'[p].event = prod[p].event /\ events' >= events
  BY <1>1, <1>2, <1>3, <1>4
<1>10. prod'[p].pc \in Claiming /\ prod'[p].rev = rev /\ Due => OwnsEvent(marker'[rev], prod'[p].event)
  BY <1>2, <1>5, <1>9 DEF drop
<1>11. /\ prod'[p].pc # "idle" => prod'[p].rev <= rev
       /\ prod'[p].event <= events'
       /\ prod'[p].pc \in Claiming => prod'[p].event # 0
       /\ prod'[p].pc \notin {"reclaim", "sent"}
       /\ prod'[p].pc = "send" => Due /\ prod'[p].rev = rev
  BY <1>1, <1>2, <1>9
<1>12. NightInv'
  BY <1>1, <1>4, <1>6, <1>7, <1>8, <1>9, <1>10, <1>11, ProducerMoves
<1>13. QED
  BY <1>6, <1>12

\* The pass writes what became of its claim, if the claim is still its own.
LEMMA FinalizesKeep ==
  ASSUME OutboxAssumption, Typed, NightInv, NEW p \in Producer, Finalizes(p)
  PROVE  Typed' /\ NightInv'
<1> DEFINE r == prod[p].rev
           m == [marker[r] EXCEPT !.kind = prod[p].pc, !.owner = None]
           x == [prod[p] EXCEPT !.pc = "idle"]
<1>1. /\ prod[p].pc \in {"sent", "failed"} /\ (Overlaps \/ admin.pc = "idle")
      /\ UNCHANGED <<rev, phase, past, events, rows, heard, admin, work, faults>>
      /\ marker' = IF Mine(p) THEN [marker EXCEPT ![r] = m] ELSE marker
      /\ prod' = [prod EXCEPT ![p] = x]
  BY DEF Finalizes, ProducersMayStep
<1>2. /\ r \in Night /\ marker[r] \in Marker /\ events \in Nat /\ rev \in Nat /\ r <= rev
      /\ prod[p] \in Producing /\ prod[p].event <= events /\ prod[p].event # 0
      /\ prod[p].pc = "sent" => Listed(prod[p].event)
  <2>1. r \in Night /\ marker[r] \in Marker /\ events \in Nat /\ rev \in Nat /\ prod[p] \in Producing
    BY PassTyped
  <2>2. QED
    BY <1>1, <2>1 DEF NightInv, EventsAreDrawn, SentWasQueued, Claiming
<1>3. x \in Producing /\ x.pc = "idle" /\ x.event = prod[p].event
  <2>1. "idle" \in ProdPc
    BY DEF ProdPc
  <2>2. QED
    BY <1>2, <2>1 DEF Producing
<1>4. Mine(p) => /\ m \in Marker /\ m.kind = prod[p].pc /\ m.event = prod[p].event
                 /\ marker[r].kind = "claim" /\ marker[r].event = prod[p].event
  <2>1. prod[p].pc \in {"none", "claim", "failed", "sent"} /\ None \in Producer \cup {None}
    BY <1>1
  <2>2. m \in Marker
    BY <1>2, <2>1, Zenon DEF Marker
  <2>3. m.kind = prod[p].pc /\ m.event = marker[r].event
    BY <1>2 DEF Marker
  <2>4. QED
    BY <2>2, <2>3 DEF Mine
<1> HIDE DEF x, m, r
<1>5. /\ prod' \in [Producer -> Producing] /\ prod'[p] = x
      /\ \A q \in Producer : q # p => prod'[q] = prod[q]
  BY <1>1, <1>3, PassMoves
<1>6. /\ marker' \in [Night -> Marker] /\ marker'[r] = IF Mine(p) THEN m ELSE marker[r]
      /\ \A q \in Night : q # r => marker'[q] = marker[q]
  <2>1. CASE Mine(p)
    BY <1>1, <1>2, <1>4, <2>1, MarkerMoves
  <2>2. CASE ~Mine(p)
    BY <1>1, <2>2 DEF Typed
  <2>3. QED
    BY <2>1, <2>2
<1>7. Typed'
  BY <1>1, <1>5, <1>6 DEF Typed
<1>8. \A q \in Night : \A e \in 0 .. events :
         /\ OwnsEvent(marker'[q], e) => OwnsEvent(marker[q], e)
         /\ Due /\ q = rev /\ OwnsEvent(marker[q], e) => OwnsEvent(marker'[q], e)
  <2>1. ASSUME NEW q \in Night PROVE \A e : OwnsEvent(marker'[q], e) <=> OwnsEvent(marker[q], e)
    <3>1. CASE q = r /\ Mine(p)
      BY <1>1, <1>4, <1>6, <3>1 DEF OwnsEvent
    <3>2. CASE ~(q = r /\ Mine(p))
      BY <1>6, <3>2
    <3>3. QED
      BY <3>1, <3>2
  <2>2. QED
    BY <2>1
<1>9. \A q \in Night : marker'[q] = marker[q] \/
         /\ marker'[q].event <= events' /\ q <= rev
         /\ marker'[q].kind \in {"claim", "failed"} => marker'[q].event # 0
         /\ marker'[q].kind = "sent" /\ marker'[q].event # 0 => Listed(marker'[q].event)
  BY <1>1, <1>2, <1>4, <1>6
<1>10. /\ prod'[p].pc \notin Claiming /\ prod'[p].pc = "idle" /\ prod'[p].event <= events' /\ events' >= events
  BY <1>1, <1>2, <1>3, <1>5 DEF Claiming
<1>11. NightInv'
  BY <1>1, <1>5, <1>7, <1>8, <1>9, <1>10, ProducerMoves
<1>12. QED
  BY <1>7, <1>11

\* A pass of the automation dies; its claim stays until it lapses.
LEMMA PassDies ==
  ASSUME OutboxAssumption, Typed, NightInv, NEW p \in Producer, prod' = [prod EXCEPT ![p] = IdleProd],
         faults' = [faults EXCEPT ![0] = @ + 1],
         UNCHANGED <<rev, phase, past, marker, events, rows, heard, admin, work>>
  PROVE  Typed' /\ NightInv' /\ \A k \in 1 .. Len(rows) : faults'[k] = faults[k]
<1>1. IdleProd \in Producing /\ IdleProd.pc = "idle" /\ IdleProd.event = 0
  <2>1. "idle" \in ProdPc /\ 1 \in Night /\ 0 \in Event /\ NoMarker \in Marker
    BY PassTyped DEF ProdPc
  <2>2. QED
    BY <2>1 DEF IdleProd, Producing
<1>2. /\ prod' \in [Producer -> Producing] /\ prod'[p] = IdleProd
      /\ \A q \in Producer : q # p => prod'[q] = prod[q]
  BY <1>1, PassMoves
<1>3. faults' \in [0 .. Len(rows) -> Nat] /\ \A k \in 1 .. Len(rows) : faults'[k] = faults[k]
  BY Shape DEF Typed
<1>4. Typed'
  BY <1>2, <1>3 DEF Typed
<1>5. \A r \in Night : \A e \in 0 .. events :
         /\ OwnsEvent(marker'[r], e) => OwnsEvent(marker[r], e)
         /\ Due /\ r = rev /\ OwnsEvent(marker[r], e) => OwnsEvent(marker'[r], e)
  OBVIOUS
<1>6. \A r \in Night : marker'[r] = marker[r] \/
         /\ marker'[r].event <= events' /\ r <= rev
         /\ marker'[r].kind \in {"claim", "failed"} => marker'[r].event # 0
         /\ marker'[r].kind = "sent" /\ marker'[r].event # 0 => Listed(marker'[r].event)
  OBVIOUS
<1>7. prod'[p].pc \notin Claiming /\ prod'[p].pc = "idle" /\ prod'[p].event <= events' /\ events' >= events
  BY <1>1, <1>2, PassTyped DEF Claiming
<1>8. NightInv'
  BY <1>2, <1>4, <1>5, <1>6, <1>7, ProducerMoves
<1>9. QED
  BY <1>3, <1>4, <1>8

\* A claim runs out: its marker still names its event.
LEMMA MarkerLapsesKeep ==
  ASSUME OutboxAssumption, Typed, NightInv, NEW r \in Night, MarkerLapses(r)
  PROVE  Typed' /\ NightInv' /\ \A k \in 1 .. Len(rows) : faults'[k] = faults[k]
<1> DEFINE m == [marker[r] EXCEPT !.lapsed = TRUE]
<1>1. /\ marker' = [marker EXCEPT ![r] = m]
      /\ faults' = [faults EXCEPT ![0] = @ + 1] \/ faults' = faults
      /\ UNCHANGED <<rev, phase, past, events, rows, heard, admin, prod, work>>
  BY DEF MarkerLapses
<1>2. m \in Marker /\ m.kind = marker[r].kind /\ m.event = marker[r].event
  <2>1. marker[r] \in Marker /\ TRUE \in BOOLEAN
    BY PassTyped
  <2>2. m \in Marker
    BY <2>1, Zenon DEF Marker
  <2>3. QED
    BY <2>1, <2>2 DEF Marker
<1> HIDE DEF m
<1>3. /\ marker' \in [Night -> Marker]
      /\ \A q \in Night : marker'[q].kind = marker[q].kind /\ marker'[q].event = marker[q].event
  BY <1>1, <1>2, MarkerMoves
<1>4. faults' \in [0 .. Len(rows) -> Nat] /\ \A k \in 1 .. Len(rows) : faults'[k] = faults[k]
  BY <1>1, Shape DEF Typed
<1>5. Typed'
  BY <1>1, <1>3, <1>4 DEF Typed
<1>6. \A q \in Night : \A e : OwnsEvent(marker'[q], e) <=> OwnsEvent(marker[q], e)
  BY <1>3 DEF OwnsEvent
<1>7. EventsAreDrawn' /\ OneEventPerNight' /\ OneRowPerEvent'
  BY <1>1, <1>3 DEF NightInv, EventsAreDrawn, OneEventPerNight, OneRowPerEvent
<1>8. MarkerNamesIts'
  <2>1. Due' = Due /\ (Due => rev \in Night)
    BY <1>1, PassTyped DEF Due
  <2>2. QED
    BY <1>1, <1>6, <2>1 DEF NightInv, MarkerNamesIts
<1>9. \A e : Listed(e)' <=> Listed(e)
  BY <1>1 DEF Listed
<1>10. SentWasQueued'
  BY <1>1, <1>3, <1>9 DEF NightInv, SentWasQueued
<1>11. OldNightsForgotten'
  <2>1. \A q : Over(q)' <=> Over(q)
    BY <1>1 DEF Over
  <2>2. \A k \in 1 .. Len(rows) : rows[k].rev # 0 => rows[k].rev \in Night
    BY Shape, Bounds DEF Row, Night
  <2>3. \A p \in Producer : prod[p].rev \in Night
    BY PassTyped
  <2>4. QED
    BY <1>1, <1>3, <1>6, <1>9, <2>1, <2>2, <2>3 DEF NightInv, OldNightsForgotten
<1>12. QED
  BY <1>4, <1>5, <1>7, <1>8, <1>10, <1>11 DEF NightInv


-----------------------------------------------------------------------------
(* A post joins the queue *)

LEMMA RowJoins ==
  ASSUME OutboxAssumption, Typed, NightInv, NEW r \in Nat, NEW e \in Nat,
         Len(rows') = Len(rows) + 1, \A k \in 1 .. Len(rows) : rows'[k] = rows[k],
         rows'[Len(rows) + 1].rev = r, rows'[Len(rows) + 1].event = e,
         UNCHANGED <<rev, phase, past, marker, events, admin>>,
         r <= rev, e <= events, r # 0 <=> e # 0, e # 0 => ~Listed(e),
         Due /\ r = rev => OwnsEvent(marker[rev], e),
         \A j \in 1 .. Len(rows) : rows[j].rev = r => rows[j].event = e,
         \A q \in Producer : prod[q].pc = "send" /\ prod[q].rev = r => prod[q].event = e,
         \A q \in Producer : \/ prod'[q] = prod[q]
                             \/ /\ prod[q].pc = "send" /\ prod'[q].pc = "sent"
                                /\ prod'[q].rev = prod[q].rev /\ prod'[q].event = prod[q].event
                                /\ prod[q].event = e,
         ~Overlaps => /\ admin.pc = "idle"
                      /\ r # 0 /\ Over(r) => ~OwnsEvent(marker[r], e)
  PROVE  NightInv'
<1> DEFINE n == Len(rows)
<1>1. /\ n \in Nat /\ Len(rows') = n + 1 /\ \A k \in 1 .. n + 1 : k \in 1 .. n \/ k = n + 1
      /\ \A k \in 1 .. n : k \in 1 .. n + 1 /\ k # n + 1
      /\ n + 1 \in 1 .. n + 1
  BY Shape
<1>2. rows'[n + 1].rev = r /\ rows'[n + 1].event = e /\ \A k \in 1 .. n : rows'[k] = rows[k]
  OBVIOUS
<1> HIDE DEF n
<1>3. Due' = Due /\ \A q : Over(q)' <=> Over(q)
  BY DEF Due, Over
<1> DEFINE Now(x) == \E k \in 1 .. Len(rows') : rows'[k].event = x
<1>4. \A x : Now(x) <=> Listed(x) \/ x = e
  BY <1>1, <1>2 DEF Listed, n
<1> HIDE DEF Now
<1>5. EventsAreDrawn'
  <2>1. ASSUME NEW k \in 1 .. n + 1
        PROVE  rows'[k].rev <= rev /\ rows'[k].event <= events /\ (rows'[k].rev # 0 <=> rows'[k].event # 0)
    <3>1. CASE k = n + 1
      BY <1>2, <3>1
    <3>2. CASE k \in 1 .. n
      BY <1>2, <3>2 DEF NightInv, EventsAreDrawn, n
    <3>3. QED
      BY <1>1, <3>1, <3>2
  <2>2. ASSUME NEW q \in Producer
        PROVE  /\ prod'[q].pc # "idle" => prod'[q].rev <= rev
               /\ prod'[q].event <= events
               /\ prod'[q].pc \in Claiming => prod'[q].event # 0
               /\ prod'[q].pc = "reclaim" =>
                    /\ prod'[q].seen.kind \in {"claim", "failed"}
                    /\ prod'[q].seen.event # 0 /\ prod'[q].seen.event <= events
    BY DEF NightInv, EventsAreDrawn, Claiming
  <2>3. QED
    BY <1>1, <2>1, <2>2 DEF NightInv, EventsAreDrawn
<1>6. MarkerNamesIts'
  <2>1. ASSUME Due, NEW q \in Producer, prod'[q].pc \in Claiming, prod'[q].rev = rev
        PROVE  OwnsEvent(marker[rev], prod'[q].event)
    <3>1. prod[q].pc \in Claiming /\ prod[q].rev = rev /\ prod'[q].event = prod[q].event
      BY <2>1 DEF Claiming
    <3>2. QED
      BY <2>1, <3>1 DEF NightInv, MarkerNamesIts
  <2>2. ASSUME Due, NEW k \in 1 .. n + 1, rows'[k].rev = rev
        PROVE  OwnsEvent(marker[rev], rows'[k].event)
    <3>1. CASE k = n + 1
      BY <1>2, <2>2, <3>1
    <3>2. CASE k \in 1 .. n
      BY <1>2, <2>2, <3>2 DEF NightInv, MarkerNamesIts, n
    <3>3. QED
      BY <1>1, <3>1, <3>2
  <2>3. QED
    BY <1>1, <1>3, <2>1, <2>2 DEF MarkerNamesIts
<1>7. OneEventPerNight'
  <2>1. ASSUME NEW j \in 1 .. n + 1, NEW k \in 1 .. n + 1, rows'[j].rev = rows'[k].rev
        PROVE  rows'[j].event = rows'[k].event
    <3>1. CASE j \in 1 .. n /\ k \in 1 .. n
      BY <1>2, <2>1, <3>1 DEF NightInv, OneEventPerNight, n
    <3>2. CASE j = n + 1 /\ k \in 1 .. n
      BY <1>2, <2>1, <3>2 DEF n
    <3>3. CASE j \in 1 .. n /\ k = n + 1
      BY <1>2, <2>1, <3>3 DEF n
    <3>4. QED
      BY <1>1, <3>1, <3>2, <3>3
  <2>2. ASSUME NEW q \in Producer, prod'[q].pc = "send" PROVE prod'[q] = prod[q]
    BY <2>2
  <2>3. ASSUME NEW k \in 1 .. n + 1, NEW q \in Producer, prod'[q].pc = "send", rows'[k].rev = prod'[q].rev
        PROVE  rows'[k].event = prod'[q].event
    <3>1. prod'[q] = prod[q]
      BY <2>2, <2>3
    <3>2. CASE k = n + 1
      BY <1>2, <2>3, <3>1, <3>2
    <3>3. CASE k \in 1 .. n
      BY <1>2, <2>3, <3>1, <3>3 DEF NightInv, OneEventPerNight, n
    <3>4. QED
      BY <1>1, <3>2, <3>3
  <2>4. QED
    BY <1>1, <2>1, <2>2, <2>3 DEF NightInv, OneEventPerNight
<1>8. OneRowPerEvent'
  <2>1. ASSUME NEW j \in 1 .. n + 1, NEW k \in 1 .. n + 1, rows'[j].event = rows'[k].event, rows'[k].event # 0
        PROVE  j = k
    <3>1. CASE j \in 1 .. n /\ k \in 1 .. n
      BY <1>2, <2>1, <3>1 DEF NightInv, OneRowPerEvent, n
    <3>2. CASE j = n + 1 /\ k \in 1 .. n
      BY <1>2, <2>1, <3>2 DEF Listed, n
    <3>3. CASE j \in 1 .. n /\ k = n + 1
      BY <1>2, <2>1, <3>3 DEF Listed, n
    <3>4. QED
      BY <1>1, <3>1, <3>2, <3>3
  <2>2. QED
    BY <1>1, <2>1 DEF OneRowPerEvent
<1>9. SentWasQueued'
  <2>1. ASSUME NEW q \in Producer, prod'[q].pc = "sent" PROVE Now(prod'[q].event)
    BY <1>4, <2>1 DEF NightInv, SentWasQueued
  <2>2. ASSUME NEW q \in Night, marker[q].kind = "sent", marker[q].event # 0 PROVE Now(marker[q].event)
    BY <1>4, <2>2 DEF NightInv, SentWasQueued
  <2>3. QED
    BY <2>1, <2>2 DEF SentWasQueued, Listed, Now
<1>10. OldNightsForgotten'
  <2> SUFFICES ASSUME ~Overlaps
               PROVE  /\ \A k \in 1 .. n + 1 : Pending(rows'[k]) /\ rows'[k].rev # 0 /\ Over(rows'[k].rev)
                           => ~OwnsEvent(marker[rows'[k].rev], rows'[k].event)
                      /\ \A q \in Producer : prod'[q].pc = "send" /\ Over(prod'[q].rev)
                           => ~OwnsEvent(marker[prod'[q].rev], prod'[q].event) \/ Now(prod'[q].event)
                      /\ admin.pc = "idle"
    BY <1>1, <1>3 DEF OldNightsForgotten, Listed, Now
  <2>1. ASSUME NEW k \in 1 .. n + 1, Pending(rows'[k]), rows'[k].rev # 0, Over(rows'[k].rev)
        PROVE  ~OwnsEvent(marker[rows'[k].rev], rows'[k].event)
    <3>1. CASE k = n + 1
      BY <1>2, <2>1, <3>1
    <3>2. CASE k \in 1 .. n
      BY <1>2, <2>1, <3>2 DEF NightInv, OldNightsForgotten, n
    <3>3. QED
      BY <1>1, <3>1, <3>2
  <2>2. ASSUME NEW q \in Producer, prod'[q].pc = "send", Over(prod'[q].rev)
        PROVE  ~OwnsEvent(marker[prod'[q].rev], prod'[q].event) \/ Now(prod'[q].event)
    <3>1. prod'[q] = prod[q]
      BY <2>2
    <3>2. QED
      BY <1>4, <2>2, <3>1 DEF NightInv, OldNightsForgotten
  <2>3. QED
    BY <2>1, <2>2
<1>11. QED
  BY <1>5, <1>6, <1>7, <1>8, <1>9, <1>10 DEF NightInv

LEMMA NewRowIs ==
  ASSUME NEW r \in 0 .. MaxRev, NEW e \in Event
  PROVE  NewRow(r, e) \in Row /\ NewRow(r, e).status = "PENDING"
         /\ NewRow(r, e).rev = r /\ NewRow(r, e).event = e
BY DEF NewRow, Row

\* The reminder is queued, once for its event.
LEMMA EnqueuesKeep ==
  ASSUME OutboxAssumption, Typed, DeliveryInv, NightInv, NEW p \in Producer, Enqueues(p),
         ~Queued(prod[p].event)
  PROVE  Typed' /\ DeliveryInv' /\ NightInv' /\ InPlace
<1> DEFINE r == prod[p].rev
           e == prod[p].event
           x == [prod[p] EXCEPT !.pc = "sent"]
<1>1. /\ prod[p].pc = "send" /\ (Overlaps \/ admin.pc = "idle") /\ prod' = [prod EXCEPT ![p] = x]
      /\ Adds(NewRow(r, e)) /\ UNCHANGED <<rev, phase, past, marker, events, admin, work>>
  BY DEF Enqueues, ProducersMayStep
<1>2. /\ r \in Night /\ r \in Nat /\ r # 0 /\ r \in 0 .. MaxRev /\ e \in Event /\ e \in Nat
      /\ prod[p] \in Producing
  BY PassTyped, Bounds DEF Night, Event
<1>3. NewRow(r, e) \in Row /\ NewRow(r, e).status = "PENDING" /\ NewRow(r, e).rev = r /\ NewRow(r, e).event = e
  BY <1>2, NewRowIs
<1>4. x \in Producing /\ x.pc = "sent" /\ x.rev = r /\ x.event = e
  <2>1. "sent" \in ProdPc
    BY DEF ProdPc
  <2>2. QED
    BY <1>2, <2>1 DEF Producing
<1>5. r <= rev /\ e <= events /\ e # 0
  BY <1>1 DEF NightInv, EventsAreDrawn, Claiming
<1>6. ~Listed(e)
  BY Shape DEF Queued, Listed
<1> DEFINE row == NewRow(r, e)
<1> HIDE DEF x, row
<1>7. /\ prod' \in [Producer -> Producing] /\ prod'[p] = x
      /\ \A q \in Producer : q # p => prod'[q] = prod[q]
  BY <1>1, <1>4, PassMoves
<1>8. /\ rows' \in Seq(Row) /\ Len(rows') = Len(rows) + 1 /\ Len(rows') <= MaxRows
      /\ heard' \in Seq(Nat) /\ Len(heard') = Len(rows')
      /\ faults' \in [0 .. Len(rows') -> Nat]
      /\ rows'[Len(rows')] = row /\ \A k \in 1 .. Len(rows) : rows'[k] = rows[k]
      /\ DeliveryInv' /\ InPlace
  BY <1>1, <1>3, AddsKeep DEF row
<1>9. Typed'
  BY <1>1, <1>7, <1>8 DEF Typed
<1>10. NightInv'
  <2>1. /\ rows'[Len(rows) + 1].rev = r /\ rows'[Len(rows) + 1].event = e
        /\ r # 0 <=> e # 0
        /\ e # 0 => ~Listed(e)
    BY <1>2, <1>3, <1>5, <1>6, <1>8 DEF row
  <2>2. Due /\ r = rev => OwnsEvent(marker[rev], e)
    BY <1>1 DEF NightInv, MarkerNamesIts, Claiming
  <2>3. /\ \A j \in 1 .. Len(rows) : rows[j].rev = r => rows[j].event = e
        /\ \A q \in Producer : prod[q].pc = "send" /\ prod[q].rev = r => prod[q].event = e
    BY <1>1 DEF NightInv, OneEventPerNight
  <2>4. \A q \in Producer : \/ prod'[q] = prod[q]
                            \/ /\ prod[q].pc = "send" /\ prod'[q].pc = "sent"
                               /\ prod'[q].rev = prod[q].rev /\ prod'[q].event = prod[q].event
                               /\ prod[q].event = e
    BY <1>1, <1>4, <1>7
  <2>5. ~Overlaps => /\ admin.pc = "idle"
                     /\ r # 0 /\ Over(r) => ~OwnsEvent(marker[r], e)
    BY <1>1, <1>6 DEF NightInv, OldNightsForgotten
  <2>6. /\ UNCHANGED <<rev, phase, past, marker, events, admin>>
        /\ Len(rows') = Len(rows) + 1 /\ \A k \in 1 .. Len(rows) : rows'[k] = rows[k]
    BY <1>1, <1>8
  <2>7. r \in Nat /\ e \in Nat /\ r <= rev /\ e <= events
    BY <1>2, <1>5
  <2> HIDE DEF r, e
  <2>8. QED
    BY <2>1, <2>2, <2>3, <2>4, <2>5, <2>6, <2>7, RowJoins, SMTT(60)
<1>11. QED
  BY <1>8, <1>9, <1>10

\* A post about the running auction is of no night and no event.
LEMMA AnnouncesKeep ==
  ASSUME OutboxAssumption, Typed, DeliveryInv, NightInv, Opened, AnnouncesLive
  PROVE  Typed' /\ DeliveryInv' /\ NightInv' /\ InPlace
<1> DEFINE row == NewRow(0, 0)
<1>1. /\ phase = "live" /\ Adds(row)
      /\ UNCHANGED <<rev, phase, past, marker, events, admin, prod, work>>
  BY DEF AnnouncesLive
<1>2. 0 \in 0 .. MaxRev /\ 0 \in Event /\ events \in Nat /\ rev \in Nat
  BY PassTyped, Bounds
<1>3. row \in Row /\ row.status = "PENDING" /\ row.rev = 0 /\ row.event = 0
  BY <1>2, NewRowIs
<1> HIDE DEF row
<1>4. /\ rows' \in Seq(Row) /\ Len(rows') = Len(rows) + 1 /\ Len(rows') <= MaxRows
      /\ heard' \in Seq(Nat) /\ Len(heard') = Len(rows')
      /\ faults' \in [0 .. Len(rows') -> Nat]
      /\ rows'[Len(rows')] = row /\ \A k \in 1 .. Len(rows) : rows'[k] = rows[k]
      /\ DeliveryInv' /\ InPlace
  BY <1>1, <1>3, AddsKeep
<1>5. Typed'
  BY <1>1, <1>4 DEF Typed
<1>6. NightInv'
  <2>1. /\ rows'[Len(rows) + 1].rev = 0 /\ rows'[Len(rows) + 1].event = 0
        /\ 0 <= rev /\ 0 <= events
    BY <1>2, <1>3, <1>4
  <2>2. \A j \in 1 .. Len(rows) : rows[j].rev = 0 => rows[j].event = 0
    BY DEF NightInv, EventsAreDrawn
  <2>3. \A q \in Producer : prod[q].rev # 0
    <3>1. \A q \in Producer : prod[q].rev \in Night
      BY PassTyped
    <3>2. QED
      BY <3>1, Bounds DEF Night
  <2>4. ~Due /\ (~Overlaps => admin.pc = "idle")
    BY <1>1 DEF Due, Opened
  <2>5. UNCHANGED <<rev, phase, past, marker, events, admin, prod>>
    BY <1>1
  <2>6. QED
    BY <1>4, <2>1, <2>2, <2>3, <2>4, <2>5, RowJoins
<1>7. QED
  BY <1>4, <1>5, <1>6


-----------------------------------------------------------------------------
(* The admin, and the clock *)

\* The transaction's snapshot names what waits and which markers there are.
LEMMA OpensKeep ==
  ASSUME OutboxAssumption, Typed, NightInv, NEW goal \in {"move", "start"}, ChangeOpens(goal)
  PROVE  Typed' /\ NightInv' /\ Opened'
<1>1. /\ phase = "setup" /\ (goal = "move" => rev < MaxRev)
      /\ admin' = [pc |-> goal, ms |-> marker, queued |-> QueuedNights]
      /\ UNCHANGED <<rev, phase, past, marker, events, rows, heard, prod, work, faults>>
  BY DEF ChangeOpens
<1>2. QueuedNights \in SUBSET (0 .. MaxRev)
  <2>1. \A k \in DOMAIN rows : rows[k].rev \in 0 .. MaxRev
    BY Shape DEF Row
  <2>2. QED
    BY <2>1 DEF QueuedNights
<1>3. admin' \in Snapshot
  BY <1>1, <1>2 DEF Typed, Snapshot
<1>4. Typed'
  BY <1>1, <1>3 DEF Typed
<1>5. (EventsAreDrawn /\ MarkerNamesIts /\ OneEventPerNight /\ OneRowPerEvent /\ SentWasQueued)'
  BY <1>1 DEF NightInv, EventsAreDrawn, MarkerNamesIts, OneEventPerNight, OneRowPerEvent,
              SentWasQueued, Listed, Due
<1>6. OldNightsForgotten'
  <2>1. \A k \in 1 .. Len(rows) : Pending(rows[k]) => rows[k].rev \in admin'.queued
    BY <1>1, Shape DEF QueuedNights, Waiting, Pending
  <2>2. \A r \in Night : admin'.ms[r].kind = marker[r].kind
    BY <1>1
  <2>3. \A r : Over(r)' <=> Over(r)
    BY <1>1 DEF Over
  <2>4. \A x : Listed(x)' <=> Listed(x)
    BY <1>1 DEF Listed
  <2>5. QED
    BY <1>1, <2>1, <2>2, <2>3, <2>4 DEF NightInv, OldNightsForgotten
<1>7. Opened'
  BY <1>1 DEF Opened
<1>8. QED
  BY <1>4, <1>5, <1>6, <1>7 DEF NightInv

IdleAdmin == [pc |-> "idle", ms |-> [r \in Night |-> NoMarker], queued |-> {}]
LEMMA IdleAdminTyped ==
  ASSUME OutboxAssumption
  PROVE  IdleAdmin \in Snapshot /\ IdleAdmin.pc = "idle" /\ NoMarker \in Marker
<1>1. NoMarker \in Marker
  BY Bounds DEF NoMarker, Marker, Event
<1>2. [r \in Night |-> NoMarker] \in [Night -> Marker]
  BY <1>1
<1>3. QED
  BY <1>1, <1>2 DEF IdleAdmin, Snapshot

LEMMA AbortsKeep ==
  ASSUME OutboxAssumption, Typed, NightInv, ChangeAborts
  PROVE  Typed' /\ NightInv' /\ Opened'
<1>1. /\ admin' = IdleAdmin
      /\ UNCHANGED <<rev, phase, past, marker, events, rows, heard, prod, work, faults>>
  BY DEF ChangeAborts, IdleAdmin
<1>2. admin' \in Snapshot /\ admin'.pc = "idle"
  BY <1>1, IdleAdminTyped
<1>3. Typed'
  BY <1>1, <1>2 DEF Typed
<1>4. (EventsAreDrawn /\ MarkerNamesIts /\ OneEventPerNight /\ OneRowPerEvent /\ SentWasQueued)'
  BY <1>1 DEF NightInv, EventsAreDrawn, MarkerNamesIts, OneEventPerNight, OneRowPerEvent,
              SentWasQueued, Listed, Due
<1>5. OldNightsForgotten'
  <2>1. \A r : Over(r)' <=> Over(r)
    BY <1>1 DEF Over
  <2>2. \A x : Listed(x)' <=> Listed(x)
    BY <1>1 DEF Listed
  <2>3. QED
    BY <1>1, <1>2, <2>1, <2>2 DEF NightInv, OldNightsForgotten
<1>6. QED
  BY <1>2, <1>3, <1>4, <1>5 DEF NightInv, Opened

Gone == Removable(admin.ms, admin.queued)
Left == [r \in Night |-> IF r \in Gone THEN NoMarker ELSE marker[r]]
Covered == [NoMarker EXCEPT !.kind = "sent"]

\* What a change leaves of the markers: none it removes, and at most one of its
\* own, for the night it announces.
LEMMA CommitIs ==
  ASSUME OutboxAssumption, Typed, Opened, ChangeCommits
  PROVE  /\ Typed' /\ admin'.pc = "idle"
         /\ rev \in Nat /\ rev' \in Nat /\ rev' >= rev /\ (phase' = "setup" => rev' = rev + 1)
         /\ \A r \in Night : \/ marker'[r] = marker[r] /\ r \notin Gone
                             \/ marker'[r] = NoMarker
                             \/ /\ r = rev + 1 /\ rev' = rev + 1
                                /\ marker'[r].kind = "sent" /\ marker'[r].event = 0
         /\ UNCHANGED <<past, events, rows, heard, prod, work, faults>>
<1>1. /\ admin.pc # "idle" /\ admin' = IdleAdmin
      /\ UNCHANGED <<past, events, rows, heard, prod, work, faults>>
      /\ \/ /\ admin.pc = "move" /\ rev' = rev + 1 /\ phase' = phase
            /\ marker' = Left \/ marker' = [Left EXCEPT ![rev + 1] = Covered]
         \/ admin.pc # "move" /\ phase' = "live" /\ marker' = Left /\ rev' = rev
  BY DEF ChangeCommits, Gone, Left, Covered, IdleAdmin
<1>2. /\ rev \in Nat /\ MaxRev \in Nat /\ rev <= MaxRev /\ phase = "setup"
      /\ admin.pc = "move" => rev < MaxRev
  BY <1>1, Bounds DEF Typed, Opened
<1>3. NoMarker \in Marker /\ Covered \in Marker /\ Covered.kind = "sent" /\ Covered.event = 0
  BY IdleAdminTyped DEF Covered, NoMarker, Marker
<1>4. Left \in [Night -> Marker] /\ \A r \in Night : \/ Left[r] = marker[r] /\ r \notin Gone
                                                     \/ Left[r] = NoMarker
  <2>1. \A r \in Night : marker[r] \in Marker
    BY PassTyped
  <2>2. QED
    BY <1>3, <2>1 DEF Left
<1> HIDE DEF Left, Gone, Covered, IdleAdmin, NoMarker
<1>5. marker' \in [Night -> Marker]
  BY <1>1, <1>3, <1>4
<1>6. ASSUME NEW r \in Night
      PROVE  \/ marker'[r] = Left[r]
             \/ /\ r = rev + 1 /\ rev' = rev + 1 /\ marker'[r] = Covered
  BY <1>1, <1>4
<1>7. ASSUME NEW r \in Night
      PROVE  \/ marker'[r] = marker[r] /\ r \notin Gone
             \/ marker'[r] = NoMarker
             \/ /\ r = rev + 1 /\ rev' = rev + 1
                /\ marker'[r].kind = "sent" /\ marker'[r].event = 0
  BY <1>3, <1>4, <1>6
<1>8. rev' \in 0 .. MaxRev /\ rev' >= rev /\ (phase' = "setup" => rev' = rev + 1) /\ rev' \in Nat
      /\ phase' \in {"setup", "live", "over"}
  BY <1>1, <1>2
<1>9. admin' \in Snapshot /\ admin'.pc = "idle"
  BY <1>1, IdleAdminTyped
<1>10. Typed'
  BY <1>1, <1>5, <1>8, <1>9 DEF Typed
<1>11. QED
  BY <1>1, <1>2, <1>7, <1>8, <1>9, <1>10

LEMMA CommitsKeep ==
  ASSUME OutboxAssumption, Typed, NightInv, Opened, ChangeCommits
  PROVE  Typed' /\ NightInv' /\ Opened'
<1>1. /\ Typed' /\ admin'.pc = "idle" /\ admin.pc # "idle"
      /\ rev \in Nat /\ rev' \in Nat /\ rev' >= rev /\ (phase' = "setup" => rev' = rev + 1)
      /\ UNCHANGED <<past, events, rows, heard, prod, work, faults>>
  BY CommitIs DEF ChangeCommits
<1>2. \A r \in Night : \/ marker'[r] = marker[r] /\ r \notin Gone
                       \/ marker'[r] = NoMarker
                       \/ /\ r = rev + 1 /\ rev' = rev + 1
                          /\ marker'[r].kind = "sent" /\ marker'[r].event = 0
  BY CommitIs
<1>3. /\ NoMarker.kind = "none" /\ NoMarker.event = 0 /\ events \in Nat
      /\ \A r \in Night : r \in Nat
      /\ \A p \in Producer : prod[p].rev \in Night
      /\ \A k \in 1 .. Len(rows) : rows[k].rev \in Nat /\ (rows[k].rev # 0 => rows[k].rev \in Night)
  <2>1. \A k \in 1 .. Len(rows) : rows[k].rev \in 0 .. MaxRev
    BY Shape DEF Row
  <2>2. \A k \in 1 .. Len(rows) : rows[k].rev \in Nat /\ (rows[k].rev # 0 => rows[k].rev \in Night)
    BY <2>1, Bounds DEF Night
  <2>3. \A r \in Night : r \in Nat
    BY Bounds DEF Night
  <2>4. QED
    BY <2>2, <2>3, PassTyped DEF NoMarker
<1>4. /\ \A p \in Producer : /\ prod[p].pc # "idle" => prod[p].rev <= rev
                             /\ prod[p].pc \in Claiming => prod[p].event # 0
      /\ \A k \in 1 .. Len(rows) : rows[k].rev <= rev
  BY DEF NightInv, EventsAreDrawn
<1>5. EventsAreDrawn'
  <2>1. ASSUME NEW r \in Night
        PROVE  /\ marker'[r].event <= events
               /\ marker'[r].kind \in {"claim", "failed"} => marker'[r].event # 0
               /\ r > rev' => marker'[r].kind = "none"
    BY <1>1, <1>2, <1>3 DEF NightInv, EventsAreDrawn
  <2>2. ASSUME NEW p \in Producer
        PROVE  prod[p].pc # "idle" => prod[p].rev <= rev'
    BY <1>1, <1>3, <1>4
  <2>3. ASSUME NEW k \in 1 .. Len(rows) PROVE rows[k].rev <= rev'
    BY <1>1, <1>3, <1>4
  <2>4. QED
    BY <1>1, <2>1, <2>2, <2>3 DEF NightInv, EventsAreDrawn
<1>6. MarkerNamesIts'
  <2> SUFFICES ASSUME phase' = "setup"
               PROVE  /\ \A p \in Producer : prod[p].pc \in Claiming => prod[p].rev # rev'
                      /\ \A k \in 1 .. Len(rows) : rows[k].rev # rev'
    BY <1>1 DEF MarkerNamesIts, Due
  <2>1. \A p \in Producer : prod[p].pc \in Claiming => prod[p].rev <= rev
    BY <1>4 DEF Claiming
  <2>2. QED
    BY <1>1, <1>3, <1>4, <2>1
<1>7. (OneEventPerNight /\ OneRowPerEvent)'
  BY <1>1 DEF NightInv, OneEventPerNight, OneRowPerEvent
<1>8. \A x : Listed(x)' <=> Listed(x)
  BY <1>1 DEF Listed
<1>9. SentWasQueued'
  BY <1>1, <1>2, <1>3, <1>8 DEF NightInv, SentWasQueued
<1>10. OldNightsForgotten'
  <2> SUFFICES ASSUME ~Overlaps
               PROVE  /\ \A k \in 1 .. Len(rows) : Pending(rows[k]) /\ rows[k].rev # 0
                           => ~OwnsEvent(marker'[rows[k].rev], rows[k].event)
                      /\ \A p \in Producer : prod[p].pc = "send"
                           => ~OwnsEvent(marker'[prod[p].rev], prod[p].event) \/ Listed(prod[p].event)
    BY <1>1, <1>8 DEF OldNightsForgotten
  <2>1. /\ \A r \in Night : admin.ms[r].kind = marker[r].kind
        /\ \A k \in 1 .. Len(rows) : Pending(rows[k]) => rows[k].rev \in admin.queued
    BY <1>1 DEF NightInv, OldNightsForgotten
  <2>2. ASSUME NEW r \in Night, r \notin Gone
        PROVE  marker[r].kind \notin {"claim", "failed"} /\ (r \in admin.queued => marker[r].kind = "none")
    BY <2>1, <2>2 DEF Gone, Removable
  <2>3. ASSUME NEW k \in 1 .. Len(rows), Pending(rows[k]), rows[k].rev # 0
        PROVE  ~OwnsEvent(marker'[rows[k].rev], rows[k].event)
    <3>1. rows[k].rev \in Night /\ rows[k].rev # rev + 1 /\ rows[k].rev \in admin.queued
      BY <1>1, <1>3, <1>4, <2>1, <2>3
    <3>2. marker'[rows[k].rev].kind = "none"
      BY <1>2, <1>3, <2>2, <3>1
    <3>3. QED
      BY <3>2 DEF OwnsEvent
  <2>4. ASSUME NEW p \in Producer, prod[p].pc = "send", OwnsEvent(marker'[prod[p].rev], prod[p].event)
        PROVE  Listed(prod[p].event)
    <3>1. prod[p].rev \in Night /\ prod[p].rev # rev + 1 /\ prod[p].event # 0
      BY <1>1, <1>3, <1>4, <2>4 DEF Claiming
    <3>2. marker'[prod[p].rev] = marker[prod[p].rev] /\ prod[p].rev \notin Gone
      BY <1>2, <1>3, <2>4, <3>1 DEF OwnsEvent
    <3>3. marker[prod[p].rev].kind = "sent" /\ marker[prod[p].rev].event = prod[p].event
      <4>1. marker[prod[p].rev].kind \in {"none", "claim", "failed", "sent"}
        BY <3>1, PassTyped
      <4>2. QED
        BY <2>2, <2>4, <3>1, <3>2, <4>1 DEF OwnsEvent
    <3>4. QED
      BY <3>1, <3>3 DEF NightInv, SentWasQueued
  <2>5. QED
    BY <2>3, <2>4
<1>11. QED
  BY <1>1, <1>5, <1>6, <1>7, <1>9, <1>10 DEF NightInv, Opened

\* The auction ends, and its posts go stale.
LEMMA EndsKeep ==
  ASSUME OutboxAssumption, Typed, DeliveryInv, NightInv, Opened, AuctionEnds
  PROVE  Typed' /\ DeliveryInv' /\ NightInv' /\ Opened' /\ InPlace
<1> DEFINE live == {k \in DOMAIN rows : Waiting(k) /\ rows[k].rev = 0}
           out  == {k \in DOMAIN rows : Droppable(k) /\ (Expired(k) \/ k \in live)}
           marked == [k \in DOMAIN rows |->
                        IF k \in live THEN [rows[k] EXCEPT !.stale = TRUE] ELSE rows[k]]
<1>1. /\ phase = "live" /\ phase' = "over" /\ rows' = DropAll(out, marked)
      /\ UNCHANGED <<rev, past, marker, events, heard, admin, prod, work, faults>>
  BY DEF AuctionEnds
<1>2. DOMAIN rows = 1 .. Len(rows)
  BY Shape
<1>3. \A k \in 1 .. Len(rows) : k \in out => Droppable(k)
  OBVIOUS
<1>4. marked = [k \in 1 .. Len(rows) |-> marked[k]]
  BY <1>2
<1>5. \A k \in 1 .. Len(rows) : marked[k] = rows[k] \/ marked[k] = [rows[k] EXCEPT !.stale = TRUE]
  BY <1>2
<1> HIDE DEF live, out, marked
<1>6. Passive(rows')
  <2>1. Passive(DropAll(out, marked))
    BY <1>3, <1>4, <1>5, DropsArePassive
  <2>2. QED
    BY <1>1, <2>1
<1>7. DeliveryInv' /\ InPlace /\ rows' \in Seq(Row) /\ Len(rows') = Len(rows)
  BY <1>1, <1>6, PassiveKeeps
<1>8. Typed'
  BY <1>1, <1>7 DEF Typed
<1>9. NightInv'
  BY <1>1, <1>7, NightStands
<1>10. QED
  BY <1>1, <1>7, <1>8, <1>9 DEF Opened

\* The night comes.
LEMMA PassesKeep ==
  ASSUME OutboxAssumption, Typed, DeliveryInv, NightInv, Opened, Passes
  PROVE  Typed' /\ DeliveryInv' /\ NightInv' /\ Opened' /\ InPlace
<1>1. /\ rev > 0 /\ past' = past \cup {rev}
      /\ UNCHANGED <<rev, phase, marker, events, rows, heard, admin, prod, work, faults>>
  BY DEF Passes
<1>2. rev \in Night
  BY <1>1, Bounds DEF Typed, Night
<1>3. DeliveryInv' /\ InPlace /\ Len(rows') = Len(rows)
  BY <1>1, DeliveryStands
<1>4. Typed'
  BY <1>1, <1>2 DEF Typed
<1>5. NightInv'
  BY <1>1, <1>3, NightStands
<1>6. QED
  BY <1>1, <1>3, <1>4, <1>5 DEF Opened


-----------------------------------------------------------------------------
(* The whole queue *)

OutboxInv == Typed /\ DeliveryInv /\ NightInv /\ Opened
\* Discord hears a row from a pass that has checked it, and from no other step.
Hears == \A k \in 1 .. Len(rows) :
           heard'[k] # heard[k] => \E w \in Worker : work[w].pc = "checked" /\ work[w].row = k

LEMMA ProducesKeep ==
  ASSUME OutboxAssumption, OutboxInv, NEW p \in Producer, Produces(p)
  PROVE  OutboxInv' /\ InPlace /\ Hears
<1>1. Typed /\ DeliveryInv /\ NightInv /\ Opened
  BY DEF OutboxInv
<1>2. UNCHANGED <<rev, phase, admin, work>>
  BY DEF Produces, Looks, Claims, Reclaims, Rereads, Enqueues, EnqueueFails, Finalizes
<1>3. Opened'
  BY <1>1, <1>2 DEF Opened
<1>4. CASE Enqueues(p) /\ ~Queued(prod[p].event)
  <2>1. Typed' /\ DeliveryInv' /\ NightInv' /\ InPlace
    BY <1>1, <1>4, EnqueuesKeep
  <2>2. heard' = Append(heard, 0)
    BY <1>4 DEF Enqueues, Adds
  <2>3. \A k \in 1 .. Len(rows) : heard'[k] = heard[k]
    <3>1. heard \in Seq(Nat) /\ Len(heard) = Len(rows)
      BY <1>1 DEF Typed
    <3>2. QED
      BY <2>2, <3>1
  <2>4. QED
    BY <1>3, <2>1, <2>3 DEF OutboxInv, Hears
<1>5. CASE ~(Enqueues(p) /\ ~Queued(prod[p].event))
  <2>1. Typed' /\ NightInv' /\ UNCHANGED <<rows, heard, faults>>
    <3>1. CASE Looks(p)
      <4>1. UNCHANGED <<rows, heard, faults>>
        BY <3>1 DEF Looks
      <4>2. QED
        BY <1>1, <3>1, <4>1, LooksKeep
    <3>2. CASE Claims(p)
      <4>1. UNCHANGED <<rows, heard, faults>>
        BY <3>2 DEF Claims
      <4>2. QED
        BY <1>1, <3>2, <4>1, ClaimsKeep
    <3>3. CASE Reclaims(p)
      <4>1. UNCHANGED <<rows, heard, faults>>
        BY <3>3 DEF Reclaims
      <4>2. QED
        BY <1>1, <3>3, <4>1, ReclaimsKeep
    <3>4. CASE Rereads(p)
      <4>1. UNCHANGED <<rows, heard, faults>>
        BY <3>4 DEF Rereads
      <4>2. QED
        BY <1>1, <3>4, <4>1, RereadsKeep
    <3>5. CASE Enqueues(p)
      <4>1. /\ prod[p].pc = "send" /\ prod' = [prod EXCEPT ![p].pc = "sent"] /\ Queued(prod[p].event)
            /\ UNCHANGED <<rev, phase, past, marker, events, rows, heard, admin, work, faults>>
        BY <1>5, <3>5 DEF Enqueues
      <4>2. QED
        BY <1>1, <4>1, SendEndsKeeps
    <3>6. CASE EnqueueFails(p)
      <4>1. /\ prod[p].pc = "send" /\ prod' = [prod EXCEPT ![p].pc = "failed"]
            /\ UNCHANGED <<rev, phase, past, marker, events, rows, heard, admin, work, faults>>
        BY <3>6 DEF EnqueueFails
      <4>2. QED
        BY <1>1, <4>1, SendEndsKeeps
    <3>7. CASE Finalizes(p)
      <4>1. UNCHANGED <<rows, heard, faults>>
        BY <3>7 DEF Finalizes
      <4>2. QED
        BY <1>1, <3>7, <4>1, FinalizesKeep
    <3>8. QED
      BY <3>1, <3>2, <3>3, <3>4, <3>5, <3>6, <3>7 DEF Produces
  <2>2. DeliveryInv' /\ InPlace
    BY <1>1, <1>2, <2>1, DeliveryStands
  <2>3. QED
    BY <1>3, <2>1, <2>2 DEF OutboxInv, Hears
<1>6. QED
  BY <1>4, <1>5

LEMMA DeliversKeep ==
  ASSUME OutboxAssumption, OutboxInv, NEW w \in Worker, Delivers(w)
  PROVE  OutboxInv' /\ InPlace /\ Hears
<1>1. Typed /\ DeliveryInv /\ NightInv /\ Opened
  BY DEF OutboxInv
<1>2. UNCHANGED <<rev, phase, past, marker, events, admin, prod>>
  <2>1. CASE Sweeps(w)
    BY <2>1 DEF Sweeps
  <2>2. CASE Picks(w)
    <3>1. UNCHANGED <<rev, phase, past, marker, events, rows, heard, admin, prod, faults>>
      BY <2>2, Zenon DEF Picks
    <3>2. QED
      BY <3>1
  <2>3. CASE Leases(w)
    BY <2>3 DEF Leases
  <2>4. CASE ChecksSource(w)
    BY <2>4 DEF ChecksSource
  <2>5. CASE CheckFails(w)
    BY <2>5 DEF CheckFails
  <2>6. CASE Accepts(w)
    BY <2>6 DEF Accepts
  <2>7. CASE Refuses(w)
    BY <2>7 DEF Refuses
  <2>8. CASE Settles(w)
    BY <2>8 DEF Settles
  <2>9. QED
    BY <2>1, <2>2, <2>3, <2>4, <2>5, <2>6, <2>7, <2>8 DEF Delivers
<1>3. Typed' /\ DeliveryInv' /\ InPlace /\ Len(rows') = Len(rows)
  <2>1. CASE Sweeps(w)
    BY <1>1, <2>1, SweepsKeep
  <2>2. CASE Picks(w)
    BY <1>1, <2>2, PicksKeep
  <2>3. CASE Leases(w)
    BY <1>1, <2>3, LeasesKeep
  <2>4. CASE ChecksSource(w) \/ CheckFails(w) \/ Settles(w)
    BY <1>1, <2>4, ChecksKeep
  <2>5. CASE Accepts(w) \/ Refuses(w)
    BY <1>1, <2>5, AnswersKeep
  <2>6. QED
    BY <2>1, <2>2, <2>3, <2>4, <2>5 DEF Delivers
<1>4. NightInv' /\ Opened'
  BY <1>1, <1>2, <1>3, NightStands DEF Opened
<1>5. Hears
  <2>1. CASE Accepts(w)
    <3>1. work[w].pc = "checked" /\ heard' = [heard EXCEPT ![work[w].row] = @ + 1]
      BY <2>1 DEF Accepts
    <3>2. \A k \in 1 .. Len(rows) : k # work[w].row => heard'[k] = heard[k]
      BY <3>1
    <3>3. QED
      BY <3>1, <3>2 DEF Hears
  <2>2. CASE ~Accepts(w)
    <3>1. heard' = heard
      <4>1. CASE Sweeps(w)
        BY <4>1 DEF Sweeps
      <4>2. CASE Picks(w)
        <5>1. UNCHANGED <<rev, phase, past, marker, events, rows, heard, admin, prod, faults>>
          BY <4>2, Zenon DEF Picks
        <5>2. QED
          BY <5>1
      <4>3. CASE Leases(w)
        BY <4>3 DEF Leases
      <4>4. CASE ChecksSource(w)
        BY <4>4 DEF ChecksSource
      <4>5. CASE CheckFails(w)
        BY <4>5 DEF CheckFails
      <4>6. CASE Refuses(w)
        BY <4>6 DEF Refuses
      <4>7. CASE Settles(w)
        BY <4>7 DEF Settles
      <4>8. QED
        BY <2>2, <4>1, <4>2, <4>3, <4>4, <4>5, <4>6, <4>7 DEF Delivers
    <3>2. QED
      BY <3>1 DEF Hears
  <2>3. QED
    BY <2>1, <2>2
<1>6. QED
  BY <1>1, <1>3, <1>4, <1>5 DEF OutboxInv

LEMMA AdministersKeep ==
  ASSUME OutboxAssumption, OutboxInv, Administers
  PROVE  OutboxInv' /\ InPlace /\ Hears
<1>1. Typed /\ DeliveryInv /\ NightInv /\ Opened
  BY DEF OutboxInv
<1>2. CASE (\E goal \in {"move", "start"} : ChangeOpens(goal)) \/ ChangeCommits \/ ChangeAborts
  <2>1. UNCHANGED <<rows, heard, work, faults>>
    BY <1>2 DEF ChangeOpens, ChangeCommits, ChangeAborts
  <2>2. Typed' /\ NightInv' /\ Opened'
    BY <1>1, <1>2, OpensKeep, CommitsKeep, AbortsKeep
  <2>3. DeliveryInv' /\ InPlace
    BY <1>1, <2>1, DeliveryStands
  <2>4. QED
    BY <2>1, <2>2, <2>3 DEF OutboxInv, Hears
<1>3. CASE AnnouncesLive
  <2>1. Typed' /\ DeliveryInv' /\ NightInv' /\ InPlace
    BY <1>1, <1>3, AnnouncesKeep
  <2>2. heard' = Append(heard, 0) /\ UNCHANGED <<rev, phase, admin>>
    BY <1>3 DEF AnnouncesLive, Adds
  <2>3. \A k \in 1 .. Len(rows) : heard'[k] = heard[k]
    <3>1. heard \in Seq(Nat) /\ Len(heard) = Len(rows)
      BY <1>1 DEF Typed
    <3>2. QED
      BY <2>2, <3>1
  <2>4. QED
    BY <1>1, <2>1, <2>2, <2>3 DEF OutboxInv, Hears, Opened
<1>4. CASE AuctionEnds
  <2>1. heard' = heard
    BY <1>4 DEF AuctionEnds
  <2>2. QED
    BY <1>1, <1>4, <2>1, EndsKeep DEF OutboxInv, Hears
<1>5. CASE Discards \/ Resumes
  <2>1. UNCHANGED <<rev, phase, past, marker, events, heard, admin, prod, work, faults>>
    BY <1>5 DEF Discards, Resumes
  <2>2. Typed' /\ DeliveryInv' /\ InPlace /\ Len(rows') = Len(rows)
    BY <1>1, <1>5, DiscardsKeep, DuesKeep
  <2>3. NightInv' /\ Opened'
    BY <1>1, <2>1, <2>2, NightStands DEF Opened
  <2>4. QED
    BY <2>1, <2>2, <2>3 DEF OutboxInv, Hears
<1>6. QED
  BY <1>2, <1>3, <1>4, <1>5 DEF Administers

LEMMA TimeKeeps ==
  ASSUME OutboxAssumption, OutboxInv,
         Passes \/ (\E k \in 1 .. MaxRows : BecomesDue(k)) \/ Lapses \/ Crashes
  PROVE  OutboxInv' /\ InPlace /\ Hears
<1>1. Typed /\ DeliveryInv /\ NightInv /\ Opened
  BY DEF OutboxInv
<1>2. heard' = heard
  BY DEF Passes, BecomesDue, Lapses, RowLapses, MarkerLapses, Crashes
<1>3. Hears
  BY <1>2 DEF Hears
<1>4. CASE Passes
  BY <1>1, <1>3, <1>4, PassesKeep DEF OutboxInv
<1>5. CASE \E k \in 1 .. MaxRows : BecomesDue(k) \/ RowLapses(k)
  <2>1. Typed' /\ DeliveryInv' /\ InPlace /\ Len(rows') = Len(rows)
    BY <1>1, <1>5, DuesKeep, RowLapsesKeep
  <2>2. UNCHANGED <<rev, phase, past, marker, events, admin, prod>>
    BY <1>5 DEF BecomesDue, RowLapses
  <2>3. NightInv' /\ Opened'
    BY <1>1, <2>1, <2>2, NightStands DEF Opened
  <2>4. QED
    BY <1>3, <2>1, <2>3 DEF OutboxInv
<1>6. CASE \E r \in Night : MarkerLapses(r)
  <2>1. Typed' /\ NightInv' /\ \A k \in 1 .. Len(rows) : faults'[k] = faults[k]
    BY <1>1, <1>6, MarkerLapsesKeep
  <2>2. UNCHANGED <<rev, phase, rows, heard, admin, work>>
    BY <1>6 DEF MarkerLapses
  <2>3. DeliveryInv' /\ InPlace
    BY <1>1, <2>1, <2>2, DeliveryStands
  <2>4. QED
    BY <1>1, <1>3, <2>1, <2>2, <2>3 DEF OutboxInv, Opened
<1>7. CASE Crashes
  <2>1. UNCHANGED <<rev, phase, past, marker, events, rows, heard, admin>>
    BY <1>7 DEF Crashes
  <2>2. CASE \E w \in Worker : /\ work' = [work EXCEPT ![w] = IdleWork]
                               /\ faults' = [faults EXCEPT ![work[w].row] = @ + 1]
                               /\ UNCHANGED prod
    <3>1. Typed' /\ DeliveryInv' /\ InPlace /\ Len(rows') = Len(rows)
      BY <1>1, <2>1, <2>2, DiesKeep
    <3>2. UNCHANGED prod
      BY <2>2
    <3>3. NightInv' /\ Opened'
      BY <1>1, <2>1, <3>1, <3>2, NightStands DEF Opened
    <3>4. QED
      BY <1>3, <3>1, <3>3 DEF OutboxInv
  <2>3. CASE \E p \in Producer : /\ prod' = [prod EXCEPT ![p] = IdleProd]
                                 /\ faults' = [faults EXCEPT ![0] = @ + 1]
                                 /\ UNCHANGED work
    <3>1. Typed' /\ NightInv' /\ (\A k \in 1 .. Len(rows) : faults'[k] = faults[k]) /\ UNCHANGED work
      BY <1>1, <2>1, <2>3, PassDies
    <3>2. DeliveryInv' /\ InPlace
      BY <1>1, <2>1, <3>1, DeliveryStands
    <3>3. QED
      BY <1>1, <1>3, <2>1, <3>1, <3>2 DEF OutboxInv, Opened
  <2>4. QED
    BY <1>7, <2>2, <2>3 DEF Crashes
<1>8. QED
  BY <1>4, <1>5, <1>6, <1>7 DEF Lapses

LEMMA QueueSteps ==
  ASSUME OutboxAssumption, OutboxInv, [Next]_vars
  PROVE  OutboxInv' /\ InPlace /\ Hears
<1>1. CASE Next
  BY <1>1, ProducesKeep, DeliversKeep, AdministersKeep, TimeKeeps DEF Next
<1>2. CASE UNCHANGED vars
  <2>1. UNCHANGED <<rev, phase, past, marker, events, rows, heard, admin, prod, work, faults>>
    BY <1>2 DEF vars
  <2>2. Typed' /\ Opened'
    BY <2>1 DEF OutboxInv, Typed, Opened
  <2>3. DeliveryInv' /\ InPlace /\ Len(rows') = Len(rows)
    BY <2>1, DeliveryStands DEF OutboxInv
  <2>4. NightInv'
    BY <2>1, <2>3, NightStands DEF OutboxInv
  <2>5. QED
    BY <2>1, <2>2, <2>3, <2>4 DEF OutboxInv, Hears
<1>3. QED
  BY <1>1, <1>2

LEMMA StartsSound ==
  ASSUME OutboxAssumption, Init
  PROVE  OutboxInv
<1>1. /\ rev = 0 /\ phase = "setup" /\ past = {} /\ marker = [r \in Night |-> NoMarker] /\ events = 0
      /\ rows = <<>> /\ heard = <<>> /\ admin = IdleAdmin
      /\ prod = [p \in Producer |-> IdleProd] /\ work = [w \in Worker |-> IdleWork]
      /\ faults = [k \in {0} |-> 0]
  BY DEF Init, IdleAdmin
<1>2. /\ MaxRev \in Nat /\ MaxRows \in Nat /\ MaxEvents \in Nat /\ NoMarker \in Marker
      /\ admin \in Snapshot /\ admin.pc = "idle"
  BY <1>1, Bounds, IdleAdminTyped
<1>3. IdleProd \in Producing /\ IdleWork \in Working
  <2>1. 1 \in Night /\ 0 \in Event /\ 0 \in 0 .. MaxRows
    BY Bounds DEF Night, Event
  <2>2. QED
    BY <1>2, <2>1 DEF IdleProd, Producing, ProdPc, IdleWork, Working
<1>4. Len(rows) = 0 /\ 0 .. Len(rows) = {0} /\ rows \in Seq(Row) /\ heard \in Seq(Nat) /\ Len(heard) = 0
  BY <1>1
<1>5. Typed
  <2>1. marker \in [Night -> Marker] /\ prod \in [Producer -> Producing] /\ work \in [Worker -> Working]
    BY <1>1, <1>2, <1>3
  <2>2. faults \in [0 .. Len(rows) -> Nat] /\ Len(rows) <= MaxRows /\ rev \in 0 .. MaxRev /\ events \in Event
    BY <1>1, <1>2, <1>4 DEF Event
  <2>3. QED
    BY <1>1, <1>2, <1>4, <2>1, <2>2 DEF Typed
<1>6. /\ 1 .. Len(rows) = {} /\ \A w \in Worker : work[w].pc = "idle" /\ work[w].row = 0
      /\ \A p \in Producer : prod[p].pc = "idle" /\ prod[p].event = 0 /\ prod[p].rev = 1
      /\ \A r \in Night : marker[r].kind = "none" /\ marker[r].event = 0
  BY <1>1, <1>4 DEF IdleProd, IdleWork, NoMarker
<1>7. DeliveryInv
  <2>1. "idle" \notin Aiming /\ "idle" \notin Live
    BY DEF Aiming, Live
  <2>2. InLine(work, rows)
    BY <1>4, <1>6, <2>1 DEF InLine
  <2>3. Steady(work, rows)
    BY <1>6, <2>1 DEF Steady
  <2>4. QED
    BY <1>6, <2>2, <2>3 DEF DeliveryInv
<1>8. NightInv
  <2>1. EventsAreDrawn
    BY <1>1, <1>6 DEF EventsAreDrawn, Claiming
  <2>2. ~Due
    BY <1>1 DEF Due
  <2>3. MarkerNamesIts
    BY <2>2 DEF MarkerNamesIts
  <2>4. OneEventPerNight /\ OneRowPerEvent /\ SentWasQueued
    BY <1>6 DEF OneEventPerNight, OneRowPerEvent, SentWasQueued
  <2>5. OldNightsForgotten
    BY <1>2, <1>6 DEF OldNightsForgotten
  <2>6. QED
    BY <2>1, <2>3, <2>4, <2>5 DEF NightInv
<1>9. QED
  BY <1>2, <1>5, <1>7, <1>8 DEF OutboxInv, Opened

\* The account of every row and the history of every night's marker hold in
\* every reachable state: processOutbox's passes, the claims of the automation
\* and the admin's transactions keep them.
THEOREM OutboxInvariant ==
  ASSUME OutboxAssumption
  PROVE  Spec => []OutboxInv
<1>1. Init => OutboxInv
  BY StartsSound
<1>2. OutboxInv /\ [Next]_vars => OutboxInv'
  BY QueueSteps
<1>3. QED
  BY <1>1, <1>2, PTL DEF Spec

LEMMA SoundIsKept ==
  ASSUME OutboxAssumption, OutboxInv
  PROVE  OutboxIsSound
<1>1. Typed /\ DeliveryInv /\ NightInv
  BY DEF OutboxInv
<1>2. DOMAIN rows = 1 .. Len(rows) /\ DOMAIN faults = 0 .. Len(rows)
  BY <1>1, Shape
<1>3. TypeOK
  <2>1. \A p \in Producer :
          /\ prod[p].pc \in {"idle", "claim", "reclaim", "reread", "send", "sent", "failed"}
          /\ prod[p].rev \in Night /\ prod[p].event \in Event /\ prod[p].seen \in Marker
    BY <1>1, PassTyped DEF ProdPc
  <2>2. \A w \in Worker :
          /\ work[w].row \in 0 .. Len(rows)
          /\ work[w].pc \in {"idle", "swept", "picked", "leased", "checked", "yes", "no", "never"}
    <3>1. ASSUME NEW w \in Worker
          PROVE  /\ work[w].row \in Nat /\ work[w].row <= Len(rows)
                 /\ work[w].pc \in {"idle", "swept", "picked", "leased", "checked", "yes", "no", "never"}
      BY <1>1 DEF Typed, Working, Aiming, Live, DeliveryInv, InLine
    <3>2. Len(rows) \in Nat
      BY <1>1, Shape
    <3>3. QED
      BY <3>1, <3>2
  <2>3. \A k \in DOMAIN faults : faults[k] \in Nat
    BY <1>1, <1>2 DEF Typed
  <2>4. QED
    BY <1>1, <1>2, <2>1, <2>2, <2>3 DEF Typed, TypeOK
<1>4. DuplicatesExplained
  <2>1. ASSUME NEW k \in 1 .. Len(rows) PROVE heard[k] <= 1 + faults[k]
    <3>1. /\ heard[k] \in Nat /\ faults[k] \in Nat /\ Sound(rows[k], heard[k], faults[k], work, k)
      BY <1>1, Shape DEF DeliveryInv
    <3>2. Cardinality(At(work, k, Risky)) \in Nat /\ Reserve(rows[k], work, k) \in {0, 1}
      BY <3>1, FS_CardinalityType, ReserveIs DEF Sound, Afford
    <3>3. QED
      BY <3>1, <3>2 DEF Sound, Afford
  <2>2. QED
    BY <1>2, <2>1 DEF DuplicatesExplained
<1>5. OutcomeIsRecorded
  <2> DEFINE told(k) == \E w \in Worker : work[w] = [pc |-> "yes", row |-> k]
  <2>1. ASSUME NEW k \in 1 .. Len(rows) PROVE At(work, k, {"yes"}) # {} <=> told(k)
    <3>1. \A w \in Worker : work[w].row = k /\ work[w].pc = "yes" <=> work[w] = [pc |-> "yes", row |-> k]
      BY <1>1 DEF Typed, Working
    <3>2. QED
      BY <3>1 DEF At
  <2> HIDE DEF told
  <2>2. ASSUME NEW k \in DOMAIN rows, faults[k] = 0
        PROVE  heard[k] = 1 <=> rows[k].status = "SENT" \/ told(k)
    BY <1>1, <1>2, <2>1, <2>2 DEF DeliveryInv, Sound, Tells
  <2>3. \A k \in DOMAIN rows : faults[k] = 0 => (heard[k] = 1 <=> rows[k].status = "SENT" \/ told(k))
    BY <2>2
  <2>4. QED
    BY <2>3, Zenon DEF OutcomeIsRecorded, told
<1>6. OneRowPerNight
  <2>1. ASSUME NEW i \in 1 .. Len(rows), NEW j \in 1 .. Len(rows), rows[i].rev = rows[j].rev, rows[i].rev > 0
        PROVE  i = j
    <3>1. rows[i].event = rows[j].event /\ rows[j].event # 0
      BY <1>1, <2>1 DEF NightInv, OneEventPerNight, EventsAreDrawn
    <3>2. QED
      BY <1>1, <3>1 DEF NightInv, OneRowPerEvent
  <2>2. QED
    BY <1>2, <2>1 DEF OneRowPerNight
<1>7. QED
  BY <1>3, <1>4, <1>5, <1>6 DEF OutboxIsSound

\* Whatever passes run at once, crash, lose an answer or outlive a lease: a post
\* is repeated only once per such fault, its row says whether Discord has it,
\* and a night has one reminder.
THEOREM OutboxStaysSound ==
  ASSUME OutboxAssumption
  PROVE  Spec => []OutboxIsSound
<1>1. OutboxInv => OutboxIsSound
  BY SoundIsKept
<1>2. QED
  BY <1>1, OutboxInvariant, PTL

LEMMA StepsHold ==
  ASSUME OutboxAssumption, OutboxInv, [Next]_vars
  PROVE  SettledStays /\ InCreationOrder
<1>1. /\ Typed /\ DeliveryInv /\ InPlace /\ Hears
      /\ DOMAIN rows = 1 .. Len(rows) /\ DOMAIN heard = 1 .. Len(rows)
      /\ \A k \in 1 .. Len(rows) : heard[k] \in Nat
  BY QueueSteps, Shape DEF OutboxInv
<1>2. \A k : Waiting(k) <=> Pending(rows[k])
  BY DEF Waiting, Pending
<1>3. SettledStays
  BY <1>1, <1>2 DEF SettledStays, InPlace
<1>4. InCreationOrder
  <2>1. ASSUME NEW k \in 1 .. Len(rows), heard'[k] > heard[k]
        PROVE  \A i \in 1 .. k - 1 : ~Waiting(i)
    <3>1. PICK w \in Worker : work[w].pc = "checked" /\ work[w].row = k
      BY <1>1, <2>1 DEF Hears
    <3>2. "checked" \in Aiming
      BY DEF Aiming, Live
    <3>3. QED
      BY <1>1, <1>2, <3>1, <3>2 DEF DeliveryInv, InLine
  <2>2. QED
    BY <1>1, <2>1 DEF InCreationOrder
<1>5. QED
  BY <1>3, <1>4

\* A settled row is history, and a post is accepted only when all before it are
\* settled, lapsed leases or not.
THEOREM OutboxStepsHold ==
  ASSUME OutboxAssumption
  PROVE  Spec => [][SettledStays /\ InCreationOrder]_vars
<1>1. OutboxInv /\ [Next]_vars => [SettledStays /\ InCreationOrder]_vars
  BY StepsHold
<1>2. QED
  BY <1>1, OutboxInvariant, PTL DEF Spec


\* A pass decides to send from the source check, and from nothing else.
LEMMA OnlyChecked ==
  ASSUME Typed, NEW w \in Worker, [Next]_vars, work[w].pc = "leased", work'[w].pc = "checked"
  PROVE  rows[work[w].row].rev = 0 \/ OwnsEvent(marker[rows[work[w].row].rev], rows[work[w].row].event)
<1>1. work \in [Worker -> Working]
  BY DEF Typed
<1>2. work' # work
  OBVIOUS
<1>3. PICK x \in Worker : Delivers(x) \/ (work' = [work EXCEPT ![x] = IdleWork])
  <2>1. Next
    BY <1>2, Zenon DEF vars
  <2>2. CASE \E p \in Producer : Produces(p)
    <3>1. UNCHANGED work
      BY <2>2 DEF Produces, Looks, Claims, Reclaims, Rereads, Enqueues, EnqueueFails, Finalizes
    <3>2. QED
      BY <1>2, <3>1
  <2>3. CASE Administers \/ Passes \/ (\E k \in 1 .. MaxRows : BecomesDue(k)) \/ Lapses
    <3>1. UNCHANGED work
      BY <2>3, Zenon DEF Administers, ChangeOpens, ChangeCommits, ChangeAborts, AnnouncesLive, AuctionEnds, Discards,
                 Resumes, Passes, BecomesDue, Lapses, RowLapses, MarkerLapses
    <3>2. QED
      BY <1>2, <3>1
  <2>4. CASE Crashes
    BY <1>2, <2>4 DEF Crashes
  <2>5. QED
    BY <2>1, <2>2, <2>3, <2>4 DEF Next
<1>4. x = w
  <2>1. SUFFICES ASSUME x # w PROVE work'[w] = work[w]
    OBVIOUS
  <2>2. CASE work' = [work EXCEPT ![x] = IdleWork]
    BY <1>1, <2>1, <2>2
  <2>3. CASE Sweeps(x)
    BY <1>1, <2>1, <2>3 DEF Sweeps
  <2>4. CASE Picks(x)
    BY <1>1, <2>1, <2>4, Zenon DEF Picks
  <2>5. CASE Leases(x)
    BY <1>1, <2>1, <2>5 DEF Leases
  <2>6. CASE ChecksSource(x)
    BY <1>1, <2>1, <2>6 DEF ChecksSource
  <2>7. CASE CheckFails(x)
    BY <1>1, <2>1, <2>7 DEF CheckFails
  <2>8. CASE Accepts(x)
    BY <1>1, <2>1, <2>8 DEF Accepts
  <2>9. CASE Refuses(x)
    BY <1>1, <2>1, <2>9 DEF Refuses
  <2>10. CASE Settles(x)
    BY <1>1, <2>1, <2>10 DEF Settles
  <2>11. QED
    BY <1>3, <2>2, <2>3, <2>4, <2>5, <2>6, <2>7, <2>8, <2>9, <2>10 DEF Delivers
<1>5. ChecksSource(w)
  <2>1. work' # [work EXCEPT ![w] = IdleWork]
    BY <1>1 DEF IdleWork
  <2>2. ~Sweeps(w) /\ ~Leases(w) /\ ~Accepts(w) /\ ~Refuses(w) /\ ~Settles(w)
    BY DEF Sweeps, Leases, Accepts, Refuses, Settles
  <2>3. ~Picks(w)
    BY Zenon DEF Picks
  <2>4. ~CheckFails(w)
    BY <1>1 DEF CheckFails, Working
  <2>5. QED
    BY <1>3, <1>4, <2>1, <2>2, <2>3, <2>4 DEF Delivers
<1>6. CASE work' = [work EXCEPT ![w].pc = "swept"]
  BY <1>1, <1>6 DEF Working
<1>7. QED
  BY <1>5, <1>6 DEF ChecksSource

\* No step makes a marker name an event that was drawn before and it does not name.
LEMMA NamesNothingOld ==
  ASSUME OutboxAssumption, Typed, NightInv, Opened, [Next]_vars,
         NEW r \in Night, NEW e \in 1 .. events, ~OwnsEvent(marker[r], e)
  PROVE  ~OwnsEvent(marker'[r], e)
<1>1. SUFFICES ASSUME marker' # marker PROVE ~OwnsEvent(marker'[r], e)
  OBVIOUS
<1>2. events \in Nat /\ marker \in [Night -> Marker]
  BY PassTyped DEF Typed
<1>3. ASSUME NEW q \in Night, NEW m \in Marker, marker' = [marker EXCEPT ![q] = m], ~OwnsEvent(m, e) \/ q # r
      PROVE  ~OwnsEvent(marker'[r], e)
  BY <1>1, <1>2, <1>3
<1>4. ASSUME NEW p \in Producer, Claims(p) PROVE ~OwnsEvent(marker'[r], e)
  <2>1. marker' = [marker EXCEPT ![prod[p].rev] = Claimed(p, events + 1)]
    BY <1>1, <1>4 DEF Claims
  <2>2. Claimed(p, events + 1).event = events + 1 /\ e # events + 1
    BY <1>2 DEF Claimed
  <2>3. QED
    BY <1>2, <2>1, <2>2 DEF OwnsEvent
<1>5. ASSUME NEW p \in Producer, Reclaims(p) PROVE ~OwnsEvent(marker'[r], e)
  <2>1. /\ marker[prod[p].rev] = prod[p].seen /\ prod[p].pc = "reclaim"
        /\ marker' = [marker EXCEPT ![prod[p].rev] = Claimed(p, @.event)]
    BY <1>1, <1>5 DEF Reclaims
  <2>2. /\ Claimed(p, marker[prod[p].rev].event).event = marker[prod[p].rev].event
        /\ marker[prod[p].rev].kind # "none"
    BY <2>1 DEF Claimed, NightInv, EventsAreDrawn
  <2>3. QED
    BY <1>2, <2>1, <2>2 DEF OwnsEvent
<1>6. ASSUME NEW p \in Producer, Rereads(p) PROVE ~OwnsEvent(marker'[r], e)
  <2>1. marker' = [marker EXCEPT ![prod[p].rev] = NoMarker]
    BY <1>1, <1>6 DEF Rereads
  <2>2. QED
    BY <1>2, <2>1 DEF NoMarker, OwnsEvent
<1>7. ASSUME NEW p \in Producer, Finalizes(p) PROVE ~OwnsEvent(marker'[r], e)
  <2> DEFINE q == prod[p].rev
             m == [marker[q] EXCEPT !.kind = prod[p].pc, !.owner = None]
  <2>1. marker' = [marker EXCEPT ![q] = m] /\ marker[q].kind = "claim"
    BY <1>1, <1>7 DEF Finalizes, Mine
  <2>2. marker[q] \in Marker
    BY PassTyped
  <2>3. m.event = marker[q].event
    BY <2>2 DEF Marker
  <2> HIDE DEF m
  <2>4. QED
    BY <1>2, <2>1, <2>3 DEF OwnsEvent
<1>8. CASE ChangeCommits
  BY <1>8, CommitIs DEF OwnsEvent, NoMarker
<1>9. ASSUME NEW q \in Night, MarkerLapses(q) PROVE ~OwnsEvent(marker'[r], e)
  <2> DEFINE m == [marker[q] EXCEPT !.lapsed = TRUE]
  <2>1. marker' = [marker EXCEPT ![q] = m]
    BY <1>9 DEF MarkerLapses
  <2>2. marker[q] \in Marker
    BY PassTyped
  <2>3. m.event = marker[q].event /\ m.kind = marker[q].kind
    BY <2>2 DEF Marker
  <2> HIDE DEF m
  <2>4. QED
    BY <1>2, <2>1, <2>3 DEF OwnsEvent
<1>10. \/ \E p \in Producer : Claims(p) \/ Reclaims(p) \/ Rereads(p) \/ Finalizes(p)
       \/ ChangeCommits \/ \E q \in Night : MarkerLapses(q)
  <2>1. Next
    BY <1>1 DEF vars
  <2>2. ASSUME NEW p \in Producer, Produces(p) PROVE Claims(p) \/ Reclaims(p) \/ Rereads(p) \/ Finalizes(p)
    BY <1>1, <2>2 DEF Produces, Looks, Enqueues, EnqueueFails
  <2>3. ASSUME NEW w \in Worker, Delivers(w) PROVE FALSE
    <3>1. CASE Picks(w)
      BY <1>1, <3>1, Zenon DEF Picks
    <3>2. CASE ~Picks(w)
      BY <1>1, <2>3, <3>2 DEF Delivers, Sweeps, Leases, ChecksSource, CheckFails, Accepts, Refuses, Settles
    <3>3. QED
      BY <3>1, <3>2
  <2>4. CASE Administers
    BY <1>1, <2>4 DEF Administers, ChangeOpens, ChangeAborts, AnnouncesLive, AuctionEnds, Discards, Resumes
  <2>5. ~Passes /\ ~Crashes /\ ~\E k \in 1 .. MaxRows : BecomesDue(k) \/ RowLapses(k)
    BY <1>1 DEF Passes, Crashes, BecomesDue, RowLapses
  <2>6. QED
    BY <2>1, <2>2, <2>3, <2>4, <2>5 DEF Next, Lapses
<1>11. QED
  BY <1>4, <1>5, <1>6, <1>7, <1>8, <1>9, <1>10

\* Whatever admins and passes cross, die or outlive their leases: a post whose marker
\* was taken away by a changed night, a started auction or a released claim is never
\* spoken for again, by the retry of its claim either, and never sent.
THEOREM WithdrawnStaysWithdrawn ==
  ASSUME OutboxAssumption
  PROVE  Spec => [][WithdrawnStays]_vars
<1>1. ASSUME OutboxInv, [Next]_vars PROVE WithdrawnStays
  <2>1. SUFFICES ASSUME NEW k \in 1 .. Len(rows), rows[k].rev # 0,
                        ~OwnsEvent(marker[rows[k].rev], rows[k].event)
                 PROVE  /\ ~OwnsEvent(marker'[rows[k].rev], rows[k].event)
                        /\ \A w \in Worker : work[w] = [pc |-> "leased", row |-> k] => work'[w].pc # "checked"
    <3>1. DOMAIN rows = 1 .. Len(rows)
      BY <1>1, Shape DEF OutboxInv
    <3>2. QED
      BY <2>1, <3>1, Zenon DEF WithdrawnStays
  <2>2. Typed /\ NightInv /\ Opened
    BY <1>1 DEF OutboxInv
  <2>3. rows[k].rev \in Night /\ rows[k].event \in 1 .. events
    <3>1. rows[k] \in Row /\ events \in Nat /\ MaxRev \in Nat
      BY <2>2, Shape, PassTyped, Bounds
    <3>2. rows[k].rev \in 0 .. MaxRev /\ rows[k].event \in Nat
      BY <3>1, Bounds DEF Row, Event
    <3>3. rows[k].event <= events /\ rows[k].event # 0
      BY <2>1, <2>2 DEF NightInv, EventsAreDrawn
    <3>4. QED
      BY <2>1, <3>1, <3>2, <3>3 DEF Night
  <2>4. ~OwnsEvent(marker'[rows[k].rev], rows[k].event)
    BY <1>1, <2>1, <2>2, <2>3, NamesNothingOld
  <2>5. ASSUME NEW w \in Worker, work[w] = [pc |-> "leased", row |-> k], work'[w].pc = "checked" PROVE FALSE
    BY <1>1, <2>1, <2>2, <2>5, OnlyChecked
  <2>6. QED
    BY <2>4, <2>5
<1>2. OutboxInv /\ [Next]_vars => [WithdrawnStays]_vars
  BY <1>1
<1>3. QED
  BY <1>2, OutboxInvariant, PTL DEF Spec

\* An old night is sent only by an admin's change that overlaps a pass of the
\* automation, or by a pass that outlives its lease: where neither happens, the source
\* check of processOutbox is enough.  (The code excludes neither, and the first it
\* does meet.)
THEOREM NeverSendsAnOldNight ==
  ASSUME OutboxAssumption, ~Overlaps, "slow" \notin Faults
  PROVE  Spec => [][NeverAnOldNight]_vars
<1>1. ASSUME OutboxInv, [Next]_vars PROVE NeverAnOldNight
  <2> SUFFICES ASSUME NEW w \in Worker, work[w].pc = "leased", work'[w].pc = "checked"
               PROVE  LET r == rows[work[w].row].rev IN r = 0 \/ (r = rev /\ phase = "setup")
    BY DEF NeverAnOldNight
  <2> DEFINE k == work[w].row
  <2>1. Typed /\ DeliveryInv /\ NightInv
    BY <1>1 DEF OutboxInv
  <2>2. "leased" \in Live /\ "leased" \in Aiming
    BY DEF Live, Aiming
  <2>3. k \in 1 .. Len(rows) /\ Holder(rows[k], w)
    BY <2>1, <2>2, AimedAt DEF DeliveryInv, Steady
  <2>4. rows[k].rev = 0 \/ OwnsEvent(marker[rows[k].rev], rows[k].event)
    BY <1>1, <2>1, OnlyChecked
  <2>5. Pending(rows[k])
    BY <2>3 DEF Holder, Pending
  <2>6. rows[k].rev = 0 \/ ~Over(rows[k].rev)
    BY <2>1, <2>3, <2>4, <2>5 DEF NightInv, OldNightsForgotten
  <2>7. QED
    BY <2>6 DEF Over
<1>2. OutboxInv /\ [Next]_vars => [NeverAnOldNight]_vars
  BY <1>1
<1>3. QED
  BY <1>2, OutboxInvariant, PTL DEF Spec
=============================================================================
