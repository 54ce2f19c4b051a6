---------------------------- MODULE LeaseProofs ----------------------------
(***************************************************************************)
(* The lease and the gate, for any number of invocations and works and any *)
(* lengths of the lease and of the horizon.                                *)
(*                                                                         *)
(* A snapshot of the gate is of a row that other passes may have taken,    *)
(* finished or recovered since.  What makes it safe to sleep on is that    *)
(* each of these leaves the row with an excuse to sleep at least as long   *)
(* (Outlasts): a lease only ends in a finish, and a finish is good for a   *)
(* horizon, which is longer than a lease.                                  *)
(***************************************************************************)
EXTENDS Automation, SumProofs

Pcs     == {"idle", "gate", "load", "store", "probe", "claim", "create", "work", "finish", "signal"}
Holding == {"work", "finish"}
Reading == [row : Row \cup {None}, at : Times]
Running == [pc : Pcs, kind : Kinds \cup {None}, at : Times, read : Reading \cup {None},
            snap : Snapshots \cup {None}, out : Outcome \cup {None}]

Typed ==
  /\ now \in Times /\ faults \in 0 .. MaxFaults /\ begun \in Nat
  /\ row \in Row \cup {None} /\ run \in [Runners -> Running]
  /\ due \in [Works -> Times \cup {None}] /\ telling \subseteq Works /\ missed \subseteq Works
  /\ cache \in Snapshots \cup {None}

NotAfter(a, b) == a # None => a <= b
\* A lease is whole or absent, a pass that ended left its time, and a success that time twice.
Whole(rw) == rw # None =>
  /\ rw.status = "RUNNING" <=> rw.token # None
  /\ rw.status = "RUNNING" <=> rw.expires # None
  /\ rw.status # "RUNNING" => rw.finished # None
  /\ rw.status = "SUCCEEDED" => rw.success = rw.finished
Past(rw, t) == rw # None => NotAfter(rw.finished, t) /\ NotAfter(rw.success, t)
Counted == begun = IF row = None THEN 0
                   ELSE row.failures + (IF row.status = "RUNNING" THEN 1 ELSE 0)

\* The row excuses a gate that sleeps at t; and one that says "healthy" besides.
Covered(rw, t) == rw # None /\ \/ rw.status = "RUNNING" /\ t <= rw.expires
                               \/ rw.finished # None /\ t < rw.finished + HORIZON
Vouched(rw, t) == rw # None /\ rw.success # None /\ t < rw.success + HORIZON
Outlasts(old, new, n) ==
  \A t \in Nat : t >= n => (Covered(old, t) => Covered(new, t)) /\ (Vouched(old, t) => Vouched(new, t))
\* A snapshot that still sleeps is excused, and forgets no work it was told of.
Backed(s, rw, n, d, untold) ==
  \A t \in Nat : t >= n /\ t < Wake(s) =>
    Covered(rw, t) /\ (s.healthy => Vouched(rw, t)) /\ \A i \in Works \ untold : d[i] # None => t < d[i]

\* What an invocation relies on of the row, the clock and the works.
Fits(r, c, rw, n, d, untold) ==
  /\ c.at <= n
  /\ c.pc = "load" => /\ c.read \in Reading /\ c.read.at <= n
                      /\ Whole(c.read.row) /\ Outlasts(c.read.row, rw, n)
  /\ c.pc = "store" => c.snap \in Snapshots /\ Backed(c.snap, rw, n, d, untold)
  /\ c.pc = "finish" => c.out \in Outcome /\ c.at <= c.out.at /\ c.out.at <= n
  /\ c.pc \in Holding => rw # None
  /\ c.pc \in Holding /\ rw.token = r => rw.expires = c.at + LEASE
  /\ c.pc \in Holding /\ rw.token # r => c.at + LEASE < n
  /\ c.pc = "finish" /\ rw.token = r => Past(rw, c.out.at)

LeaseInv ==
  /\ Typed /\ Whole(row) /\ Past(row, now) /\ Counted
  /\ cache # None => Backed(cache, row, now, due, telling \cup missed)
  /\ \A r \in Runners : Fits(r, run[r], row, now, due, telling \cup missed)

-----------------------------------------------------------------------------
(* The model's operators *)

LEMMA Bounds ==
  ASSUME TimesAssumption
  PROVE  /\ LEASE \in Nat /\ BUDGET \in Nat /\ HORIZON \in Nat /\ MaxTime \in Nat /\ MaxFaults \in Nat
         /\ LEASE < HORIZON /\ Times \subseteq Nat /\ None \notin Runners /\ None \notin Nat
         /\ None \notin Row /\ None \notin Snapshots /\ None \notin Outcome
BY DEF TimesAssumption, Times

\* A snapshot is of the row it was computed from: it sleeps while that row excuses it ...
LEMMA WakeIs ==
  ASSUME TimesAssumption, NEW s \in Snapshots, s.next # None => s.next \in Nat, s.hard \in Nat
  PROVE  Wake(s) \in Nat /\ Wake(s) <= s.hard /\ (s.next # None => Wake(s) <= s.next)
<1>1. CASE s.next = None
  BY <1>1 DEF Wake
<1>2. CASE s.next # None
  <2>1. {s.next, s.hard} \in SUBSET Nat /\ {s.next, s.hard} # {}
    BY <1>2
  <2>2. Min({s.next, s.hard}) \in {s.next, s.hard}
        /\ \A i \in {s.next, s.hard} : Min({s.next, s.hard}) <= i
    BY <2>1, MinIs
  <2>3. QED
    BY <1>2, <2>1, <2>2 DEF Wake
<1>3. QED
  BY <1>1, <1>2

LEMMA HardWakeIs ==
  ASSUME TimesAssumption, NEW rw \in Row \cup {None}, Whole(rw), NEW at \in Times
  PROVE  /\ HardWake(rw, at) \in Nat
         /\ rw # None /\ rw.status \in {"SUCCEEDED", "BLOCKED"} => HardWake(rw, at) <= rw.finished + HORIZON
<1>1. CASE rw # None /\ rw.status \in {"SUCCEEDED", "BLOCKED"}
  <2>1. rw.finished \in Nat /\ at \in Nat
    BY <1>1, Bounds DEF Whole, Row
  <2>2. Min({at, rw.finished}) \in {at, rw.finished}
        /\ \A i \in {at, rw.finished} : Min({at, rw.finished}) <= i
    BY <2>1, MinIs
  <2>3. QED
    BY <1>1, <2>1, <2>2, Bounds DEF HardWake
<1>2. CASE ~(rw # None /\ rw.status \in {"SUCCEEDED", "BLOCKED"})
  BY <1>2, Bounds DEF HardWake
<1>3. QED
  BY <1>1, <1>2

LEMMA RunnerWakesAre ==
  ASSUME TimesAssumption, NEW rw \in Row \cup {None}, Whole(rw), NEW at \in Times
  PROVE  /\ RunnerWakes(rw, at) \subseteq Nat
         /\ rw = None => at \in RunnerWakes(rw, at)
         /\ rw # None /\ rw.status = "FAILED" => at \in RunnerWakes(rw, at)
         /\ rw # None /\ rw.status = "RUNNING" =>
              rw.expires \in Nat /\ Later(at, rw.expires + 1) \in RunnerWakes(rw, at)
<1>1. at \in Nat /\ (rw # None /\ rw.status = "RUNNING" => rw.expires \in Nat)
  BY Bounds DEF Whole, Row
<1>2. QED
  BY <1>1 DEF RunnerWakes, Later

LEMMA SnapshotIs ==
  ASSUME TimesAssumption, NEW rw \in Row \cup {None}, Whole(rw), NEW at \in Times,
         NEW d \in [Works -> Times \cup {None}]
  PROVE  LET s == Snapshot(rw, at, d) IN
           /\ s \in Snapshots /\ s.healthy = Healthy(rw) /\ Wake(s) \in Nat
           /\ Wake(s) <= HardWake(rw, at)
           /\ \A w \in RunnerWakes(rw, at) : Wake(s) <= w
           /\ \A i \in Works : d[i] # None => Wake(s) <= Later(at, d[i])
<1> DEFINE items == {Later(at, d[i]) : i \in {j \in Works : d[j] # None}}
           wakes == RunnerWakes(rw, at) \cup items
           s     == Snapshot(rw, at, d)
<1>1. wakes \in SUBSET Nat
  <2>1. \A i \in Works : d[i] # None => Later(at, d[i]) \in Nat
    BY Bounds DEF Later
  <2>2. QED
    BY <2>1, RunnerWakesAre
<1>2. /\ s.next = IF wakes = {} THEN None ELSE Min(wakes)
      /\ s.hard = HardWake(rw, at) /\ s.healthy = Healthy(rw) /\ s.runner \in BOOLEAN
      /\ s = [next |-> s.next, hard |-> s.hard, healthy |-> s.healthy, runner |-> s.runner]
  BY DEF Snapshot
<1>3. \A i \in Works : d[i] # None => Later(at, d[i]) \in wakes
  OBVIOUS
<1>4. RunnerWakes(rw, at) \subseteq wakes
  OBVIOUS
<1> HIDE DEF items, wakes, s
<1>5. wakes # {} => s.next \in Nat /\ \A w \in wakes : s.next <= w
  BY <1>1, <1>2, MinIs
<1>6. s.hard \in Nat /\ s.healthy \in BOOLEAN
  BY <1>2, HardWakeIs DEF Healthy
<1>7. s \in Snapshots
  <2>1. s.next \in Int \cup {None}
    BY <1>2, <1>5
  <2>2. QED
    BY <1>2, <1>6, <2>1 DEF Snapshots
<1>8. /\ Wake(s) \in Nat /\ Wake(s) <= s.hard
      /\ s.next # None => Wake(s) <= s.next
  BY <1>2, <1>5, <1>6, <1>7, WakeIs
<1>9. \A w \in wakes : Wake(s) <= w
  BY <1>1, <1>2, <1>5, <1>8, Bounds
<1>10. QED
  BY <1>2, <1>3, <1>4, <1>7, <1>8, <1>9 DEF s

-----------------------------------------------------------------------------
(* What stays *)

LEMMA OutlastsIs ==
  ASSUME NEW a, NEW b, NEW c, NEW n \in Nat
  PROVE  /\ Outlasts(a, a, n)
         /\ Outlasts(a, b, n) /\ Outlasts(b, c, n) => Outlasts(a, c, n)
         /\ \A m \in Nat : m >= n /\ Outlasts(a, b, n) => Outlasts(a, b, m)
BY DEF Outlasts

\* A load's snapshot is backed by the row it read, and so by the row of now.
LEMMA LoadBacks ==
  ASSUME TimesAssumption, NEW rd \in Reading, Whole(rd.row), NEW rw, NEW n \in Times, rd.at <= n,
         Outlasts(rd.row, rw, n), NEW d \in [Works -> Times \cup {None}], NEW untold
  PROVE  Snapshot(rd.row, rd.at, d) \in Snapshots
         /\ Backed(Snapshot(rd.row, rd.at, d), rw, n, d, untold)
<1> DEFINE s == Snapshot(rd.row, rd.at, d)
           old == rd.row
           at == rd.at
<1>1. old \in Row \cup {None} /\ at \in Times /\ at \in Nat /\ n \in Nat /\ Whole(old) /\ at <= n
      /\ Outlasts(old, rw, n)
  BY Bounds DEF Reading
<1> HIDE DEF old, at
<1>2. /\ s \in Snapshots /\ s.healthy = Healthy(old) /\ Wake(s) \in Nat
      /\ Wake(s) <= HardWake(old, at)
      /\ \A w \in RunnerWakes(old, at) : Wake(s) <= w
      /\ \A i \in Works : d[i] # None => Wake(s) <= Later(at, d[i])
  BY <1>1, SnapshotIs DEF old, at
<1> HIDE DEF s
<1>3. ASSUME NEW t \in Nat, t >= n, t < Wake(s)
      PROVE  Covered(rw, t) /\ (s.healthy => Vouched(rw, t))
             /\ \A i \in Works \ untold : d[i] # None => t < d[i]
  <2>1. old # None /\ old.status # "FAILED"
    BY <1>1, <1>2, <1>3, RunnerWakesAre
  <2>2. ASSUME old.status = "RUNNING"
        PROVE  Covered(rw, t) /\ (s.healthy => Vouched(rw, t))
    <3>1. old.expires \in Nat /\ t < Later(at, old.expires + 1)
      BY <1>1, <1>2, <1>3, <2>1, <2>2, RunnerWakesAre DEF Later
    <3>2. t <= old.expires
      BY <1>1, <1>3, <3>1 DEF Later
    <3>3. Covered(old, t) /\ ~Healthy(old)
      BY <2>1, <2>2, <3>2 DEF Covered, Healthy
    <3>4. s.healthy = FALSE
      BY <1>2, <3>3 DEF Healthy
    <3>5. QED
      BY <1>1, <1>3, <3>3, <3>4 DEF Outlasts
  <2>3. ASSUME old.status \in {"SUCCEEDED", "BLOCKED"}
        PROVE  Covered(rw, t) /\ (s.healthy => Vouched(rw, t))
    <3>1. old.finished # None /\ old.finished \in Nat /\ HardWake(old, at) \in Nat
          /\ HardWake(old, at) <= old.finished + HORIZON
      BY <1>1, <2>1, <2>3, HardWakeIs, Bounds DEF Whole, Row
    <3>2. t < old.finished + HORIZON
      BY <1>2, <1>3, <3>1, Bounds
    <3>3. Covered(old, t) /\ (Healthy(old) => Vouched(old, t))
      BY <1>1, <2>1, <3>1, <3>2 DEF Covered, Vouched, Healthy, Whole
    <3>4. s.healthy => Healthy(old)
      BY <1>2
    <3>5. QED
      BY <1>1, <1>3, <3>3, <3>4 DEF Outlasts
  <2>4. old.status \in Statuses
    BY <1>1, <2>1 DEF Row
  <2>5. Covered(rw, t) /\ (s.healthy => Vouched(rw, t))
    BY <2>1, <2>2, <2>3, <2>4 DEF Statuses
  <2>6. ASSUME NEW i \in Works, d[i] # None PROVE t < d[i]
    <3>1. d[i] \in Nat
      BY <2>6, Bounds
    <3>2. Wake(s) <= Later(at, d[i]) /\ Later(at, d[i]) \in Nat
      BY <1>1, <1>2, <2>6, <3>1 DEF Later
    <3>3. t < Later(at, d[i])
      BY <1>2, <1>3, <3>2
    <3>4. QED
      BY <1>1, <1>3, <3>1, <3>3 DEF Later
  <2>7. QED
    BY <2>5, <2>6
<1>4. QED
  BY <1>2, <1>3 DEF Backed, s, old, at

\* What backs a snapshot goes on to: the row moves, time passes, works come and go.
LEMMA StaysBacked ==
  ASSUME NEW s, NEW rw, NEW new, NEW n \in Nat, NEW m \in Nat, m >= n, Outlasts(rw, new, n),
         NEW d, NEW e, NEW untold, NEW quiet, Backed(s, rw, n, d, untold),
         \A i \in Works \ quiet : e[i] # None => e[i] = d[i] /\ i \notin untold
  PROVE  Backed(s, new, m, e, quiet)
<1> SUFFICES ASSUME NEW t \in Nat, t >= m, t < Wake(s)
             PROVE  Covered(new, t) /\ (s.healthy => Vouched(new, t))
                    /\ \A i \in Works \ quiet : e[i] # None => t < e[i]
  BY DEF Backed
<1>1. t >= n
  OBVIOUS
<1>2. Covered(rw, t) /\ (s.healthy => Vouched(rw, t)) /\ \A i \in Works \ untold : d[i] # None => t < d[i]
  BY <1>1 DEF Backed
<1>3. QED
  BY <1>1, <1>2 DEF Outlasts

\* An invocation that does not move.
LEMMA StaysFit ==
  ASSUME TimesAssumption, NEW r, NEW c \in Running, NEW rw, NEW new, NEW n \in Nat, NEW m \in Nat, m >= n,
         NEW d, NEW e, NEW untold, NEW quiet, Fits(r, c, rw, n, d, untold), Outlasts(rw, new, n),
         c.pc = "store" =>
           \A i \in Works \ quiet : e[i] # None => e[i] = d[i] /\ i \notin untold,
         \/ new = rw
         \/ new # None /\ new.token # r /\ (c.pc \in Holding /\ rw.token = r => c.at + LEASE < n)
  PROVE  Fits(r, c, new, m, e, quiet)
<1>1. c.at \in Nat /\ LEASE \in Nat /\ c.at <= m
  BY Bounds DEF Running, Fits
<1>2. c.pc = "load" => /\ c.read \in Reading /\ c.read.at <= m
                       /\ Whole(c.read.row) /\ Outlasts(c.read.row, new, m)
  <2> SUFFICES ASSUME c.pc = "load"
               PROVE  /\ c.read \in Reading /\ c.read.at <= m
                      /\ Whole(c.read.row) /\ Outlasts(c.read.row, new, m)
    OBVIOUS
  <2>1. c.read \in Reading /\ c.read.at <= n /\ Whole(c.read.row) /\ Outlasts(c.read.row, rw, n)
    BY DEF Fits
  <2>2. c.read.at \in Nat
    BY <2>1, Bounds DEF Reading
  <2>3. Outlasts(c.read.row, new, m)
    BY <2>1, OutlastsIs
  <2>4. QED
    BY <2>1, <2>2, <2>3
<1>3. c.pc = "store" => c.snap \in Snapshots /\ Backed(c.snap, new, m, e, quiet)
  BY StaysBacked DEF Fits
<1>4. c.pc = "finish" => c.out \in Outcome /\ c.at <= c.out.at /\ c.out.at <= m
  <2>1. c.pc = "finish" => c.out \in Outcome /\ c.at <= c.out.at /\ c.out.at <= n
    BY DEF Fits
  <2>2. c.out \in Outcome => c.out.at \in Nat
    BY Bounds DEF Outcome
  <2>3. QED
    BY <2>1, <2>2
<1>5. /\ c.pc \in Holding => new # None
      /\ c.pc \in Holding /\ new.token = r => new.expires = c.at + LEASE
      /\ c.pc \in Holding /\ new.token # r => c.at + LEASE < m
      /\ c.pc = "finish" /\ new.token = r => Past(new, c.out.at)
  BY <1>1 DEF Fits
<1>6. QED
  BY <1>1, <1>2, <1>3, <1>4, <1>5 DEF Fits

-----------------------------------------------------------------------------
(* One invocation moves *)

Untold == telling \cup missed

\* It moves to where what it relies on holds; the row and the works stand still.
LEMMA CallMoves ==
  ASSUME TimesAssumption, LeaseInv, NEW r \in Runners, NEW v \in Running, run' = [run EXCEPT ![r] = v],
         UNCHANGED <<now, row, due, telling, missed, begun>>, faults' \in 0 .. MaxFaults,
         cache' = cache \/ cache' = None \/ (run[r].pc = "store" /\ cache' = run[r].snap),
         Fits(r, v, row, now, due, Untold)
  PROVE  LeaseInv'
<1>1. /\ run \in [Runners -> Running] /\ Fits(r, run[r], row, now, due, Untold)
      /\ \A q \in Runners : run'[q] = IF q = r THEN v ELSE run[q]
      /\ run' \in [Runners -> Running]
  BY DEF LeaseInv, Typed, Untold
<1>2. \A q \in Runners : Fits(q, run'[q], row, now, due, Untold)
  BY <1>1 DEF LeaseInv, Untold
<1>3. cache' # None => cache' \in Snapshots /\ Backed(cache', row, now, due, Untold)
  BY <1>1 DEF LeaseInv, Typed, Fits, Untold
<1>4. /\ Untold' = Untold /\ now' = now /\ row' = row /\ due' = due
      /\ cache' \in Snapshots \cup {None}
  BY <1>3 DEF Untold
<1>5. Typed'
  BY <1>1, <1>4 DEF LeaseInv, Typed
<1>6. Whole(row') /\ Past(row', now')
  BY DEF LeaseInv
<1>7. Counted'
  BY DEF LeaseInv, Counted
<1>8. cache' # None => Backed(cache', row', now', due', Untold')
  BY <1>3, <1>4
<1>9. \A q \in Runners : Fits(q, run'[q], row', now', due', Untold')
  BY <1>2, <1>4
<1>10. QED
  BY <1>5, <1>6, <1>7, <1>8, <1>9 DEF LeaseInv, Untold

\* A call that has not read anything relies on nothing.
LEMMA FreshFits ==
  ASSUME TimesAssumption, LeaseInv, NEW r \in Runners, NEW v \in Running, v.at <= now,
         v.pc \in Pcs \ (Holding \cup {"load", "store"})
  PROVE  Fits(r, v, row, now, due, Untold)
BY DEF Fits, Pcs, Holding

Pressed   == [NewRun EXCEPT !.pc = "probe", !.at = now]
Arrived(k) == [NewRun EXCEPT !.pc = "gate", !.kind = k]

LEMMA NewRunIs ==
  ASSUME TimesAssumption, LeaseInv
  PROVE  /\ NewRun \in Running /\ NewRun.at <= now /\ NewRun.pc = "idle"
         /\ Pressed \in Running /\ Pressed.at <= now /\ Pressed.pc = "probe"
         /\ \A k \in Kinds : Arrived(k) \in Running /\ Arrived(k).at <= now /\ Arrived(k).pc = "gate"
<1>1. now \in Times /\ now \in Nat /\ 0 \in Times
  BY Bounds DEF LeaseInv, Typed, Times
<1>2. NewRun \in Running
  BY <1>1 DEF NewRun, Running, Pcs
<1>3. NewRun.at = 0 /\ NewRun.pc = "idle"
  BY DEF NewRun
<1>4. Pressed.at = now /\ Pressed.pc = "probe" /\ Pressed \in Running
  BY <1>1, <1>2 DEF Pressed, Running, Pcs
<1>5. ASSUME NEW k \in Kinds
      PROVE  Arrived(k) \in Running /\ Arrived(k).at = 0 /\ Arrived(k).pc = "gate"
  BY <1>2, <1>3 DEF Arrived, Running, Pcs
<1>6. QED
  BY <1>1, <1>2, <1>3, <1>4, <1>5

LEMMA ArriveKeeps ==
  ASSUME TimesAssumption, LeaseInv, NEW r \in Runners, Arrive(r)
  PROVE  LeaseInv'
<1>1. PICK k \in Kinds : /\ run' = [run EXCEPT ![r] = IF k = "admin" THEN Pressed ELSE Arrived(k)]
                         /\ UNCHANGED <<now, row, due, telling, cache, faults, begun, missed>>
  BY DEF Arrive, Pressed, Arrived
<1> DEFINE v == IF k = "admin" THEN Pressed ELSE Arrived(k)
<1>2. v \in Running /\ v.at <= now /\ v.pc \in {"probe", "gate"}
  BY NewRunIs
<1>3. run' = [run EXCEPT ![r] = v] /\ faults' \in 0 .. MaxFaults
  BY <1>1 DEF LeaseInv, Typed
<1> HIDE DEF v
<1>4. Fits(r, v, row, now, due, Untold)
  BY <1>2, FreshFits DEF Pcs, Holding
<1>5. QED
  BY <1>1, <1>2, <1>3, <1>4, CallMoves

\* The gate answers: the call ends, or goes to the election.
LEMMA DecideKeeps ==
  ASSUME TimesAssumption, LeaseInv, NEW r \in Runners, NEW s, NEW t, Decide(r, s, t),
         UNCHANGED <<now, row, due, telling, missed, begun, faults>>,
         cache' = cache \/ (run[r].pc = "store" /\ cache' = run[r].snap)
  PROVE  LeaseInv'
<1>1. PICK v \in {NewRun, Pressed} : run' = [run EXCEPT ![r] = v]
  BY DEF Decide, Pressed
<1>2. v \in Running /\ v.at <= now /\ v.pc \in {"idle", "probe"}
  BY NewRunIs
<1>3. Fits(r, v, row, now, due, Untold) /\ faults' \in 0 .. MaxFaults
  BY <1>2, FreshFits DEF Pcs, Holding, LeaseInv, Typed
<1>4. QED
  BY <1>1, <1>2, <1>3, CallMoves

\* A load reads the row, then the works, then is stored and answers.
LEMMA LoadsKeep ==
  ASSUME TimesAssumption, LeaseInv, NEW r \in Runners, LoadRow(r) \/ LoadWork(r)
  PROVE  LeaseInv'
<1>1. /\ run[r] \in Running /\ Fits(r, run[r], row, now, due, Untold) /\ now \in Nat /\ now \in Times
      /\ faults' \in 0 .. MaxFaults /\ row \in Row \cup {None} /\ Whole(row)
      /\ due \in [Works -> Times \cup {None}]
      /\ UNCHANGED <<now, row, due, telling, cache, missed, begun>>
  BY Bounds DEF LeaseInv, Typed, Untold, LoadRow, LoadWork
<1>2. CASE LoadRow(r)
  <2> DEFINE rd == [row |-> row, at |-> now]
             v  == [run[r] EXCEPT !.pc = "load", !.read = rd]
  <2>1. rd \in Reading /\ rd.at = now /\ rd.row = row
    BY <1>1 DEF Reading
  <2>2. run' = [run EXCEPT ![r] = v]
    BY <1>2 DEF LoadRow
  <2>3. v \in Running /\ v.pc = "load" /\ v.read = rd /\ v.at = run[r].at
    BY <1>1, <2>1 DEF Running, Pcs
  <2> HIDE DEF rd, v
  <2>4. Fits(r, v, row, now, due, Untold)
    BY <1>1, <2>1, <2>3, OutlastsIs DEF Fits, Holding
  <2>5. QED
    BY <1>1, <2>2, <2>3, <2>4, CallMoves
<1>3. CASE LoadWork(r)
  <2> DEFINE s == Snapshot(run[r].read.row, run[r].read.at, due)
             v == [run[r] EXCEPT !.pc = "store", !.read = None, !.snap = s]
  <2>1. run' = [run EXCEPT ![r] = v] /\ run[r].pc = "load"
    BY <1>3 DEF LoadWork
  <2>2. s \in Snapshots /\ Backed(s, row, now, due, Untold)
    BY <1>1, <2>1, LoadBacks DEF Fits
  <2> HIDE DEF s
  <2>3. v \in Running /\ v.pc = "store" /\ v.snap = s /\ v.at = run[r].at
    BY <1>1, <2>2 DEF Running, Pcs
  <2> HIDE DEF v
  <2>4. Fits(r, v, row, now, due, Untold)
    BY <1>1, <2>2, <2>3 DEF Fits, Holding
  <2>5. QED
    BY <1>1, <2>1, <2>3, <2>4, CallMoves
<1>4. QED
  BY <1>2, <1>3

LEMMA GateKeeps ==
  ASSUME TimesAssumption, LeaseInv, NEW r \in Runners, GateHit(r) \/ LoadStore(r)
  PROVE  LeaseInv'
<1>1. CASE GateHit(r)
  BY <1>1, DecideKeeps DEF GateHit
<1>2. CASE LoadStore(r)
  BY <1>2, DecideKeeps DEF LoadStore
<1>3. QED
  BY <1>1, <1>2

\* A call ends, or moves on without the row: fenced, refused, done or dead.
LEMMA EndsKeep ==
  ASSUME TimesAssumption, LeaseInv, NEW r \in Runners, run' = [run EXCEPT ![r] = NewRun],
         UNCHANGED <<now, row, due, telling, missed, begun>>, faults' \in 0 .. MaxFaults,
         cache' = cache \/ cache' = None
  PROVE  LeaseInv'
<1>1. Fits(r, NewRun, row, now, due, Untold)
  BY NewRunIs, FreshFits DEF Pcs, Holding
<1>2. QED
  BY <1>1, NewRunIs, CallMoves

LEMMA GoesOnKeeps ==
  ASSUME TimesAssumption, LeaseInv, NEW r \in Runners, NEW pc \in {"claim", "create", "signal"}, At(r, pc),
         UNCHANGED <<now, row, due, telling, missed, begun, faults, cache>>
  PROVE  LeaseInv'
<1> DEFINE v == [run[r] EXCEPT !.pc = pc]
<1>1. run[r] \in Running /\ Fits(r, run[r], row, now, due, Untold) /\ faults' \in 0 .. MaxFaults
  BY DEF LeaseInv, Typed, Untold
<1>2. v \in Running /\ v.pc = pc /\ v.at = run[r].at
  BY <1>1 DEF Running, Pcs
<1>3. run' = [run EXCEPT ![r] = v]
  BY DEF At
<1> HIDE DEF v
<1>4. Fits(r, v, row, now, due, Untold)
  BY <1>1, <1>2, FreshFits DEF Fits, Pcs, Holding
<1>5. QED
  BY <1>1, <1>2, <1>3, <1>4, CallMoves

-----------------------------------------------------------------------------
(* The election and the pass *)

\* A pass begins: it takes the row from nobody, or from a pass whose lease is over.
LEMMA TookKeeps ==
  ASSUME TimesAssumption, LeaseInv, NEW r \in Runners, run[r].pc \in {"probe", "claim", "create"},
         At(r, "work"), UNCHANGED <<now, due, telling, cache, faults, missed>>,
         NEW finished, NEW failures \in Nat, NEW success, Took(r, finished, failures, success),
         begun' = begun + 1, failures = begun,
         \/ row = None /\ finished = None /\ success = None
         \/ /\ row # None /\ (row.status = "RUNNING" => row.expires < run[r].at)
            /\ finished = row.finished /\ success = row.success
  PROVE  LeaseInv'
<1> DEFINE v == [run[r] EXCEPT !.pc = "work"]
           new == [status |-> "RUNNING", token |-> r, expires |-> run[r].at + LEASE,
                   finished |-> finished, failures |-> failures, success |-> success]
<1>1. /\ run[r] \in Running /\ Fits(r, run[r], row, now, due, Untold)
      /\ run[r].at \in Nat /\ now \in Nat /\ run[r].at <= now
      /\ row \in Row \cup {None} /\ Whole(row) /\ Past(row, now)
  BY Bounds DEF LeaseInv, Typed, Untold, Running, Fits
<1>2. v \in Running /\ v.pc = "work" /\ v.at = run[r].at
  BY <1>1 DEF Running, Pcs
<1>3. row' = new /\ run' = [run EXCEPT ![r] = v]
  BY DEF Took, At
<1>4. finished \in Times \cup {None} /\ success \in Times \cup {None}
  BY <1>1 DEF Row
<1>5. /\ new \in Row /\ new # None /\ new.token = r /\ new.expires = run[r].at + LEASE
      /\ new.status = "RUNNING" /\ new.finished = finished /\ new.success = success /\ new.failures = failures
  <2>1. run[r].at + LEASE \in Nat /\ "RUNNING" \in Statuses
    BY <1>1, Bounds DEF Statuses
  <2>2. new \in Row
    BY <1>4, <2>1 DEF Row
  <2>3. QED
    BY <2>2, Bounds
<1>6. Outlasts(row, new, now)
  <2>1. ASSUME NEW t \in Nat, t >= now, Covered(row, t) PROVE Covered(new, t)
    <3>1. row # None /\ finished = row.finished
      BY <2>1 DEF Covered
    <3>2. row.status = "RUNNING" => row.expires \in Nat /\ row.expires < t
      BY <1>1, <2>1, <3>1 DEF Whole, Row
    <3>3. row.finished # None /\ t < row.finished + HORIZON
      BY <2>1, <3>1, <3>2 DEF Covered
    <3>4. QED
      BY <1>5, <3>1, <3>3 DEF Covered
  <2>2. ASSUME NEW t \in Nat, t >= now, Vouched(row, t) PROVE Vouched(new, t)
    BY <1>5, <2>2 DEF Vouched
  <2>3. QED
    BY <2>1, <2>2 DEF Outlasts
<1> HIDE DEF v, new
<1>7. Whole(new) /\ Past(new, now)
  <2>1. r # None /\ run[r].at + LEASE # None
    BY <1>1, Bounds
  <2>2. Whole(new)
    BY <1>5, <2>1 DEF Whole
  <2>3. Past(new, now)
    BY <1>1, <1>5 DEF Past, NotAfter
  <2>4. QED
    BY <2>2, <2>3
<1>8. Counted'
  BY <1>3, <1>5 DEF Counted
<1>9. \A q \in Runners : Fits(q, run'[q], new, now, due, Untold)
  <2>1. ASSUME NEW q \in Runners, q # r PROVE Fits(q, run[q], new, now, due, Untold)
    <3>1. run[q] \in Running /\ Fits(q, run[q], row, now, due, Untold)
      BY DEF LeaseInv, Typed, Untold
    <3>2. run[q].pc \in Holding /\ row.token = q => run[q].at + LEASE < now
      <4>1. SUFFICES ASSUME run[q].pc \in Holding, row.token = q PROVE run[q].at + LEASE < now
        OBVIOUS
      <4>2. row # None /\ row.expires = run[q].at + LEASE
        BY <3>1, <4>1 DEF Fits
      <4>3. row.status = "RUNNING"
        BY <1>1, <4>1, <4>2, Bounds DEF Whole
      <4>4. run[q].at + LEASE < run[r].at /\ run[q].at + LEASE \in Nat
        BY <3>1, <4>2, <4>3, Bounds DEF Running
      <4>5. QED
        BY <1>1, <4>4
    <3>3. QED
      BY <1>1, <1>5, <1>6, <2>1, <3>1, <3>2, StaysFit
  <2>2. Fits(r, v, new, now, due, Untold)
    BY <1>1, <1>2, <1>5 DEF Fits, Holding
  <2>3. \A q \in Runners : run'[q] = IF q = r THEN v ELSE run[q]
    BY <1>3 DEF LeaseInv, Typed
  <2>4. QED
    BY <2>1, <2>2, <2>3
<1>10. cache # None => Backed(cache, new, now, due, Untold)
  BY <1>1, <1>6, StaysBacked DEF LeaseInv, Untold
<1>11. Typed'
  BY <1>2, <1>3, <1>5 DEF LeaseInv, Typed
<1>12. Untold' = Untold
  BY DEF Untold
<1>13. QED
  BY <1>3, <1>7, <1>8, <1>9, <1>10, <1>11, <1>12 DEF LeaseInv, Untold

LEMMA ElectsKeeps ==
  ASSUME TimesAssumption, LeaseInv, NEW r \in Runners, ProbeStale(r) \/ ClaimIdle(r) \/ CreateRow(r)
  PROVE  LeaseInv'
<1>1. /\ row \in Row \cup {None} /\ Whole(row) /\ Counted /\ faults' \in 0 .. MaxFaults
      /\ UNCHANGED <<now, due, telling, cache, faults, missed>>
  BY DEF LeaseInv, Typed, ProbeStale, ClaimIdle, CreateRow
<1>2. row # None => row.failures \in Nat
  BY <1>1 DEF Row
<1>3. CASE ProbeStale(r) /\ row # None /\ row.status = "RUNNING" /\ Stale(run[r].at)
  <2>1. row.expires < run[r].at /\ row.failures + 1 = begun
    BY <1>1, <1>2, <1>3 DEF Whole, Stale, Counted
  <2>2. /\ At(r, "work") /\ Took(r, row.finished, row.failures + 1, row.success) /\ begun' = begun + 1
        /\ run[r].pc = "probe"
    BY <1>3 DEF ProbeStale
  <2>3. row.failures + 1 \in Nat
    BY <1>2, <1>3
  <2>4. QED
    BY <1>1, <1>3, <2>1, <2>2, <2>3, TookKeeps
<1>4. CASE ClaimIdle(r) /\ Claimable(r)
  <2>1. row # None /\ row.status # "RUNNING" /\ row.failures = begun
    BY <1>1, <1>2, <1>4 DEF Claimable, Counted
  <2>2. /\ At(r, "work") /\ Took(r, row.finished, row.failures, row.success) /\ begun' = begun + 1
        /\ run[r].pc = "claim"
    BY <1>4 DEF ClaimIdle
  <2>3. QED
    BY <1>1, <1>2, <2>1, <2>2, TookKeeps
<1>5. CASE CreateRow(r) /\ row = None
  <2>1. /\ At(r, "work") /\ Took(r, None, 0, None) /\ begun' = begun + 1 /\ begun = 0
        /\ run[r].pc = "create"
    BY <1>1, <1>5 DEF CreateRow, Counted
  <2>2. QED
    BY <1>1, <1>5, <2>1, TookKeeps
<1>6. CASE CreateRow(r) /\ row # None
  <2>1. run' = [run EXCEPT ![r] = NewRun] /\ UNCHANGED <<row, begun>>
    BY <1>6 DEF CreateRow
  <2>2. QED
    BY <1>1, <2>1, EndsKeep
<1>7. CASE (ProbeStale(r) /\ ~(row # None /\ row.status = "RUNNING" /\ Stale(run[r].at)))
           \/ (ClaimIdle(r) /\ ~Claimable(r))
  <2>1. (At(r, "claim") \/ At(r, "create")) /\ UNCHANGED <<row, begun>>
    BY <1>7 DEF ProbeStale, ClaimIdle
  <2>2. QED
    BY <1>1, <2>1, GoesOnKeeps
<1>8. QED
  BY <1>3, <1>4, <1>5, <1>6, <1>7

\* A pass does what is due, or fails; either way it says so as of now.
LEMMA WorkKeeps ==
  ASSUME TimesAssumption, LeaseInv, NEW r \in Runners, Work(r)
  PROVE  LeaseInv'
<1> DEFINE done == [i \in Works |-> IF due[i] # None /\ due[i] <= now THEN None ELSE due[i]]
<1>1. /\ run[r].pc = "work" /\ faults' \in 0 .. MaxFaults
      /\ UNCHANGED <<now, row, telling, cache, begun>>
      /\ \/ due' = done /\ missed' = {i \in missed : done[i] # None}
         \/ UNCHANGED <<due, missed>>
  BY Bounds DEF LeaseInv, Typed, Work
<1>2. PICK s \in Statuses \ {"RUNNING"} :
        run' = [run EXCEPT ![r] = [@ EXCEPT !.pc = "finish", !.out = [status |-> s, at |-> now]]]
  BY DEF Work, Statuses
<1> DEFINE out == [status |-> s, at |-> now]
           v   == [run[r] EXCEPT !.pc = "finish", !.out = out]
<1>3. /\ run[r] \in Running /\ Fits(r, run[r], row, now, due, Untold)
      /\ now \in Nat /\ now \in Times /\ Past(row, now)
  BY Bounds DEF LeaseInv, Typed, Untold
<1>4. out \in Outcome /\ out.at = now
  BY <1>3 DEF Outcome
<1>5. v \in Running /\ v.pc = "finish" /\ v.at = run[r].at /\ v.out = out
  BY <1>3, <1>4 DEF Running, Pcs
<1>6. run' = [run EXCEPT ![r] = v]
  BY <1>2
<1>7. \A i \in Works \ Untold' : due'[i] # None => due'[i] = due[i] /\ i \notin Untold
  BY <1>1 DEF Untold
<1>8. /\ due' \in [Works -> Times \cup {None}] /\ missed' \subseteq Works
  BY <1>1 DEF LeaseInv, Typed
<1> HIDE DEF done, out, v
<1>9. Fits(r, v, row, now, due', Untold')
  BY <1>1, <1>3, <1>4, <1>5 DEF Fits, Holding
<1>10. ASSUME NEW q \in Runners, q # r PROVE Fits(q, run[q], row, now, due', Untold')
  <2>1. run[q] \in Running /\ Fits(q, run[q], row, now, due, Untold)
    BY DEF LeaseInv, Typed, Untold
  <2>2. QED
    BY <1>3, <1>7, <2>1, OutlastsIs, StaysFit
<1>11. cache # None => Backed(cache, row, now, due', Untold')
  <2>1. cache # None => Backed(cache, row, now, due, Untold)
    BY DEF LeaseInv, Untold
  <2>2. QED
    BY <1>3, <1>7, <2>1, OutlastsIs, StaysBacked
<1>12. \A q \in Runners : run'[q] = IF q = r THEN v ELSE run[q]
  BY <1>6 DEF LeaseInv, Typed
<1>13. \A q \in Runners : Fits(q, run'[q], row', now', due', Untold')
  BY <1>1, <1>9, <1>10, <1>12
<1>14. Typed'
  BY <1>1, <1>5, <1>6, <1>8 DEF LeaseInv, Typed
<1>15. Whole(row') /\ Past(row', now') /\ Counted'
  BY <1>1 DEF LeaseInv, Counted
<1>16. cache' # None => Backed(cache', row', now', due', Untold')
  BY <1>1, <1>11
<1>17. QED
  BY <1>13, <1>14, <1>15, <1>16 DEF LeaseInv, Untold

\* A pass ends: whose row it still is writes it, and that is good for a horizon.
LEMMA FinishKeeps ==
  ASSUME TimesAssumption, LeaseInv, NEW r \in Runners, Finish(r)
  PROVE  LeaseInv'
<1>1. /\ run[r].pc = "finish" /\ At(r, "signal") /\ faults' \in 0 .. MaxFaults
      /\ UNCHANGED <<now, due, telling, cache, faults, missed>>
  BY DEF LeaseInv, Typed, Finish
<1>2. CASE ~Owns(r)
  <2>1. UNCHANGED <<row, begun>>
    BY <1>2 DEF Finish
  <2>2. QED
    BY <1>1, <2>1, GoesOnKeeps
<1>3. CASE Owns(r)
  <2> DEFINE out == run[r].out
             v   == [run[r] EXCEPT !.pc = "signal"]
             new == Final(out)
  <2>1. row' = new /\ begun' = IF out.status = "SUCCEEDED" THEN 0 ELSE begun
    BY <1>3 DEF Finish
  <2>2. /\ run[r] \in Running /\ Fits(r, run[r], row, now, due, Untold) /\ now \in Nat
        /\ row \in Row /\ row # None /\ row.token = r /\ Whole(row) /\ Past(row, now)
    BY <1>3, Bounds DEF LeaseInv, Typed, Untold, Owns
  <2>3. /\ out \in Outcome /\ run[r].at \in Nat /\ out.at \in Nat /\ out.at \in Times
        /\ run[r].at <= out.at /\ out.at <= now
        /\ row.status = "RUNNING" /\ row.expires = run[r].at + LEASE /\ Past(row, out.at)
    BY <1>1, <2>2, Bounds DEF Fits, Running, Outcome, Holding, Whole
  <2>4. v \in Running /\ v.pc = "signal" /\ v.at = run[r].at
    BY <2>2 DEF Running, Pcs
  <2>5. run' = [run EXCEPT ![r] = v]
    BY <1>1 DEF At
  <2>6. /\ new \in Row /\ new # None /\ new.token = None /\ new.expires = None
        /\ new.finished = out.at /\ new.status = out.status
        /\ new.failures = (IF out.status = "SUCCEEDED" THEN 0 ELSE row.failures + 1)
        /\ new.success = (IF out.status = "SUCCEEDED" THEN out.at ELSE row.success)
    <3>1. row.failures \in Nat /\ row.success \in Times \cup {None} /\ out.status \in Statuses
      BY <2>2, <2>3 DEF Row, Outcome
    <3>2. new \in Row
      BY <2>3, <3>1 DEF Final, Row
    <3>3. QED
      BY <3>2, Bounds DEF Final
  <2> HIDE DEF v, new
  <2>7. Outlasts(row, new, now)
    <3>1. ASSUME NEW t \in Nat, t >= now, Covered(row, t) PROVE Covered(new, t)
      <4>1. t < out.at + HORIZON
        <5>1. CASE t <= row.expires
          BY <2>3, <5>1, Bounds
        <5>2. CASE row.finished # None /\ t < row.finished + HORIZON
          <6>1. row.finished \in Nat /\ row.finished <= out.at
            BY <2>2, <2>3, <5>2, Bounds DEF Past, NotAfter, Row
          <6>2. QED
            BY <2>3, <5>2, <6>1, Bounds
        <5>3. QED
          BY <3>1, <5>1, <5>2 DEF Covered
      <4>2. QED
        BY <2>3, <2>6, <4>1, Bounds DEF Covered
    <3>2. ASSUME NEW t \in Nat, t >= now, Vouched(row, t) PROVE Vouched(new, t)
      <4>1. row.success # None /\ row.success \in Nat /\ row.success <= out.at /\ t < row.success + HORIZON
        BY <2>2, <2>3, <3>2, Bounds DEF Vouched, Past, NotAfter, Row
      <4>2. t < out.at + HORIZON
        BY <2>3, <4>1, Bounds
      <4>3. QED
        BY <2>3, <2>6, <4>1, <4>2, Bounds DEF Vouched
    <3>3. QED
      BY <3>1, <3>2 DEF Outlasts
  <2>8. Whole(new) /\ Past(new, now)
    <3>1. out.status # "RUNNING" /\ out.at # None
      BY <2>3, Bounds DEF Outcome
    <3>2. Whole(new)
      BY <2>6, <3>1 DEF Whole
    <3>3. Past(new, now)
      BY <2>2, <2>3, <2>6 DEF Past, NotAfter
    <3>4. QED
      BY <3>2, <3>3
  <2>9. Counted' /\ begun' \in Nat
    <3>1. begun = row.failures + 1 /\ begun \in Nat /\ row.failures \in Nat
      BY <2>2, <2>3 DEF LeaseInv, Typed, Counted, Row
    <3>2. new.status # "RUNNING"
      BY <2>3, <2>6 DEF Outcome
    <3>3. QED
      BY <2>1, <2>6, <3>1, <3>2 DEF Counted
  <2>10. ASSUME NEW q \in Runners, q # r PROVE Fits(q, run[q], new, now, due, Untold)
    <3>1. run[q] \in Running /\ Fits(q, run[q], row, now, due, Untold)
      BY DEF LeaseInv, Typed, Untold
    <3>2. new.token # q /\ row.token # q
      BY <2>2, <2>6, <2>10, Bounds
    <3>3. QED
      BY <2>2, <2>6, <2>7, <3>1, <3>2, StaysFit
  <2>11. Fits(r, v, new, now, due, Untold)
    BY <2>2, <2>3, <2>4 DEF Fits, Holding
  <2>12. cache # None => Backed(cache, new, now, due, Untold)
    <3>1. cache # None => Backed(cache, row, now, due, Untold)
      BY DEF LeaseInv, Untold
    <3>2. QED
      BY <2>2, <2>7, <3>1, StaysBacked
  <2>13. \A q \in Runners : run'[q] = IF q = r THEN v ELSE run[q]
    BY <2>5 DEF LeaseInv, Typed
  <2>14. Untold' = Untold
    BY <1>1 DEF Untold
  <2>15. \A q \in Runners : Fits(q, run'[q], row', now', due', Untold')
    BY <1>1, <2>1, <2>10, <2>11, <2>13, <2>14
  <2>16. Typed'
    BY <1>1, <2>1, <2>4, <2>5, <2>6, <2>9 DEF LeaseInv, Typed
  <2>17. cache' # None => Backed(cache', row', now', due', Untold')
    BY <1>1, <2>1, <2>12, <2>14
  <2>18. Whole(row') /\ Past(row', now')
    BY <1>1, <2>1, <2>8
  <2>19. QED
    BY <2>9, <2>15, <2>16, <2>17, <2>18 DEF LeaseInv, Untold
<1>4. QED
  BY <1>2, <1>3

-----------------------------------------------------------------------------
(* The world moves *)

\* Time passes, works are written and told: what is told no snapshot in use forgets.
LEMMA WorldKeeps ==
  ASSUME TimesAssumption, LeaseInv, now' \in Times, now' >= now, UNCHANGED <<row, run, begun>>,
         due' \in [Works -> Times \cup {None}], telling' \subseteq Works, missed' \subseteq Works,
         faults' \in 0 .. MaxFaults, cache' = cache \/ cache' = None,
         cache' # None \/ Overtaken =>
           \A i \in Works \ Untold' : due'[i] # None => due'[i] = due[i] /\ i \notin Untold
  PROVE  LeaseInv'
<1>1. /\ now \in Nat /\ now' \in Nat /\ Outlasts(row, row, now)
      /\ row \in Row \cup {None} /\ Whole(row) /\ Past(row, now)
  BY Bounds, OutlastsIs DEF LeaseInv, Typed
<1>2. Past(row, now')
  <2>1. row # None => row.finished \in Nat \cup {None} /\ row.success \in Nat \cup {None}
    BY <1>1, Bounds DEF Row
  <2>2. QED
    BY <1>1, <2>1 DEF Past, NotAfter
<1>3. ASSUME NEW q \in Runners PROVE Fits(q, run[q], row, now', due', Untold')
  <2>1. run[q] \in Running /\ Fits(q, run[q], row, now, due, Untold)
    BY DEF LeaseInv, Typed, Untold
  <2>2. run[q].pc = "store" => Overtaken
    BY DEF Overtaken
  <2>3. QED
    BY <1>1, <2>1, <2>2, StaysFit
<1>4. cache' # None => Backed(cache', row, now', due', Untold')
  <2>1. cache # None => Backed(cache, row, now, due, Untold)
    BY DEF LeaseInv, Untold
  <2>2. QED
    BY <1>1, <2>1, StaysBacked
<1>5. Typed'
  BY DEF LeaseInv, Typed
<1>6. Counted'
  BY DEF LeaseInv, Counted
<1>7. Whole(row') /\ Past(row', now')
  BY <1>1, <1>2
<1>8. \A q \in Runners : Fits(q, run'[q], row', now', due', Untold')
  BY <1>3
<1>9. cache' # None => Backed(cache', row', now', due', Untold')
  BY <1>4
<1>10. QED
  BY <1>5, <1>6, <1>7, <1>8, <1>9 DEF LeaseInv, Untold

LEMMA WritesKeep ==
  ASSUME TimesAssumption, LeaseInv, NEW i \in Works, Write(i)
  PROVE  LeaseInv'
<1>1. PICK t \in now .. MaxTime : due' = [due EXCEPT ![i] = t]
  BY DEF Write
<1>2. /\ now \in Times /\ now \in Nat /\ MaxTime \in Nat /\ due \in [Works -> Times \cup {None}]
      /\ telling \subseteq Works /\ missed \subseteq Works /\ faults \in 0 .. MaxFaults
      /\ telling' = telling \cup {i} /\ UNCHANGED <<now, row, run, cache, faults, begun, missed>>
  BY Bounds DEF LeaseInv, Typed, Write
<1>3. t \in Times
  BY <1>2 DEF Times
<1>4. due' \in [Works -> Times \cup {None}] /\ telling' \subseteq Works /\ missed' \subseteq Works
  BY <1>1, <1>2, <1>3
<1>5. \A j \in Works \ Untold' : due'[j] = due[j] /\ j \notin Untold
  BY <1>1, <1>2 DEF Untold
<1>6. QED
  BY <1>2, <1>4, <1>5, WorldKeeps

LEMMA TellsKeep ==
  ASSUME TimesAssumption, LeaseInv, NEW i \in Works, Tell(i)
  PROVE  LeaseInv'
<1>1. /\ now \in Times /\ now \in Nat /\ due \in [Works -> Times \cup {None}]
      /\ telling \subseteq Works /\ missed \subseteq Works /\ faults \in 0 .. MaxFaults
      /\ telling' = telling \ {i} /\ UNCHANGED <<now, row, run, due, begun>>
  BY Bounds DEF LeaseInv, Typed, Tell
<1>2. /\ missed' = missed \/ missed' = missed \cup {i}
      /\ cache' # None \/ Overtaken => (due[i] # None => missed' = missed \cup {i})
      /\ cache' = cache \/ cache' = None
  BY DEF Tell
<1>3. faults' \in 0 .. MaxFaults
  BY <1>1, Bounds DEF Tell
<1>4. cache' # None \/ Overtaken => \A j \in Works \ Untold' : due[j] # None => j \notin Untold
  BY <1>1, <1>2 DEF Untold
<1>5. QED
  BY <1>1, <1>2, <1>3, <1>4, WorldKeeps

LEMMA TicksKeep ==
  ASSUME TimesAssumption, LeaseInv, Tick
  PROVE  LeaseInv'
<1>1. /\ now \in Times /\ MaxTime \in Nat /\ now' = now + 1 /\ now < MaxTime
      /\ UNCHANGED <<row, run, due, telling, cache, faults, begun, missed>>
  BY Bounds DEF LeaseInv, Typed, Tick
<1>2. now' \in Times /\ now' >= now
  BY <1>1 DEF Times
<1>3. QED
  BY <1>1, <1>2, WorldKeeps DEF LeaseInv, Typed, Untold

LEMMA StutterKeeps ==
  ASSUME TimesAssumption, LeaseInv, UNCHANGED vars
  PROVE  LeaseInv'
<1>1. now \in Times /\ now \in Nat
  BY Bounds DEF LeaseInv, Typed
<1>2. QED
  BY <1>1, WorldKeeps DEF LeaseInv, Typed, Untold, vars

LEMMA EndPassKeeps ==
  ASSUME TimesAssumption, LeaseInv, NEW r \in Runners, EndPass(r) \/ Crash(r)
  PROVE  LeaseInv'
<1>1. faults \in 0 .. MaxFaults /\ MaxFaults \in Nat
  BY Bounds DEF LeaseInv, Typed
<1>2. CASE EndPass(r)
  BY <1>1, <1>2, EndsKeep DEF EndPass
<1>3. CASE Crash(r)
  <2>1. run' = [run EXCEPT ![r] = NewRun] /\ faults' = faults + 1 /\ faults < MaxFaults
        /\ UNCHANGED <<now, row, due, telling, cache, begun, missed>>
    BY <1>3 DEF Crash
  <2>2. faults' \in 0 .. MaxFaults
    BY <1>1, <2>1
  <2>3. QED
    BY <2>1, <2>2, EndsKeep
<1>4. QED
  BY <1>2, <1>3

LEMMA StartsSound ==
  ASSUME TimesAssumption, Init
  PROVE  LeaseInv
<1>1. /\ now = 0 /\ now \in Times /\ faults \in 0 .. MaxFaults /\ begun = 0
      /\ row = None /\ cache = None /\ telling = {} /\ missed = {}
      /\ run \in [Runners -> Running] /\ due \in [Works -> Times \cup {None}]
  <2>1. 0 \in Times /\ 0 \in 0 .. MaxFaults
    BY Bounds DEF Times
  <2>2. NewRun \in Running
    BY <2>1 DEF NewRun, Running, Pcs
  <2>3. QED
    BY <2>1, <2>2 DEF Init
<1>2. Typed
  BY <1>1 DEF Typed
<1>3. Whole(row) /\ Past(row, now) /\ Counted
  BY <1>1 DEF Whole, Past, Counted
<1>4. ASSUME NEW q \in Runners PROVE Fits(q, run[q], row, now, due, telling \cup missed)
  <2>1. run[q] = NewRun
    BY DEF Init
  <2>2. NewRun.at = 0 /\ NewRun.pc = "idle"
    BY DEF NewRun
  <2>3. QED
    BY <1>1, <2>1, <2>2 DEF Fits, Holding
<1>5. QED
  BY <1>1, <1>2, <1>3, <1>4 DEF LeaseInv

LEMMA NextKeeps ==
  ASSUME TimesAssumption, LeaseInv, [Next]_vars
  PROVE  LeaseInv'
<1>1. ASSUME NEW r \in Runners, Arrive(r) \/ Step(r) \/ Crash(r) PROVE LeaseInv'
  BY <1>1, ArriveKeeps, GateKeeps, LoadsKeep, ElectsKeeps, WorkKeeps, FinishKeeps, EndPassKeeps DEF Step
<1>2. ASSUME NEW i \in Works, Write(i) \/ Tell(i) PROVE LeaseInv'
  BY <1>2, WritesKeep, TellsKeep
<1>3. QED
  BY <1>1, <1>2, TicksKeep, StutterKeeps DEF Next

-----------------------------------------------------------------------------
(* The theorems *)

\* The runner's row, every invocation in flight and the cached snapshot fit one another.
THEOREM LeaseInvariant == ASSUME TimesAssumption PROVE Spec => []LeaseInv
<1>1. Init => LeaseInv
  BY StartsSound
<1>2. LeaseInv /\ [Next]_vars => LeaseInv'
  BY NextKeeps
<1>3. QED
  BY <1>1, <1>2, PTL DEF Spec

\* A pass within its lease is the one automationRunState names, consecutiveFailures counts
\* every pass begun since the last success once, and "healthy" is never said of a sleeping
\* snapshot unless a pass did succeed within HORIZON.
THEOREM LeaseStaysSound == ASSUME TimesAssumption PROVE Spec => []LeaseIsSound
<1>1. LeaseInv => LeaseIsSound
  <2> SUFFICES ASSUME LeaseInv PROVE LeaseIsSound
    OBVIOUS
  <2>1. /\ now \in Nat /\ row \in Row \cup {None} /\ Whole(row) /\ Counted
        /\ run \in [Runners -> Running] /\ cache \in Snapshots \cup {None}
        /\ \A r \in Runners : Fits(r, run[r], row, now, due, telling \cup missed)
    BY Bounds DEF LeaseInv, Typed
  <2>2. TypeOK
    <3>1. ASSUME NEW r \in Runners
          PROVE  /\ run[r].pc \in Pcs
                 /\ run[r].pc = "finish" => run[r].out # None
                 /\ run[r].snap = None \/ run[r].snap \in Snapshots
      BY <2>1, Bounds DEF Running, Fits
    <3>2. row = None \/ /\ row \in Row
                        /\ (row.status = "RUNNING") = (row.token # None)
                        /\ (row.status = "RUNNING") = (row.expires # None)
                        /\ row.status # "RUNNING" => row.finished # None
      BY <2>1 DEF Whole
    <3>3. QED
      BY <3>1, <3>2 DEF LeaseInv, Typed, TypeOK, Pcs
  <2>3. HoldersKeepTheirRow
    <3> SUFFICES ASSUME NEW r \in Runners, run[r].pc \in Holding, now <= run[r].at + LEASE
                 PROVE  row # None /\ row.status = "RUNNING" /\ row.token = r
      BY DEF HoldersKeepTheirRow, Holding
    <3>1. row # None /\ run[r].at \in Nat
      BY <2>1, Bounds DEF Fits, Running
    <3>2. row.token = r
      BY <2>1, <3>1, Bounds DEF Fits
    <3>3. QED
      BY <2>1, <3>1, <3>2, Bounds DEF Whole
  <2>4. EveryPassIsCounted
    BY <2>1 DEF Counted, EveryPassIsCounted
  <2>5. HealthyIsBacked
    <3> SUFFICES ASSUME cache # None, cache.healthy, Asleep(cache, now)
                 PROVE  row.success # None /\ now < row.success + HORIZON
      BY DEF HealthyIsBacked
    <3>1. Vouched(row, now)
      BY <2>1 DEF LeaseInv, Backed, Asleep
    <3>2. QED
      BY <3>1 DEF Vouched
  <2>6. QED
    BY <2>2, <2>3, <2>4, <2>5 DEF LeaseIsSound
<1>2. QED
  BY <1>1, LeaseInvariant, PTL

\* A scheduler call turned away found a lease that still stood, or a pass that finished
\* within HORIZON, and no due work whose signal had been delivered in time: the gate's
\* cache never makes the league sleep through what it was told.
THEOREM GateStepsHold == ASSUME TimesAssumption PROVE Spec => [][GateStep]_vars
<1>1. ASSUME LeaseInv, [Next]_vars, NEW r \in Runners, Skips(r)
      PROVE  /\ \/ row.status = "RUNNING" /\ now <= row.expires
                \/ row.finished # None /\ now < row.finished + HORIZON
             /\ \A i \in Works : due[i] # None /\ due[i] <= now => i \in telling \cup missed
  <2>1. /\ now \in Nat /\ run \in [Runners -> Running] /\ faults \in Nat /\ run[r].pc \in {"gate", "store"}
        /\ due \in [Works -> Times \cup {None}] /\ run[r].kind = "cron" /\ run'[r].pc = "idle"
        /\ faults' = faults
    BY <1>1, Bounds DEF LeaseInv, Typed, Skips
  <2>2. run'[r] # run[r]
    BY <2>1
  <2>3. GateHit(r) \/ LoadStore(r)
    <3>1. ~(UNCHANGED run)
      BY <2>2
    <3>2. PICK q \in Runners : Arrive(q) \/ Step(q) \/ Crash(q)
      BY <1>1, <3>1 DEF Next, vars, Write, Tell, Tick
    <3>3. ~Crash(q)
      BY <2>1 DEF Crash
    <3>4. q # r => run'[r] = run[r]
      <4>1. Arrive(q) /\ q # r => run'[r] = run[r]
        BY <2>1 DEF Arrive
      <4>2. (GateHit(q) \/ LoadRow(q) \/ LoadWork(q) \/ LoadStore(q)) /\ q # r => run'[r] = run[r]
        BY <2>1 DEF GateHit, LoadRow, LoadWork, LoadStore, Decide
      <4>3. (ProbeStale(q) \/ ClaimIdle(q) \/ CreateRow(q)) /\ q # r => run'[r] = run[r]
        BY <2>1 DEF ProbeStale, ClaimIdle, CreateRow, At
      <4>4. (Work(q) \/ Finish(q) \/ EndPass(q)) /\ q # r => run'[r] = run[r]
        BY <2>1 DEF Work, Finish, EndPass, At
      <4>5. QED
        BY <3>2, <3>3, <4>1, <4>2, <4>3, <4>4 DEF Step
    <3>5. Arrive(r) \/ Step(r)
      BY <2>2, <3>2, <3>3, <3>4
    <3>6. LoadRow(r) => run'[r].pc = "load"
      BY <2>1 DEF LoadRow, Running
    <3>7. QED
      <4>1. ~Arrive(r) /\ ~LoadWork(r) /\ ~ProbeStale(r) /\ ~ClaimIdle(r) /\ ~CreateRow(r)
        BY <2>1 DEF Arrive, LoadWork, ProbeStale, ClaimIdle, CreateRow
      <4>2. ~Work(r) /\ ~Finish(r) /\ ~EndPass(r)
        BY <2>1 DEF Work, Finish, EndPass
      <4>3. QED
        BY <2>1, <3>5, <3>6, <4>1, <4>2 DEF Step
  <2>4. PICK s : Backed(s, row, now, due, telling \cup missed) /\ Decide(r, s, now)
    <3>1. CASE GateHit(r)
      BY <1>1, <3>1 DEF LeaseInv, GateHit
    <3>2. CASE LoadStore(r)
      BY <1>1, <3>2 DEF LeaseInv, LoadStore, Fits
    <3>3. QED
      BY <2>3, <3>1, <3>2
  <2>5. Asleep(s, now)
    <3>1. SUFFICES ASSUME ~Asleep(s, now) PROVE run'[r].pc = "probe"
      BY <2>1
    <3>2. run' = [run EXCEPT ![r] = [NewRun EXCEPT !.pc = "probe", !.at = now]]
      BY <2>1, <2>4, <3>1 DEF Decide
    <3>3. QED
      BY <2>1, <3>2 DEF NewRun
  <2>6. Covered(row, now) /\ \A i \in Works \ (telling \cup missed) : due[i] # None => now < due[i]
    BY <2>1, <2>4, <2>5 DEF Backed, Asleep
  <2>7. \A i \in Works : due[i] # None => due[i] \in Nat
    BY <2>1, Bounds
  <2>8. QED
    BY <2>1, <2>6, <2>7 DEF Covered
<1>2. LeaseInv /\ [Next]_vars => [GateStep]_vars
  BY <1>1 DEF GateStep, SleepIsBounded, SleepsThroughNothingTold
<1>3. QED
  BY <1>2, LeaseInvariant, PTL DEF Spec
=============================================================================
