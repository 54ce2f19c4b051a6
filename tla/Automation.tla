----------------------------- MODULE Automation -----------------------------
(***************************************************************************)
(* The league's maintenance runner: a scheduler calls every minute, a      *)
(* cached snapshot (the gate) answers most calls "not due" without touching *)
(* the database, and the calls that get through elect one pass at a time   *)
(* with a lease of the row automationRunState.  An administrator starts    *)
(* passes past the gate, the health probe reads the gate, and every domain *)
(* write tells the gate to forget its snapshot, best-effort.               *)
(*                                                                         *)
(* Time is an integer.  A piece of work is a deadline some write stored (a *)
(* draft clock, a result scan, an outbox row); a pass does all that is due.*)
(* A process that stalls simply takes no step while the clock moves.       *)
(***************************************************************************)
EXTENDS Integers, FiniteSets, FiniteSetsExt

CONSTANTS Runners,     \* invocations: cron calls, admin presses, health probes
          Works,       \* the pieces of work
          Kinds,       \* which of "cron", "admin", "health" arrive
          LEASE,       \* AUTOMATION_LEASE_MS
          BUDGET,      \* AUTOMATION_WORK_BUDGET_MS
          HORIZON,     \* AUTOMATION_GATE_HARD_HORIZON_MS
          MaxTime,     \* bound on the clock
          MaxFaults,   \* bound on crashes, failed or blocked passes and lost signals
          None

Times     == 0..MaxTime
Statuses  == {"RUNNING", "SUCCEEDED", "FAILED", "BLOCKED"}
Row       == [status : Statuses, token : Runners \cup {None}, expires : Nat \cup {None},
              finished : Times \cup {None}, failures : Nat, success : Times \cup {None}]
Snapshots == [next : Int \cup {None}, hard : Int, healthy : BOOLEAN, runner : BOOLEAN]
Outcome   == [status : Statuses \ {"RUNNING"}, at : Times]

TimesAssumption ==
  /\ {LEASE, BUDGET, HORIZON, MaxTime, MaxFaults} \subseteq Nat
  /\ BUDGET <= LEASE /\ LEASE < HORIZON
  /\ None \notin Runners \cup Nat \cup Row \cup Snapshots \cup Outcome

VARIABLES now,      \* the clock
          row,      \* automationRunState, None before the first pass
          run,      \* each invocation's program counter and locals
          due,      \* each work's stored deadline, None when there is none
          telling,  \* works whose write has committed and not yet signalled
          cache,    \* the cached snapshot, None after an invalidation
          faults,
          begun,    \* ghost: passes begun since the last that succeeded
          missed    \* ghost: works whose signal was lost or overtaken by a load
vars == <<now, row, run, due, telling, cache, faults, begun, missed>>

NewRun == [pc |-> "idle", kind |-> None, at |-> 0, read |-> None, snap |-> None, out |-> None]

-----------------------------------------------------------------------------
(* The gate                                                                *)

Later(a, b) == IF a < b THEN b ELSE a
\* The pass's own row: when it must be looked at again.
RunnerWakes(rw, at) ==
  CASE rw = None -> {at}
    [] rw # None /\ rw.status = "RUNNING" -> {Later(at, rw.expires + 1)}
    [] rw # None /\ rw.status = "FAILED" -> {at}
    [] OTHER -> {}
\* A finished pass, not the moment of the load, carries the hard wake.
HardWake(rw, at) ==
  IF rw # None /\ rw.status \in {"SUCCEEDED", "BLOCKED"} THEN Min({at, rw.finished}) + HORIZON
  ELSE at + HORIZON

Healthy(rw) == rw # None /\ rw.status = "SUCCEEDED"

\* computeAutomationGateSnapshot: next is None when nothing is pending.
Snapshot(rw, at, d) ==
  LET items == {Later(at, d[i]) : i \in {j \in Works : d[j] # None}}
      wakes == RunnerWakes(rw, at) \cup items
  IN [next |-> IF wakes = {} THEN None ELSE Min(wakes), hard |-> HardWake(rw, at),
      healthy |-> Healthy(rw),
      \* the reason of the earliest candidate, the runner's own first among equals
      runner |-> RunnerWakes(rw, at) # {} /\ Min(RunnerWakes(rw, at)) = Min(wakes)]
Wake(s) == IF s.next = None THEN s.hard ELSE Min({s.next, s.hard})
Asleep(s, t) == t < Wake(s)

\* getAutomationGateDecision on a snapshot, at the time it is in hand (the load's
\* own duration counts).  A cron call runs or stops; the probe only reads.
Decide(r, s, t) ==
  IF run[r].kind = "cron" /\ ~Asleep(s, t)
  THEN run' = [run EXCEPT ![r] = [NewRun EXCEPT !.pc = "probe", !.at = now]]
  ELSE run' = [run EXCEPT ![r] = NewRun]

\* A call arrives.  An admin press goes straight to the election.
Arrive(r) == \E k \in Kinds :
  /\ run[r].pc = "idle"
  /\ run' = [run EXCEPT ![r] = IF k = "admin" THEN [NewRun EXCEPT !.pc = "probe", !.at = now]
                              ELSE [NewRun EXCEPT !.pc = "gate", !.kind = k]]
  /\ UNCHANGED <<now, row, due, telling, cache, faults, begun, missed>>

GateHit(r) ==
  /\ run[r].pc = "gate" /\ cache # None
  /\ Decide(r, cache, now)
  /\ UNCHANGED <<now, row, due, telling, cache, faults, begun, missed>>

\* A miss loads in two batches of queries, the runner's row in the first.
LoadRow(r) ==
  /\ run[r].pc = "gate" /\ cache = None
  /\ run' = [run EXCEPT ![r] = [@ EXCEPT !.pc = "load", !.read = [row |-> row, at |-> now]]]
  /\ UNCHANGED <<now, row, due, telling, cache, faults, begun, missed>>
LoadWork(r) ==
  /\ run[r].pc = "load"
  /\ run' = [run EXCEPT ![r] = [@ EXCEPT !.pc = "store", !.read = None,
                                         !.snap = Snapshot(run[r].read.row, run[r].read.at, due)]]
  /\ UNCHANGED <<now, row, due, telling, cache, faults, begun, missed>>
LoadStore(r) ==
  /\ run[r].pc = "store"
  /\ cache' = run[r].snap
  /\ Decide(r, run[r].snap, now)
  /\ UNCHANGED <<now, row, due, telling, faults, begun, missed>>

-----------------------------------------------------------------------------
(* The election and the pass                                               *)

Stale(t) == row.expires = None \/ row.expires < t
Took(r, finished, failures, success) ==
  row' = [status |-> "RUNNING", token |-> r, expires |-> run[r].at + LEASE,
          finished |-> finished, failures |-> failures, success |-> success]
At(r, pc) == run' = [run EXCEPT ![r].pc = pc]

\* The recovery of a lapsed RUNNING row counts the pass that was abandoned.
ProbeStale(r) ==
  /\ run[r].pc = "probe"
  /\ IF row # None /\ row.status = "RUNNING" /\ Stale(run[r].at)
     THEN /\ Took(r, row.finished, row.failures + 1, row.success)
          /\ begun' = begun + 1 /\ At(r, "work")
     ELSE At(r, "claim") /\ UNCHANGED <<row, begun>>
  /\ UNCHANGED <<now, due, telling, cache, faults, missed>>

Claimable(r) == row # None /\ row.status # "RUNNING" /\ Stale(run[r].at)
ClaimIdle(r) ==
  /\ run[r].pc = "claim"
  /\ IF Claimable(r)
     THEN /\ Took(r, row.finished, row.failures, row.success)
          /\ begun' = begun + 1 /\ At(r, "work")
     ELSE At(r, "create") /\ UNCHANGED <<row, begun>>
  /\ UNCHANGED <<now, due, telling, cache, faults, missed>>

\* The first pass ever creates the row; a unique violation means the lease is held.
CreateRow(r) ==
  /\ run[r].pc = "create"
  /\ IF row = None
     THEN Took(r, None, 0, None) /\ begun' = begun + 1 /\ At(r, "work")
     ELSE run' = [run EXCEPT ![r] = NewRun] /\ UNCHANGED <<row, begun>>
  /\ UNCHANGED <<now, due, telling, cache, faults, missed>>

\* runResultSync: what is due now is done, or a step failed or ran out of budget.
\* BLOCKED is a DEGRADED pass whose only issue is a Discord transport nobody configured.
Work(r) ==
  /\ run[r].pc = "work"
  /\ LET done == [i \in Works |-> IF due[i] # None /\ due[i] <= now THEN None ELSE due[i]]
         late == now >= run[r].at + BUDGET
         ends(s) == run' = [run EXCEPT ![r] = [@ EXCEPT !.pc = "finish", !.out = [status |-> s, at |-> now]]]
     IN \/ /\ due' = done /\ missed' = {i \in missed : done[i] # None}
           /\ \/ ends(IF late THEN "FAILED" ELSE "SUCCEEDED") /\ UNCHANGED faults
              \/ ~late /\ ends("BLOCKED") /\ faults < MaxFaults /\ faults' = faults + 1
        \/ /\ faults < MaxFaults /\ faults' = faults + 1
           /\ ends("FAILED") /\ UNCHANGED <<due, missed>>
  /\ UNCHANGED <<now, row, telling, cache, begun>>

\* finalizeAutomationLease: a fenced pass leaves its successor's row alone.
\* Mutant: whoever finishes writes the row.
OwnsAny(r) == row # None
Owns(r) == row # None /\ row.token = r
Final(out) ==
  [status |-> out.status, token |-> None, expires |-> None, finished |-> out.at,
   failures |-> IF out.status = "SUCCEEDED" THEN 0 ELSE row.failures + 1,
   success |-> IF out.status = "SUCCEEDED" THEN out.at ELSE row.success]
\* finalizeAutomationLease: a fenced pass leaves its successor's row alone.
Finish(r) ==
  /\ run[r].pc = "finish"
  /\ LET out == run[r].out IN
     IF Owns(r)
     THEN /\ row' = Final(out)
          /\ begun' = IF out.status = "SUCCEEDED" THEN 0 ELSE begun
     ELSE UNCHANGED <<row, begun>>
  /\ At(r, "signal")
  /\ UNCHANGED <<now, due, telling, cache, faults, missed>>

\* Every owned pass, fenced ones too, ends by expiring the gate's snapshot.
EndPass(r) ==
  /\ run[r].pc = "signal"
  /\ cache' = None
  /\ run' = [run EXCEPT ![r] = NewRun]
  /\ UNCHANGED <<now, row, due, telling, faults, begun, missed>>

-----------------------------------------------------------------------------
(* The rest of the site, faults and the clock                              *)

\* A domain write stores a deadline ...
Write(i) ==
  /\ due[i] = None /\ i \notin telling
  /\ \E t \in now..MaxTime : due' = [due EXCEPT ![i] = t]
  /\ telling' = telling \cup {i}
  /\ UNCHANGED <<now, row, run, cache, faults, begun, missed>>
\* ... and tells the gate, unless the signal is lost.  A load that already read the
\* works without this one will store its snapshot over the invalidation.
Overtaken == \E r \in Runners : run[r].pc = "store"
Tell(i) ==
  /\ i \in telling /\ telling' = telling \ {i}
  /\ \/ cache' = None /\ UNCHANGED faults
        /\ missed' = IF Overtaken /\ due[i] # None THEN missed \cup {i} ELSE missed
     \/ faults < MaxFaults /\ faults' = faults + 1 /\ UNCHANGED cache
        /\ missed' = IF due[i] # None THEN missed \cup {i} ELSE missed
  /\ UNCHANGED <<now, row, run, due, begun>>

\* A process dies.  Only where the bounded clock still sees its lease lapse.
Crash(r) ==
  /\ run[r].pc # "idle" /\ run[r].at + LEASE < MaxTime
  /\ faults < MaxFaults /\ faults' = faults + 1
  /\ run' = [run EXCEPT ![r] = NewRun]
  /\ UNCHANGED <<now, row, due, telling, cache, begun, missed>>

Tick == now < MaxTime /\ now' = now + 1
        /\ UNCHANGED <<row, run, due, telling, cache, faults, begun, missed>>

Init ==
  /\ now = 0 /\ row = None /\ cache = None /\ faults = 0 /\ begun = 0
  /\ run = [r \in Runners |-> NewRun]
  /\ due = [i \in Works |-> None] /\ telling = {} /\ missed = {}

Step(r) == \/ GateHit(r) \/ LoadRow(r) \/ LoadWork(r) \/ LoadStore(r)
           \/ ProbeStale(r) \/ ClaimIdle(r) \/ CreateRow(r) \/ Work(r) \/ Finish(r) \/ EndPass(r)
Next == \/ \E r \in Runners : Arrive(r) \/ Step(r) \/ Crash(r)
        \/ \E i \in Works : Write(i) \/ Tell(i)
        \/ Tick
Spec == Init /\ [][Next]_vars

\* The scheduler keeps calling, started calls go on, signals are sent, time passes.
FairSpec == /\ Spec /\ WF_vars(Tick)
            /\ \A r \in Runners : WF_vars(Arrive(r)) /\ WF_vars(Step(r))
            /\ \A i \in Works : WF_vars(Tell(i))

-----------------------------------------------------------------------------
(* Properties                                                              *)

TypeOK ==
  /\ now \in Times /\ faults \in 0..MaxFaults /\ begun \in Nat
  /\ row = None \/ /\ row \in Row
                   \* a lease is whole or absent, and only a RUNNING row has one
                   /\ (row.status = "RUNNING") = (row.token # None)
                   /\ (row.status = "RUNNING") = (row.expires # None)
                   /\ row.status # "RUNNING" => row.finished # None
  /\ \A r \in Runners :
       /\ run[r].pc \in {"idle", "gate", "load", "store", "probe", "claim", "create", "work",
                         "finish", "signal"}
       /\ (run[r].pc = "finish") => (run[r].out # None)
       /\ run[r].snap = None \/ run[r].snap \in Snapshots
  /\ due \in [Works -> Times \cup {None}] /\ telling \subseteq Works /\ missed \subseteq Works
  /\ cache = None \/ cache \in Snapshots

\* A pass inside its lease is the one the row names: no other invocation's late
\* finish, claim or recovery takes the row away from it.
HoldersKeepTheirRow ==
  \A r \in Runners : run[r].pc \in {"work", "finish"} /\ now <= run[r].at + LEASE
                       => row # None /\ row.status = "RUNNING" /\ row.token = r

\* consecutiveFailures counts every pass begun since the last success, those that
\* died or were fenced off included, exactly once; only the running one is not yet in.
EveryPassIsCounted ==
  row # None => begun = row.failures + (IF row.status = "RUNNING" THEN 1 ELSE 0)

\* A scheduler call was answered "not due".
Skips(r) == /\ run[r].kind = "cron" /\ run[r].pc \in {"gate", "store"}
            /\ run'[r].pc = "idle" /\ faults' = faults
\* However many signals were lost, no call is turned away once HORIZON has passed
\* since a pass finished, except while a pass still holds its lease.
SleepIsBounded ==
  \A r \in Runners : Skips(r) =>
       \/ row.status = "RUNNING" /\ now <= row.expires
       \/ row.finished # None /\ now < row.finished + HORIZON

\* A call is turned away while work is due only if that work's signal is still to
\* come, was lost, or was overtaken by a load that had read the works before it.
SleepsThroughNothingTold ==
  \A r \in Runners : Skips(r) =>
       \A i \in Works : due[i] # None /\ due[i] <= now => i \in telling \cup missed

\* The public probe answers "healthy" from a sleeping snapshot, without a query,
\* only when a pass did succeed within the last HORIZON.
HealthyIsBacked ==
  cache # None /\ cache.healthy /\ Asleep(cache, now) /\ ~cache.runner
    => row.success # None /\ now < row.success + HORIZON

\* Due work is done in the end, through crashed passes, failed passes and lost
\* signals (works due too late for the bounded clock to reach the hard wake aside).
Reachable(i) == due[i] # None /\ due[i] + HORIZON + LEASE < MaxTime
DueWorkIsDone == \A i \in Works : Reachable(i) ~> due[i] = None

\* A lease whose pass died does not block the runner for ever.
Held == row # None /\ row.status = "RUNNING" /\ row.expires < MaxTime
LeaseIsReleased == Held ~> ~Held

\* What every state, and every step, of the gate and the lease keeps.
LeaseIsSound == TypeOK /\ HoldersKeepTheirRow /\ EveryPassIsCounted /\ HealthyIsBacked
GateStep == SleepIsBounded /\ SleepsThroughNothingTold
=============================================================================
