----------------------------- MODULE InhouseBans -----------------------------
(***************************************************************************)
(* A player's inhouse bans and the Discord role that goes with them.       *)
(* Admins ban (which replaces a running ban) and lift; the worker gives a  *)
(* missing role, takes it off when a ban ends, and settles bans with       *)
(* nothing left to undo.  The role lives in Discord: every change of it is *)
(* a call, then a stamp on the ban's row, and each of the two may fail.    *)
(*                                                                         *)
(* Bans of different players share nothing, so the module is about one.    *)
(* A row's clocks are kept as what the rules ask of them: whether the last *)
(* try was after the ban ended, and whether its retry time has passed.     *)
(***************************************************************************)
EXTENDS Integers, SequencesExt

CONSTANTS Procs,       \* admins' requests
          Worker,      \* the scheduled worker
          Accounts,    \* Discord accounts the player may link
          None,
          MaxBans,     \* bound on ban rows
          MaxRefused,  \* bound on calls Discord refuses
          MaxLost,     \* bound on answers lost after Discord acted, and crashes
          MaxRelinks   \* bound on changes of the linked account

BanAssumption ==
  /\ Worker \notin Procs
  /\ {MaxBans, MaxRefused, MaxLost, MaxRelinks} \subseteq Nat

VARIABLES bans,      \* InhouseBan rows, oldest first
          linked,    \* User.discordId
          role,      \* the accounts wearing the role in Discord
          jobs,
          refused, lost, relinks
vars == <<bans, linked, role, jobs, refused, lost, relinks>>
counts == <<refused, lost, relinks>>

Everyone == Procs \cup {Worker}
Rows == DOMAIN bans
inhouseBanActive(row) == row.state = "running"
Running == {b \in Rows : inhouseBanActive(bans[b])}

Fresh == [state |-> "running", timed |-> FALSE, added |-> FALSE, tried |-> "never",
          after |-> FALSE, settled |-> FALSE]
At(p, step) == jobs[p] # None /\ jobs[p].step = step
Sets(p, job) == jobs' = [jobs EXCEPT ![p] = job]

\* a try is stamped with the time it ended
Tried(row) == [row EXCEPT !.tried = "fresh", !.after = ~inhouseBanActive(row)]

-----------------------------------------------------------------------------
(* The rules, lib/inhouse-ban.ts                                           *)

Retries(row) == row.after /\ row.tried = "fresh"
NeverCalled(row) == ~row.added /\ row.tried = "never"

\* inhouseBanRoleStep: what to do with an unsettled row
RoleStep(row, account, otherActive) ==
  IF inhouseBanActive(row)
  THEN IF account = None \/ row.added \/ row.tried = "fresh" THEN "wait" ELSE "grant"
  ELSE IF account = None \/ otherActive \/ NeverCalled(row) THEN "settle"
  ELSE IF Retries(row) THEN "wait" ELSE "remove"

\* Mutant: the gate wakes nobody for an ended ban without an account.
WakesForAccounts(row, account) ==
  IF inhouseBanActive(row)
  THEN account # None /\ ~row.added /\ row.tried # "fresh"
  ELSE account # None /\ ~Retries(row)
\* inhouseBanWakeAtMs: the automation gate wakes the worker for this row now
Wakes(row, account) ==
  IF inhouseBanActive(row)
  THEN account # None /\ ~row.added /\ row.tried # "fresh"
  ELSE ~(account # None /\ Retries(row))

-----------------------------------------------------------------------------
(* Admins                                                                  *)

\* the new ban owns the role from here
Replaced(row) == IF inhouseBanActive(row) THEN [row EXCEPT !.state = "lifted", !.settled = TRUE] ELSE row

\* one serializable transaction; then the role call with the account it read
banInhousePlayer(p) == \E timed \in BOOLEAN :
  /\ p \in Procs /\ jobs[p] = None /\ Len(bans) < MaxBans
  /\ bans' = Append([b \in Rows |-> Replaced(bans[b])], [Fresh EXCEPT !.timed = timed])
  /\ Sets(p, IF linked = None THEN None
             ELSE [step |-> "give", ban |-> Len(bans) + 1, account |-> linked, rest |-> <<>>])
  /\ UNCHANGED <<linked, role, counts>>

liftInhouseBan(p) == \E b \in Running :
  /\ p \in Procs /\ jobs[p] = None
  /\ bans' = [bans EXCEPT ![b].state = "lifted"]
  /\ Sets(p, [step |-> "settle", ban |-> b])
  /\ UNCHANGED <<linked, role, counts>>

-----------------------------------------------------------------------------
(* Steps on one row: giveInhouseBanRole and runInhouseBanRoleStep          *)

\* what is left of a worker's pass: the next row, as the pass read it
NextOf(rest) == IF rest = <<>> THEN None
               ELSE [step |-> "row", read |-> Head(rest), rest |-> Tail(rest)]

\* a decision on a row as it was read
Decided(read, rest) ==
  LET step == RoleStep(read.row, read.account, read.other)
      job == [step |-> step, ban |-> read.ban, account |-> read.account, rest |-> rest] IN
  CASE step = "wait" -> NextOf(rest)
    [] step = "grant" -> [job EXCEPT !.step = "give"]
    [] step = "remove" -> [job EXCEPT !.step = "take"]
    [] step = "settle" -> [job EXCEPT !.step = "settled"]

Read(b) == [ban |-> b, row |-> bans[b], account |-> linked,
            other |-> ~inhouseBanActive(bans[b]) /\ Running # {}]

\* settleInhouseBanRole, after a lift
settleInhouseBanRole(p) ==
  /\ At(p, "settle")
  /\ Sets(p, Decided(Read(jobs[p].ban), <<>>))
  /\ UNCHANGED <<bans, linked, role, counts>>

\* syncInhouseBanRoles: every unsettled row, oldest first
syncInhouseBanRoles ==
  LET due == {b \in Rows : ~bans[b].settled} IN
  /\ jobs[Worker] = None
  /\ \E b \in due : Wakes(bans[b], linked)
  /\ LET order == SetToSortSeq(due, <) IN
     Sets(Worker, NextOf([i \in 1..Len(order) |-> Read(order[i])]))
  /\ UNCHANGED <<bans, linked, role, counts>>

NextRow(p) ==
  /\ At(p, "row")
  /\ Sets(p, Decided(jobs[p].read, jobs[p].rest))
  /\ UNCHANGED <<bans, linked, role, counts>>

Settle(p) ==
  /\ At(p, "settled")
  /\ bans' = [bans EXCEPT ![jobs[p].ban].settled = TRUE]
  /\ Sets(p, NextOf(jobs[p].rest))
  /\ UNCHANGED <<linked, role, counts>>

\* setInhouseBanRole: Discord does it and says so
Calls(p, on) ==
  LET j == jobs[p] IN
  /\ At(p, IF on THEN "give" ELSE "take")
 
  /\ role' = IF on THEN role \cup {j.account} ELSE role \ {j.account}
  /\ Sets(p, [step |-> "stamp", on |-> on, ok |-> TRUE, ban |-> j.ban, rest |-> j.rest])
  /\ UNCHANGED <<bans, linked, counts>>

\* Discord refuses: nothing happened
Refuses(p) ==
  LET j == jobs[p] IN
  /\ At(p, "give") \/ At(p, "take")
 
  /\ refused < MaxRefused /\ refused' = refused + 1
  /\ Sets(p, [step |-> "stamp", on |-> j.step = "give", ok |-> FALSE, ban |-> j.ban, rest |-> j.rest])
  /\ UNCHANGED <<bans, linked, role, lost, relinks>>

\* Discord did it, but the answer never came
Loses(p) ==
  LET j == jobs[p] IN
  /\ At(p, "give") \/ At(p, "take")
 
  /\ lost < MaxLost /\ lost' = lost + 1
  /\ role' = IF j.step = "give" THEN role \cup {j.account} ELSE role \ {j.account}
  /\ Sets(p, [step |-> "stamp", on |-> j.step = "give", ok |-> FALSE, ban |-> j.ban, rest |-> j.rest])
  /\ UNCHANGED <<bans, linked, refused, relinks>>

\* The process dies before the stamp.
Crashes(p) ==
  /\ At(p, "stamp")
  /\ lost < MaxLost /\ lost' = lost + 1
  /\ Sets(p, None)
  /\ UNCHANGED <<bans, linked, role, refused, relinks>>

GiveStamp(row, ok) == [Tried(row) EXCEPT !.added = @ \/ ok]
StampGive(p) ==
  LET j == jobs[p] IN
  /\ At(p, "stamp") /\ j.on
  /\ bans' = [bans EXCEPT ![j.ban] = GiveStamp(@, j.ok)]
  /\ Sets(p, IF j.ok THEN [step |-> "given", ban |-> j.ban, rest |-> j.rest] ELSE NextOf(j.rest))
  /\ UNCHANGED <<linked, role, counts>>

\* A ban that was settled while its role went on.
Unsettled(row) == [row EXCEPT !.settled = FALSE, !.tried = "never"]
CheckGiven(p) ==
  /\ At(p, "given")
  /\ bans' = IF bans[jobs[p].ban].settled
               THEN [bans EXCEPT ![jobs[p].ban] = Unsettled(@)] ELSE bans
  /\ Sets(p, NextOf(jobs[p].rest))
  /\ UNCHANGED <<linked, role, counts>>

StampTake(p) ==
  LET j == jobs[p] IN
  /\ At(p, "stamp") /\ ~j.on
  /\ bans' = [bans EXCEPT ![j.ban] = [Tried(@) EXCEPT !.settled = @ \/ j.ok]]
  /\ Sets(p, IF j.ok THEN [step |-> "taken", ban |-> j.ban, rest |-> j.rest] ELSE NextOf(j.rest))
  /\ UNCHANGED <<linked, role, counts>>

\* A ban made while the role came off is given its role again.
Ungiven(row) == IF inhouseBanActive(row) THEN [row EXCEPT !.added = FALSE, !.tried = "never"] ELSE row
CheckTaken(p) ==
  /\ At(p, "taken")
  /\ bans' = [b \in Rows |-> Ungiven(bans[b])]
  /\ Sets(p, NextOf(jobs[p].rest))
  /\ UNCHANGED <<linked, role, counts>>

-----------------------------------------------------------------------------
(* Clocks, and the player's Discord link                                   *)

\* the shortest ban outlasts the request that made it
Ends == \E b \in Running :
  /\ bans[b].timed
  /\ \A p \in Procs : jobs[p] # None => jobs[p].ban # b
  /\ bans' = [bans EXCEPT ![b].state = "over"]
  /\ UNCHANGED <<linked, role, jobs, counts>>

RetryTime == \E b \in Rows :
  /\ bans[b].tried = "fresh"
  /\ bans' = [bans EXCEPT ![b].tried = "lapsed"]
  /\ UNCHANGED <<linked, role, jobs, counts>>

Relinks == \E d \in Accounts \cup {None} :
  /\ relinks < MaxRelinks /\ relinks' = relinks + 1
  /\ d # linked /\ linked' = d
  /\ UNCHANGED <<bans, role, jobs, refused, lost>>

Init ==
  /\ bans = <<>> /\ linked \in Accounts \cup {None} /\ role = {}
  /\ jobs = [p \in Everyone |-> None]
  /\ refused = 0 /\ lost = 0 /\ relinks = 0

Steps(p) ==
  \/ settleInhouseBanRole(p) \/ NextRow(p) \/ Settle(p)
  \/ Calls(p, TRUE) \/ Calls(p, FALSE)
  \/ StampGive(p) \/ CheckGiven(p) \/ StampTake(p) \/ CheckTaken(p)
Faults(p) == Refuses(p) \/ Loses(p) \/ Crashes(p)

Next ==
  \/ \E p \in Everyone : Steps(p) \/ Faults(p)
  \/ \E p \in Procs : banInhousePlayer(p) \/ liftInhouseBan(p)
  \/ syncInhouseBanRoles
  \/ Ends \/ RetryTime \/ Relinks
Spec == Init /\ [][Next]_vars

\* requests run to their end, the scheduler wakes the worker, retry times pass
Fairness ==
  /\ \A p \in Everyone : WF_vars(Steps(p))
  /\ WF_vars(syncInhouseBanRoles)
  /\ WF_vars(RetryTime)
FairSpec == Spec /\ Fairness

-----------------------------------------------------------------------------
\* Rows are whole, one ban of a player runs at a time, and a running one is never
\* settled, whoever stamps it late (banInhousePlayer, inhouse-ban-service.ts:147).
TypeOK ==
  /\ \A b \in Rows : bans[b] \in [state : {"running", "lifted", "over"}, timed : BOOLEAN,
       added : BOOLEAN, tried : {"never", "fresh", "lapsed"}, after : BOOLEAN, settled : BOOLEAN]
  /\ linked \in Accounts \cup {None} /\ role \subseteq Accounts
  /\ \A b, c \in Running : b = c
  /\ \A b \in Running : ~bans[b].settled

\* Every ban that ended is settled in the end, whatever the admins, the worker and
\* the player's Discord link did across each other, whatever Discord refused, whose
\* answer was lost and wherever a process died: the gate wakes the worker for every
\* row a pass still has to do something about (inhouseBanWakeAtMs, inhouse-ban.ts:306).
Lingers == \E b \in Rows : ~inhouseBanActive(bans[b]) /\ ~bans[b].settled
BansSettle == Lingers ~> ~Lingers

\* What the two repairs are for and do not secure: once nothing is in flight, a
\* running ban recorded as given is worn, and when every ban is settled nobody
\* wears the role.  Neither is an invariant; the README says what breaks them.
Idle == \A p \in Everyone : jobs[p] = None
BannedWearIt == Idle => \A b \in Running : bans[b].added => linked \in role
RoleComesOff ==
  Idle /\ Rows # {} /\ Running = {} /\ (\A b \in Rows : bans[b].settled) => role = {}
=============================================================================
