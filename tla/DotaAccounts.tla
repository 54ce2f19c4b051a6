---------------------------- MODULE DotaAccounts ----------------------------
(***************************************************************************)
(* Who owns a Dota account, and whose medal is on a profile.  A user's     *)
(* account is an override in one of two columns, or else the account their *)
(* Steam id derives.  Logins retire the stale overrides of other users,    *)
(* relinking moves a user between accounts, and OpenDota's answers are     *)
(* written seconds after they were asked for.                              *)
(*                                                                         *)
(* A login is an interactive transaction at the database's default         *)
(* isolation, READ COMMITTED: each statement sees what is committed when   *)
(* it runs, and rows it wrote stay locked until it ends.  The SERIALIZABLE *)
(* transactions are one step, or a conflict.                               *)
(***************************************************************************)
EXTENDS Integers, FiniteSets, TLC

CONSTANTS Users, Accounts,
          Steam,        \* the Dota account each user's Steam id derives, or None
          Fits,         \* accounts the 32-bit legacy column can hold
          Tiers,        \* medals OpenDota may answer
          Procs,        \* requests in flight
          Early,        \* users who signed in before this release
          Modes,        \* medal sources an admin may choose
          Bootstraps,   \* a development server, without an allowlist
          MaxJobs,      \* bound on requests
          None, Admin

AccountAssumption ==
  /\ Steam \in [Users -> Accounts \cup {None}]
  /\ \A u, w \in Users : Steam[u] = Steam[w] /\ Steam[u] # None => u = w
  /\ Fits \subseteq Accounts /\ Early \subseteq Users /\ MaxJobs \in Nat
  /\ Modes \subseteq {"manual", "automatic"}

VARIABLES user,      \* User rows
          tx,        \* the rows an open login has written, not yet committed
          boot,      \* the BOOTSTRAP_ADMIN_STEAM_ID setting
          booting,   \* the open login that has inserted it
          jobs, started,
          verified   \* ghost: users who have signed in under this release
vars == <<user, tx, boot, booting, jobs, started, verified>>
login == <<tx, boot, booting, verified>>

stored(row) == IF row.v2 # None THEN row.v2 ELSE row.legacy
effective(u, row) == IF stored(row) # None THEN stored(row) ELSE Steam[u]
Link(row) == <<row.v2, row.legacy>>

Blank(role) == [here |-> TRUE, v2 |-> None, legacy |-> None, medal |-> None,
                from |-> None, manual |-> FALSE, stats |-> None, role |-> role]
Absent == [Blank("USER") EXCEPT !.here = FALSE]
NoRows == [u \in {} |-> Absent]
Held == UNION {DOMAIN tx[p] : p \in Procs}
Kind(p) == jobs[p] # None /\ jobs[p].kind \in {"link", "refresh", "sync", "ensure"}

-----------------------------------------------------------------------------
(* retireStaleDotaAccountClaims: five statements over the other rows       *)

Automatic(row) == ~row.manual

\* the rows that statement k of owner o's retirement changes
Hits(k, o, u, row) ==
  LET a == Steam[o] IN
  /\ u # o /\ row.here
  /\ \/ k = 1 /\ row.v2 = a /\ Automatic(row)
     \/ k = 2 /\ row.v2 = a
     \/ k = 3 /\ row.v2 = None /\ row.legacy = a /\ Automatic(row)
     \/ k = 4 /\ row.v2 = None /\ row.legacy = a
     \/ k = 5 /\ row.v2 # None /\ row.legacy = a

NoMedal(row) == [row EXCEPT !.medal = None, !.from = None]
Retire(k, row) ==
  CASE k \in {1, 3} -> NoMedal(row)
    [] k = 2 -> [row EXCEPT !.v2 = None, !.stats = None]
    [] k = 4 -> [row EXCEPT !.legacy = None, !.stats = None]
    [] k = 5 -> [row EXCEPT !.legacy = None]

\* how many of the statements run for owner o
Last(o) == IF Steam[o] = None THEN 0 ELSE IF Steam[o] \in Fits THEN 5 ELSE 2

Retired(o, rows) ==
  LET After[k \in 0..5] ==
        IF k = 0 THEN rows
        ELSE [u \in Users |-> IF k <= Last(o) /\ Hits(k, o, u, After[k - 1][u])
                                THEN Retire(k, After[k - 1][u]) ELSE After[k - 1][u]]
  IN After[5]

-----------------------------------------------------------------------------
(* lib/users.ts: signing in                                                *)

Begins(p, job) ==
  /\ jobs[p] = None /\ started < MaxJobs
  /\ started' = started + 1
  /\ jobs' = [jobs EXCEPT ![p] = job]

SignIn(p, u) ==
  /\ Begins(p, [kind |-> "login", who |-> u, next |-> 1, admin |-> FALSE])
  /\ UNCHANGED <<user, login>>

LoggingIn(p) == jobs[p] # None /\ jobs[p].kind = "login"

\* one statement; a row another login has written makes it wait
RetireClaims(p) ==
  LET j == jobs[p]
      rows == tx[p] @@ user
      hit == {u \in Users : Hits(j.next, j.who, u, rows[u])} IN
  /\ LoggingIn(p) /\ j.next <= Last(j.who)
  /\ \A q \in Procs \ {p} : hit \cap DOMAIN tx[q] = {}
  /\ tx' = [tx EXCEPT ![p] = [u \in hit |-> Retire(j.next, rows[u])] @@ @]
  /\ jobs' = [jobs EXCEPT ![p].next = @ + 1]
  /\ UNCHANGED <<user, boot, booting, started, verified>>

isFirstUser == \A u \in Users : ~user[u].here
\* the unique-key insert: it waits for a concurrent insert to end
InsertClaim(p) ==
  /\ booting = None
  /\ booting' = IF boot = None THEN p ELSE None

ClaimBootstrap(p) ==
  LET j == jobs[p] IN
  /\ LoggingIn(p) /\ j.next = Last(j.who) + 1
  /\ IF Bootstraps /\ isFirstUser
     THEN /\ InsertClaim(p)
          /\ jobs' = [jobs EXCEPT ![p].next = @ + 1, ![p].admin = boot \in {None, j.who}]
     ELSE jobs' = [jobs EXCEPT ![p].next = @ + 1] /\ UNCHANGED booting
  /\ UNCHANGED <<user, tx, boot, started, verified>>

Ask(kind, u, row, todo) ==
  [kind |-> kind, who |-> u, seen |-> Link(row), account |-> effective(u, row), todo |-> todo]

\* the upsert and the commit; then ensureRankTier and ensurePubStats
Publish(p) ==
  LET j == jobs[p]
      rows == tx[p] @@ user
      role == IF j.admin THEN "ADMIN" ELSE "USER"
      row == IF ~rows[j.who].here THEN Blank(role)
             ELSE IF j.admin THEN [rows[j.who] EXCEPT !.role = role] ELSE rows[j.who]
      todo == {s \in {"medal", "stats"} :
                 /\ effective(j.who, row) # None
                 /\ s = "medal" => row.medal = None /\ ~row.manual
                 /\ s = "stats" => row.stats = None} IN
  /\ LoggingIn(p) /\ j.next = Last(j.who) + 2
  /\ \A q \in Procs \ {p} : j.who \notin DOMAIN tx[q]
  /\ user' = [rows EXCEPT ![j.who] = row]
  /\ tx' = [tx EXCEPT ![p] = NoRows]
  /\ IF booting = p THEN boot' = j.who /\ booting' = None ELSE UNCHANGED <<boot, booting>>
  /\ verified' = verified \cup {j.who}
  /\ jobs' = [jobs EXCEPT ![p] = IF todo = {} THEN None ELSE Ask("ensure", j.who, row, todo)]
  /\ UNCHANGED started

\* a crash, a timeout or a deadlock rolls the login back
RollBack(p) ==
  /\ LoggingIn(p)
  /\ jobs' = [jobs EXCEPT ![p] = None]
  /\ tx' = [tx EXCEPT ![p] = NoRows]
  /\ booting' = IF booting = p THEN None ELSE booting
  /\ UNCHANGED <<user, boot, started, verified>>

-----------------------------------------------------------------------------
(* registration.ts: relinking                                              *)

\* keep: the form names the override the user already has
updateDotaAccount(p, u) == \E keep \in BOOLEAN :
  LET row == user[u] IN
  /\ row.here
  /\ keep => stored(row) \notin {None, Steam[u]}
  /\ Begins(p, [kind |-> "relink", who |-> u, seen |-> Link(row), keep |-> keep])
  /\ UNCHANGED <<user, login>>

Override(j) == IF j.keep THEN IF j.seen[1] # None THEN j.seen[1] ELSE j.seen[2] ELSE None
linkedAfter(j) == <<Override(j), IF j.keep THEN j.seen[2] ELSE None>>
Before(j) == [v2 |-> j.seen[1], legacy |-> j.seen[2]]
accountId(j) == IF j.keep THEN Override(j) ELSE Steam[j.who]

\* dotaAccountClaimWhere
Collides(j) == \E w \in Users \ {j.who} :
  user[w].here /\ Override(j) \in {user[w].v2, user[w].legacy, Steam[w]}

Cleared(row) == [(IF row.manual THEN row ELSE NoMedal(row)) EXCEPT !.stats = None]
Relinked(j, row) ==
  LET moved == [row EXCEPT !.v2 = linkedAfter(j)[1], !.legacy = linkedAfter(j)[2]] IN
  IF effective(j.who, Before(j)) # accountId(j) THEN Cleared(moved) ELSE moved

Fetches(j) == [kind |-> "link", who |-> j.who, seen |-> linkedAfter(j), account |-> accountId(j),
               todo |-> IF accountId(j) = None THEN {"clear"} ELSE {"medal", "stats"}]
desiredLinkIsCurrent(j) == Link(user'[j.who]) = linkedAfter(j)
Goes(p) == jobs' = [jobs EXCEPT ![p] = IF desiredLinkIsCurrent(jobs[p]) THEN Fetches(jobs[p]) ELSE None]

Relink(p) ==
  LET j == jobs[p]
      others == IF j.keep THEN user ELSE Retired(j.who, user)
      written == {u \in Users : others[u] # user[u]} \cup {j.who} IN
  /\ jobs[p] # None /\ jobs[p].kind = "relink"
  /\ ~(j.keep /\ Collides(j))
  /\ written \cap Held = {}
  /\ user' = IF Link(user[j.who]) = j.seen
               THEN [others EXCEPT ![j.who] = Relinked(j, @)] ELSE others
  /\ Goes(p)
  /\ UNCHANGED <<login, started>>

\* a collision, or a conflict with another transaction
RelinkFails(p) ==
  /\ jobs[p] # None /\ jobs[p].kind = "relink"
  /\ UNCHANGED user
  /\ IF jobs[p].keep /\ Collides(jobs[p]) THEN jobs' = [jobs EXCEPT ![p] = None] ELSE Goes(p)
  /\ UNCHANGED <<login, started>>

-----------------------------------------------------------------------------
(* OpenDota's answers                                                      *)

refreshOpenDotaProfileFor(p, u) ==
  /\ user[u].here /\ effective(u, user[u]) # None
  /\ Begins(p, Ask("refresh", u, user[u], {"medal", "stats"}))
  /\ UNCHANGED <<user, login>>

syncOneRank(p, u) ==
  /\ user[u].here /\ effective(u, user[u]) # None
  /\ Begins(p, Ask("sync", u, user[u], {"medal", "stats"}))
  /\ UNCHANGED <<user, login>>

\* the first signup of a user without a medal
saveRegistration(p, u) ==
  /\ user[u].here /\ effective(u, user[u]) # None
  /\ user[u].medal = None /\ ~user[u].manual
  /\ Begins(p, Ask("ensure", u, user[u], {"medal"}))
  /\ UNCHANGED <<user, login>>

Done(p, s) == jobs' = [jobs EXCEPT ![p] =
  IF jobs[p].todo = {s} THEN None ELSE [jobs[p] EXCEPT !.todo = @ \ {s}]]

AnyLink(j) == TRUE
\* the guards the writes repeat: still the link that was asked about
SameLink(j) == Link(user[j.who]) = j.seen
NotManual(j) == ~user[j.who].manual

MayStoreMedal(j, t) ==
  /\ SameLink(j) /\ NotManual(j)
  /\ j.kind = "sync" => t # None
  /\ j.kind = "ensure" => t # None /\ user[j.who].medal = None

StoreMedal(p) == \E t \in Tiers \cup {None} :
  LET j == jobs[p] IN
  /\ Kind(p) /\ "medal" \in j.todo /\ j.who \notin Held
  /\ MayStoreMedal(j, t)
  /\ user' = [user EXCEPT ![j.who].medal = t,
                ![j.who].from = IF t = None THEN None ELSE j.account]
  /\ Done(p, "medal")
  /\ UNCHANGED <<login, started>>

StoreStats(p) ==
  LET j == jobs[p] IN
  /\ Kind(p) /\ "stats" \in j.todo /\ j.who \notin Held
  /\ SameLink(j)
  /\ j.kind = "ensure" => user[j.who].stats = None
  /\ user' = [user EXCEPT ![j.who].stats = j.account]
  /\ Done(p, "stats")
  /\ UNCHANGED <<login, started>>

\* no account can be derived: nothing may stay of the one before
ClearMetadata(p) ==
  LET j == jobs[p] IN
  /\ Kind(p) /\ "clear" \in j.todo /\ j.who \notin Held
  /\ SameLink(j)
  /\ user' = [user EXCEPT ![j.who] = Cleared(@)]
  /\ Done(p, "clear")
  /\ UNCHANGED <<login, started>>

\* a cooldown, an unreachable provider, or a write whose guard fails
Skip(p) == \E s \in {"medal", "stats", "clear"} :
  /\ Kind(p) /\ s \in jobs[p].todo
  /\ s = "clear" => ~SameLink(jobs[p])
  /\ Done(p, s)
  /\ UNCHANGED <<user, login, started>>

-----------------------------------------------------------------------------
(* admin-roster.ts: an admin's medal                                       *)

setPlayerRank(p, u) == \E mode \in Modes :
  /\ user[u].here
  /\ mode = "automatic" /\ user[u].manual => effective(u, user[u]) # None
  /\ Begins(p, [kind |-> "rank", who |-> u, shown |-> user[u], mode |-> mode])
  /\ UNCHANGED <<user, login>>

AsShown(j) ==
  LET row == user[j.who] IN
  Link(row) = Link(j.shown) /\ row.medal = j.shown.medal /\ row.manual = j.shown.manual

SaveRank(p) == \E t \in Tiers \cup {None} :
  LET j == jobs[p]
      fetched == j.mode = "automatic" /\ j.shown.manual
      row == user[j.who] IN
  /\ jobs[p] # None /\ jobs[p].kind = "rank" /\ j.who \notin Held
  /\ AsShown(j)
  /\ j.mode = "automatic" /\ ~j.shown.manual => t = row.medal
  /\ user' = [user EXCEPT ![j.who] =
       [row EXCEPT !.medal = t, !.manual = j.mode = "manual",
          !.from = IF j.mode = "manual" THEN Admin
                   ELSE IF ~fetched THEN @
                   ELSE IF t = None THEN None ELSE effective(j.who, j.shown)]]
  /\ jobs' = [jobs EXCEPT ![p] = None]
  /\ UNCHANGED <<login, started>>

RankRefused(p) ==
  /\ jobs[p] # None /\ jobs[p].kind = "rank"
  /\ jobs' = [jobs EXCEPT ![p] = None]
  /\ UNCHANGED <<user, login, started>>

-----------------------------------------------------------------------------
\* overrides older releases let a user type are anybody's account
OldRow(u, row) == \E v2 \in Accounts \cup {None}, legacy \in Fits \cup {None}, m \in Tiers \cup {None} :
  LET link == [Blank("USER") EXCEPT !.v2 = v2, !.legacy = legacy] IN
  row = [link EXCEPT !.medal = m, !.from = IF m = None THEN None ELSE effective(u, link)]

Unique(column(_), rows) == \A u, w \in Early :
  u # w /\ column(rows[u]) # None => column(rows[u]) # column(rows[w])

Init ==
  /\ user \in {rows \in [Users -> {r \in [here : BOOLEAN, v2 : Accounts \cup {None},
                   legacy : Fits \cup {None}, medal : Tiers \cup {None},
                   from : Accounts \cup {None}, manual : {FALSE}, stats : {None}, role : {"USER"}] :
                 r = Absent \/ \E u \in Early : OldRow(u, r)}] :
       /\ \A u \in Users : IF u \in Early THEN OldRow(u, rows[u]) ELSE rows[u] = Absent
       /\ Unique(LAMBDA r : r.v2, rows) /\ Unique(LAMBDA r : r.legacy, rows)}
  /\ tx = [p \in Procs |-> NoRows]
  /\ boot = None /\ booting = None
  /\ jobs = [p \in Procs |-> None] /\ started = 0
  /\ verified = {}

Steps(p) ==
  \/ RetireClaims(p) \/ ClaimBootstrap(p) \/ Publish(p) \/ RollBack(p)
  \/ Relink(p) \/ RelinkFails(p)
  \/ StoreMedal(p) \/ StoreStats(p) \/ ClearMetadata(p) \/ Skip(p)
  \/ SaveRank(p) \/ RankRefused(p)
Requests(p, u) ==
  \/ SignIn(p, u) \/ updateDotaAccount(p, u)
  \/ refreshOpenDotaProfileFor(p, u) \/ syncOneRank(p, u) \/ saveRegistration(p, u)
  \/ setPlayerRank(p, u)
Next == \E p \in Procs : Steps(p) \/ \E u \in Users : Requests(p, u)
Spec == Init /\ [][Next]_vars

-----------------------------------------------------------------------------
\* Every row, account and medal is one the database could hold, and only an
\* open login holds rows.
TypeOK ==
  /\ user \in [Users -> [here : BOOLEAN, v2 : Accounts \cup {None}, legacy : Fits \cup {None},
       medal : Tiers \cup {None}, from : Accounts \cup {None, Admin}, manual : BOOLEAN,
       stats : Accounts \cup {None}, role : {"USER", "ADMIN"}]]
  /\ \A p \in Procs : DOMAIN tx[p] # {} => LoggingIn(p)
  /\ verified \subseteq Users /\ started \in 0..MaxJobs

\* A medal that no admin set came from the account the profile now stands
\* for, whoever relinked, signed in or fetched meanwhile (the guards that
\* registration.ts:1209, users.ts:216 and player-data-refresh.ts:101 repeat).
MedalIsTheirs == \A u \in Users :
  user[u].medal # None /\ ~user[u].manual => user[u].from = effective(u, user[u])

\* The scouting snapshot is of the account the profile now stands for.
StatsAreTheirs == \A u \in Users :
  user[u].stats # None => user[u].stats = effective(u, user[u])

\* A medal marked as an admin's is the one the admin chose, also when a fetch
\* was in flight as they chose it (player-data-refresh.ts:98).
ManualIsTheAdmins == \A u \in Users : user[u].manual => user[u].from = Admin

\* Once a user has signed in, nobody else's profile stands for the account
\* their Steam id proves (users.ts:99).
OneOwner == \A u \in verified : \A w \in Users \ {u} :
  user[w].here /\ Steam[u] # None => effective(w, user[w]) # Steam[u]

\* However many people sign in to an empty development server at once, one
\* becomes its admin (users.ts:116).
OneBootstrapAdmin == Cardinality({u \in Users : user[u].role = "ADMIN"}) <= 1

\* What every state of the links and medals keeps.
AccountsAreSound == TypeOK /\ MedalIsTheirs /\ StatsAreTheirs /\ ManualIsTheAdmins /\ OneBootstrapAdmin
=============================================================================
