---------------------------- MODULE InhouseNights ----------------------------
(***************************************************************************)
(* The planned inhouse night: one Setting row that administrators replace  *)
(* by compare-and-swap on the value they read, the Discord event that goes *)
(* with it, the players' "I'm in" rows and the worker's start post.        *)
(* Nothing of it runs in a transaction: every statement and every Discord  *)
(* call is a step of its own, and other requests come in between.          *)
(*                                                                         *)
(* A night's note is left out but for the fact that a save may change it.  *)
(***************************************************************************)
EXTENDS Integers, FiniteSets

CONSTANTS Admins, Players, Workers, None,
          Times,       \* when a night may be set to start
          MaxNow,      \* the clock's bound
          Window,      \* how long after the start the post may go out
          MaxNights,   \* bound on nights planned
          MaxSaves,    \* bound on writes of the row by administrators
          MaxFaults,   \* bound on refused or lost calls, crashes and lapsed claims
          MaxByHand,   \* bound on events deleted in Discord itself
          SwiftPrunes  \* a save's prune follows its swap at once

NightAssumption ==
  /\ Times \subseteq Nat /\ MaxNow \in Nat /\ Window \in Nat
  /\ MaxNights \in Nat /\ MaxSaves \in Nat /\ MaxFaults \in Nat /\ MaxByHand \in Nat
  /\ SwiftPrunes \in BOOLEAN

VARIABLES night,    \* the Setting row, parsed
          rsvps,    \* InhouseNightRsvp rows
          markers,  \* the start markers
          events,   \* the events in Discord
          posts,    \* the start posts of the channel
          jobs,     \* what each process is doing
          now,
          made, saves, faults, byHand
vars == <<night, rsvps, markers, events, posts, jobs, now, made, saves, faults, byHand>>
data == <<night, rsvps, markers, events, posts>>
counts == <<made, saves, faults, byHand>>

Everyone == Admins \cup Players \cup Workers
At(p, step) == jobs[p] # None /\ jobs[p].step = step
Goes(p, job) == jobs' = [jobs EXCEPT ![p] = job]

upcoming(n) == now < n.at
View(n) == IF n = None THEN None ELSE [id |-> n.id, rev |-> n.rev]

-----------------------------------------------------------------------------
(* The row                                                                 *)

\* an administrator opens the page
OpenPage(p) ==
  /\ p \in Admins /\ jobs[p] = None /\ saves < MaxSaves
  /\ Goes(p, [step |-> "page", view |-> View(night)])
  /\ UNCHANGED <<data, now, counts>>

inhouseNightChange(n, at) ==
  IF n = None \/ (n # None => ~upcoming(n)) THEN "new" ELSE IF n.at # at THEN "moved" ELSE "note"

\* a stale page is refused here
ReadSave(p) == \E at \in Times :
  /\ At(p, "page") /\ at > now
  /\ Goes(p, IF View(night) # jobs[p].view THEN None
             ELSE [step |-> "save", raw |-> night, at |-> at,
                   change |-> inhouseNightChange(night, at)])
  /\ UNCHANGED <<data, now, counts>>

nextInhouseNight(raw, change, at) ==
  IF change = "new" THEN [id |-> made + 1, at |-> at, rev |-> 0, event |-> None]
  ELSE [raw EXCEPT !.at = at, !.rev = @ + 1]

SameNight(raw) == night # None /\ raw # None /\ night.id = raw.id
\* (a bug: the write does not compare the row with what was read)
SwapsAnyway(raw) == raw = raw
\* the row still holds exactly what was read
Unswapped(raw) == night = raw

Others(id) == {r \in rsvps : r[1] = id}

saveInhouseNight(p) ==
  LET j == jobs[p]
      next == nextInhouseNight(j.raw, j.change, j.at) IN
  /\ At(p, "save") /\ saves < MaxSaves
  /\ j.change = "new" => made < MaxNights
  /\ IF Unswapped(j.raw)
     THEN /\ night' = next
          /\ saves' = saves + 1
          /\ made' = IF j.change = "new" THEN made + 1 ELSE made
          /\ rsvps' = IF SwiftPrunes /\ j.change = "new" THEN Others(next.id) ELSE rsvps
          /\ Goes(p, [step |-> IF j.change = "new" /\ ~SwiftPrunes THEN "prune" ELSE "publish",
                      saved |-> next])
     ELSE Goes(p, None) /\ UNCHANGED <<night, rsvps, saves, made>>
  /\ UNCHANGED <<markers, events, posts, now, faults, byHand>>

\* the last night's list goes
PruneOthers(p) ==
  /\ At(p, "prune")
  /\ rsvps' = Others(jobs[p].saved.id)
  /\ Goes(p, [jobs[p] EXCEPT !.step = "publish"])
  /\ UNCHANGED <<night, markers, events, posts, now, counts>>

ReadClear(p) ==
  /\ At(p, "page")
  /\ Goes(p, IF View(night) # jobs[p].view \/ night = None THEN None
             ELSE [step |-> "clear", raw |-> night])
  /\ UNCHANGED <<data, now, counts>>

clearInhouseNight(p) ==
  /\ At(p, "clear") /\ saves < MaxSaves
  /\ IF Unswapped(jobs[p].raw)
     THEN night' = None /\ saves' = saves + 1 /\ Goes(p, [step |-> "pruneOf", cleared |-> jobs[p].raw])
     ELSE Goes(p, None) /\ UNCHANGED <<night, saves>>
  /\ UNCHANGED <<rsvps, markers, events, posts, now, made, faults, byHand>>

Left(id) == {r \in rsvps : r[1] # id}
PruneOf(p) ==
  /\ At(p, "pruneOf")
  /\ rsvps' = Left(jobs[p].cleared.id)
  /\ Goes(p, [jobs[p] EXCEPT !.step = "withdraw"])
  /\ UNCHANGED <<night, markers, events, posts, now, counts>>

-----------------------------------------------------------------------------
(* The Discord event                                                       *)

Listed(e) == \E x \in events : x.id = e

\* publishInhouseNight updates the event the saved night has
UpdateEvent(p) ==
  LET n == jobs[p].saved IN
  /\ At(p, "publish") /\ n.event # None /\ Listed(n.event)
  /\ events' = {IF x.id = n.event THEN [x EXCEPT !.at = n.at] ELSE x : x \in events}
  /\ Goes(p, None)
  /\ UNCHANGED <<night, rsvps, markers, posts, now, counts>>

CreateEvent(p) ==
  LET n == jobs[p].saved
      \* ids never come back: the save that created it and its revision
      e == <<n.id, n.rev, p>> IN
  /\ At(p, "publish") /\ (n.event # None => ~Listed(n.event))
  /\ events' = events \cup {[id |-> e, at |-> n.at]}
  /\ Goes(p, [step |-> "attach", saved |-> n, event |-> e])
  /\ UNCHANGED <<night, rsvps, markers, posts, now, counts>>

attachInhouseNightEvent(p) ==
  LET j == jobs[p] IN
  /\ At(p, "attach")
  /\ IF Unswapped(j.saved)
     THEN night' = [j.saved EXCEPT !.event = j.event] /\ Goes(p, None)
     ELSE night' = night /\ Goes(p, [step |-> "delete", event |-> j.event])
  /\ UNCHANGED <<rsvps, markers, events, posts, now, counts>>

\* withdrawInhouseNight: a night that began is left to end on its own
Withdraw(p) ==
  LET n == jobs[p].cleared IN
  /\ At(p, "withdraw")
  /\ Goes(p, IF upcoming(n) /\ n.event # None THEN [step |-> "delete", event |-> n.event] ELSE None)
  /\ UNCHANGED <<data, now, counts>>

DeleteEvent(p) ==
  /\ At(p, "delete")
  /\ events' = {x \in events : x.id # jobs[p].event}
  /\ Goes(p, None)
  /\ UNCHANGED <<night, rsvps, markers, posts, now, counts>>

\* Discord refuses the call, or does not answer
Refuses(p) ==
  /\ At(p, "publish") \/ At(p, "delete")
  /\ faults < MaxFaults /\ faults' = faults + 1
  /\ Goes(p, None)
  /\ UNCHANGED <<data, now, made, saves, byHand>>

\* somebody deletes the event in Discord
ByHand == \E x \in events :
  /\ byHand < MaxByHand /\ byHand' = byHand + 1
  /\ events' = events \ {x}
  /\ UNCHANGED <<night, rsvps, markers, posts, jobs, now, made, saves, faults>>

-----------------------------------------------------------------------------
(* Players: setInhouseNightRsvp                                            *)

\* the night of the page is still planned and not yet on
SayIn(u) ==
  /\ u \in Players /\ jobs[u] = None
  /\ night # None /\ upcoming(night)
  /\ <<night.id, u>> \notin rsvps
  /\ Goes(u, [step |-> "in", id |-> night.id])
  /\ UNCHANGED <<data, now, counts>>

Insert(u) ==
  /\ At(u, "in")
  /\ rsvps' = rsvps \cup {<<jobs[u].id, u>>}
  /\ Goes(u, None)
  /\ UNCHANGED <<night, markers, events, posts, now, counts>>

TakeBack(u) == \E r \in rsvps :
  /\ u \in Players /\ jobs[u] = None /\ r[2] = u
  /\ rsvps' = rsvps \ {r}
  /\ UNCHANGED <<night, markers, events, posts, jobs, now, counts>>

-----------------------------------------------------------------------------
(* The worker: announceInhouseNightStart                                   *)

Due(n) == now >= n.at /\ now < n.at + Window
Key(n) == <<n.id, n.at>>
Marked(k) == {m \in markers : m.key = k}
\* a failed marker, or a claim whose lease ran out
recoverable(m) == m.state \in {"failed", "lapsed"}

ReadStart(w) ==
  /\ w \in Workers /\ jobs[w] = None
  /\ night # None /\ Due(night)
  /\ \A m \in Marked(Key(night)) : recoverable(m)
  /\ Goes(w, [step |-> "claim", night |-> night])
  /\ UNCHANGED <<data, now, counts>>

claimAnnouncementMarker(w) ==
  LET k == Key(jobs[w].night) IN
  /\ At(w, "claim")
  /\ IF \E m \in Marked(k) : ~recoverable(m)
     THEN markers' = markers /\ Goes(w, None)
     ELSE /\ markers' = (markers \ Marked(k)) \cup {[key |-> k, state |-> "claimed", by |-> w]}
          /\ Goes(w, [jobs[w] EXCEPT !.step = "reread"])
  /\ UNCHANGED <<night, rsvps, events, posts, now, counts>>

Owned(w) == {m \in Marked(Key(jobs[w].night)) : m.state = "claimed" /\ m.by = w}
Ended(w, state) == markers' = (markers \ Owned(w)) \cup {[m EXCEPT !.state = state] : m \in Owned(w)}

\* the night is still the one that was claimed, and still due
StillDue(w) ==
  /\ night # None /\ night.id = jobs[w].night.id /\ night.at = jobs[w].night.at
  /\ Due(night)

Reread(w) ==
  /\ At(w, "reread")
  /\ IF StillDue(w) THEN markers' = markers /\ Goes(w, [jobs[w] EXCEPT !.step = "send"])
     ELSE markers' = markers \ Owned(w) /\ Goes(w, None)
  /\ UNCHANGED <<night, rsvps, events, posts, now, counts>>

\* the post pings those whose "I'm in" is for this night
Send(w) ==
  LET n == jobs[w].night IN
  /\ At(w, "send")
  /\ posts' = posts \cup {[key |-> Key(n), by |-> w, pings |-> {r[2] : r \in {x \in rsvps : x[1] = n.id}}]}
  /\ Goes(w, [jobs[w] EXCEPT !.step = "sent"])
  /\ UNCHANGED <<night, rsvps, markers, events, now, counts>>

SendFails(w) ==
  /\ At(w, "send") /\ faults < MaxFaults /\ faults' = faults + 1
  /\ Goes(w, [jobs[w] EXCEPT !.step = "failed"])
  /\ UNCHANGED <<data, now, made, saves, byHand>>

MarkSent(w) ==
  /\ At(w, "sent") /\ Ended(w, "sent") /\ Goes(w, None)
  /\ UNCHANGED <<night, rsvps, events, posts, now, counts>>
MarkFailed(w) ==
  /\ At(w, "failed") /\ Ended(w, "failed") /\ Goes(w, None)
  /\ UNCHANGED <<night, rsvps, events, posts, now, counts>>

-----------------------------------------------------------------------------
(* The clock and the host                                                  *)

Tick == now < MaxNow /\ now' = now + 1 /\ UNCHANGED <<data, jobs, counts>>

\* a process dies; the lease of a claim it held runs out later
Crash(p) ==
  /\ jobs[p] # None /\ faults < MaxFaults /\ faults' = faults + 1
  /\ Goes(p, None)
  /\ UNCHANGED <<data, now, made, saves, byHand>>

Lapse == \E m \in markers :
  /\ m.state = "claimed" /\ jobs[m.by] = None
  /\ markers' = (markers \ {m}) \cup {[m EXCEPT !.state = "lapsed"]}
  /\ UNCHANGED <<night, rsvps, events, posts, jobs, now, counts>>

Init ==
  /\ night = None /\ rsvps = {} /\ markers = {} /\ events = {} /\ posts = {}
  /\ jobs = [p \in Everyone |-> None]
  /\ now = 0 /\ made = 0 /\ saves = 0 /\ faults = 0 /\ byHand = 0

Manages(p) ==
  \/ OpenPage(p) \/ ReadSave(p) \/ saveInhouseNight(p) \/ PruneOthers(p)
  \/ ReadClear(p) \/ clearInhouseNight(p) \/ PruneOf(p)
Publishes(p) ==
  \/ UpdateEvent(p) \/ CreateEvent(p) \/ attachInhouseNightEvent(p)
  \/ Withdraw(p) \/ DeleteEvent(p) \/ Refuses(p)
Announces(w) ==
  \/ ReadStart(w) \/ claimAnnouncementMarker(w) \/ Reread(w)
  \/ Send(w) \/ SendFails(w) \/ MarkSent(w) \/ MarkFailed(w)

Next ==
  \/ \E p \in Admins : Manages(p) \/ Publishes(p)
  \/ \E u \in Players : SayIn(u) \/ Insert(u) \/ TakeBack(u)
  \/ \E w \in Workers : Announces(w)
  \/ \E p \in Everyone : Crash(p)
  \/ Tick \/ ByHand \/ Lapse
Spec == Init /\ [][Next]_vars

-----------------------------------------------------------------------------
Managed == \A p \in Admins : jobs[p] = None

\* Rows, events and markers are whole, and an attached event is of the night
\* it is attached to.
TypeOK ==
  /\ night # None => /\ night.id \in 1..made /\ night.at \in Times
                     /\ night.event # None => night.event[1] = night.id
  /\ \A r \in rsvps : r[1] \in 1..made /\ r[2] \in Players
  /\ \A m \in markers : m.state \in {"claimed", "failed", "lapsed", "sent"}
  /\ \A k \in {m.key : m \in markers} : Cardinality(Marked(k)) = 1
  /\ now \in 0..MaxNow /\ saves <= MaxSaves /\ faults <= MaxFaults

\* With nothing in flight and no call lost, Discord lists only the planned
\* night's event and events that have begun (inhouse-night-service.ts:192: an
\* event whose night changed is deleted by the save that made it).
NoOrphanEvent == Managed /\ faults = 0 =>
  \A x \in events : x.at <= now \/ (night # None /\ night.event = x.id)

\* With nothing in flight, no call lost and nothing deleted in Discord, the
\* planned night has its event: a save that lost the attach has a later save
\* behind it that publishes its own.
NightHasItsEvent == Managed /\ faults = 0 /\ byHand = 0 =>
  (night # None => night.event # None /\ Listed(night.event))

\* The event tells the planned night's time (inhouse-night-service.ts:226: the
\* save is followed by the event's update).
EventTellsTheTime == Managed /\ faults = 0 =>
  (night # None => \A x \in events : x.id = night.event => x.at = night.at)

\* A save replaces exactly the night its page showed: nothing another
\* administrator wrote since, the attached event included, is lost.
SavedAsShown == 
  \A p \in Admins : (At(p, "save") \/ At(p, "clear")) /\ night' # night
    /\ jobs'[p] # jobs[p] => night = jobs[p].raw

\* Nobody but the player takes an "I'm in" off the planned night's list
\* (inhouse-night-service.ts:176: a prune that runs late must not take a newer
\* night's list with it).
PlannedListStays == 
  \A r \in rsvps \ rsvps' : night' # None /\ r[1] = night'.id => TakeBack(r[2])

\* A night's start is posted once, unless a fault came between a post and its
\* mark.
PostedOnce == Cardinality(posts) <= Cardinality({x.key : x \in posts}) + faults

\* What every state, and every step, of the nights keeps.
NightsAreSound == TypeOK /\ NoOrphanEvent /\ NightHasItsEvent /\ PostedOnce
NightStep == SavedAsShown /\ PlannedListStays
=============================================================================
