---------------------------- MODULE LeagueOutbox ----------------------------
(***************************************************************************)
(* The league channel's Discord queue and the once-only markers that feed  *)
(* it, through the announcement that uses all of both: the draft-night     *)
(* reminder.  An admin moves the night, the automation pass claims a marker*)
(* for that night and queues one post, and delivery passes (one per        *)
(* request, one per minute worker) lease the oldest post and send it.      *)
(*                                                                         *)
(* Every statement of a pass is a step of its own, because none runs in a  *)
(* transaction with another; setDraftNight and startDraft are SERIALIZABLE *)
(* transactions, a step that reads and a step that commits.  Discord has   *)
(* no idempotency key: an answer can be lost after the post was accepted.  *)
(***************************************************************************)
EXTENDS Integers, Sequences, FiniteSets, FiniteSetsExt

CONSTANTS Worker,     \* delivery passes that run at the same time
          Producer,   \* automation passes that run at the same time
          MaxRev,     \* horizon: draft nights
          MaxRows,    \* horizon: posts
          MaxEvents,  \* horizon: marker generations
          MaxFaults,  \* crashes, lost answers and lapsed leases
          Faults,     \* of "crash", "lost", "slow"
          Overlaps,   \* an admin's transaction may overlap a producer's steps
          None

OutboxAssumption ==
  /\ MaxRev \in Nat \ {0} /\ MaxRows \in Nat /\ MaxEvents \in Nat /\ MaxFaults \in Nat
  /\ Faults \subseteq {"crash", "lost", "slow"} /\ Overlaps \in BOOLEAN
  /\ None \notin Worker \cup Producer

VARIABLES
  rev,     \* Season.draftRevision
  phase,   \* the auction: "setup", "live" or "over"
  past,    \* the nights whose time has passed
  marker,  \* Setting rows: the marker of each night, or none
  events,  \* event ids drawn so far
  rows,    \* LeagueAnnouncement, in creation order
  heard,   \* how often Discord accepted each row
  admin,   \* the admin's open transaction and the markers it read
  prod,    \* the automation passes
  work,    \* the delivery passes
  faults   \* lapses and lost answers of each row, and crashes (row 0)

vars == <<rev, phase, past, marker, events, rows, heard, admin, prod, work, faults>>

Night == 1 .. MaxRev
Event == 0 .. MaxEvents
Row == [rev : 0 .. MaxRev, event : Event,
        status : {"PENDING", "SENDING", "SENT", "CANCELLED"}, due : BOOLEAN,
        stale : BOOLEAN, token : Worker \cup {None}, lapsed : BOOLEAN]
\* An absent marker has kind "none".  A claim carries its owner and its lease.
Marker == [kind : {"none", "claim", "failed", "sent"}, event : Event,
           owner : Producer \cup {None}, lapsed : BOOLEAN]
NoMarker == [kind |-> "none", event |-> 0, owner |-> None, lapsed |-> FALSE]

Waiting(k) == rows[k].status \in {"PENDING", "SENDING"}
Open(k)    == Waiting(k)
\* A post is dropped once its night has passed or its group has ended.
Expired(k) == rows[k].stale \/ rows[k].rev \in past
Due        == phase = "setup" /\ rev > 0 /\ rev \notin past
Spent      == MapThenSumSet(LAMBDA k : faults[k], DOMAIN faults)

-----------------------------------------------------------------------------
(* Markers *)

Recoverable(m) == m.kind = "failed" \/ (m.kind = "claim" /\ m.lapsed)

OwnsEvent(m, e) == m.kind # "none" /\ m.event = e

\* What a change of the night drops: claims, failures, and delivered markers
\* whose post still waits in the queue.
Removable(ms, queued) ==
  {r \in Night : ms[r].kind \in {"claim", "failed"} \/ (ms[r].kind # "none" /\ r \in queued)}

ProducersMayStep == Overlaps \/ admin.pc = "idle"

\* The automation pass looks at the season and its marker.
Looks(p) ==
  /\ prod[p].pc = "idle" /\ Due /\ ProducersMayStep
  /\ marker[rev].kind = "none" \/ Recoverable(marker[rev])
  /\ prod' = [prod EXCEPT ![p] = [@ EXCEPT !.pc = "claim", !.rev = rev]]
  /\ UNCHANGED <<rev, phase, past, marker, events, rows, heard, admin, work, faults>>

Claimed(p, e) == [kind |-> "claim", event |-> e, owner |-> p, lapsed |-> FALSE]
\* INSERT ... ON CONFLICT DO NOTHING, then a look at whoever was there first.
Claims(p) ==
  LET r == prod[p].rev IN
  /\ prod[p].pc = "claim" /\ ProducersMayStep
  /\ IF marker[r].kind = "none"
     THEN /\ events < MaxEvents
          /\ events' = events + 1
          /\ marker' = [marker EXCEPT ![r] = Claimed(p, events + 1)]
          /\ prod' = [prod EXCEPT ![p] = [@ EXCEPT !.pc = "reread", !.event = events + 1]]
     ELSE /\ prod' = [prod EXCEPT ![p] =
                        IF Recoverable(marker[r])
                        THEN [@ EXCEPT !.pc = "reclaim", !.seen = marker[r]]
                        ELSE [@ EXCEPT !.pc = "idle"]]
          /\ UNCHANGED <<marker, events>>
  /\ UNCHANGED <<rev, phase, past, rows, heard, admin, work, faults>>

\* The retry keeps the event id, and writes only over the value it read.
Reclaims(p) ==
  LET r == prod[p].rev  won == marker[r] = prod[p].seen IN
  /\ prod[p].pc = "reclaim" /\ ProducersMayStep
  /\ marker' = IF won THEN [marker EXCEPT ![r] = Claimed(p, @.event)] ELSE marker
  /\ prod' = [prod EXCEPT ![p] =
                [@ EXCEPT !.pc = IF won THEN "reread" ELSE "idle",
                          !.event = prod[p].seen.event, !.seen = NoMarker]]
  /\ UNCHANGED <<rev, phase, past, events, rows, heard, admin, work, faults>>

Mine(p) == LET m == marker[prod[p].rev] IN
  m.kind = "claim" /\ m.event = prod[p].event /\ m.owner = p

\* Everything the post states is read again after the claim; a claim for a
\* night that is gone is released.
Rereads(p) ==
  LET r == prod[p].rev  ok == Due /\ rev = r IN
  /\ prod[p].pc = "reread" /\ ProducersMayStep
  /\ prod' = [prod EXCEPT ![p].pc = IF ok THEN "send" ELSE "idle"]
  /\ marker' = IF ~ok /\ Mine(p) THEN [marker EXCEPT ![r] = NoMarker] ELSE marker
  /\ UNCHANGED <<rev, phase, past, events, rows, heard, admin, work, faults>>

NewRow(r, e) == [rev |-> r, event |-> e, status |-> "PENDING", due |-> TRUE,
                 stale |-> FALSE, token |-> None, lapsed |-> FALSE]
Queued(e) == \E k \in DOMAIN rows : rows[k].event = e
Adds(row) ==
  /\ Len(rows) < MaxRows
  /\ rows' = Append(rows, row) /\ heard' = Append(heard, 0)
  /\ faults' = [k \in DOMAIN faults \cup {Len(rows) + 1} |->
                  IF k \in DOMAIN faults THEN faults[k] ELSE 0]

\* The post is queued once per event (an upsert on the dedupe key).
Enqueues(p) ==
  /\ prod[p].pc = "send" /\ ProducersMayStep
  /\ prod' = [prod EXCEPT ![p].pc = "sent"]
  /\ IF Queued(prod[p].event) THEN UNCHANGED <<rows, heard, faults>>
     ELSE Adds(NewRow(prod[p].rev, prod[p].event))
  /\ UNCHANGED <<rev, phase, past, marker, events, admin, work>>
\* The insert is refused, and the marker will be left failed.
EnqueueFails(p) ==
  /\ prod[p].pc = "send" /\ ProducersMayStep
  /\ prod' = [prod EXCEPT ![p].pc = "failed"]
  /\ UNCHANGED <<rev, phase, past, marker, events, rows, heard, admin, work, faults>>

\* markAnnouncementSent or markAnnouncementFailed, over the claim's own value.
Finalizes(p) ==
  LET r == prod[p].rev  kind == prod[p].pc IN
  /\ kind \in {"sent", "failed"} /\ ProducersMayStep
  /\ marker' = IF Mine(p)
               THEN [marker EXCEPT ![r] = [@ EXCEPT !.kind = kind, !.owner = None]]
               ELSE marker
  /\ prod' = [prod EXCEPT ![p].pc = "idle"]
  /\ UNCHANGED <<rev, phase, past, events, rows, heard, admin, work, faults>>

-----------------------------------------------------------------------------
(* The admin *)

QueuedNights == {rows[k].rev : k \in {j \in DOMAIN rows : Waiting(j)}}

\* The admin's transaction takes its snapshot.
ChangeOpens(goal) ==
  /\ admin.pc = "idle" /\ phase = "setup"
  /\ goal = "move" => rev < MaxRev
  /\ goal = "start" => rev > 0
  /\ admin' = [pc |-> goal, ms |-> marker, queued |-> QueuedNights]
  /\ UNCHANGED <<rev, phase, past, marker, events, rows, heard, prod, work, faults>>

\* A marker row's value: its lease running out writes nothing.
Value(m) == [m EXCEPT !.lapsed = FALSE]
Rewritten(ms, S) == {r \in S : Value(marker[r]) # Value(ms[r])}
\* It commits unless a marker it deletes was written since (40001).  A moved
\* night whose reminder was delivered may be recorded as covered.
ChangeCommits ==
  LET gone == Removable(admin.ms, admin.queued)
      left == [r \in Night |-> IF r \in gone THEN NoMarker ELSE marker[r]] IN
  /\ admin.pc # "idle"
  /\ Rewritten(admin.ms, gone) = {}
  /\ IF admin.pc = "move"
     THEN /\ rev' = rev + 1 /\ UNCHANGED phase
          /\ \/ marker' = left
             \/ /\ rev > 0 /\ rev \notin past
                /\ admin.ms[rev].kind # "none" /\ rev \notin gone
                /\ left[rev + 1].kind = "none"
                /\ marker' = [left EXCEPT ![rev + 1] = [NoMarker EXCEPT !.kind = "sent"]]
     ELSE phase' = "live" /\ marker' = left /\ UNCHANGED rev
  /\ admin' = [pc |-> "idle", ms |-> [r \in Night |-> NoMarker], queued |-> {}]
  /\ UNCHANGED <<past, events, rows, heard, prod, work, faults>>
ChangeAborts ==
  /\ admin.pc # "idle"
  /\ Rewritten(admin.ms, Removable(admin.ms, admin.queued)) # {}
  /\ admin' = [pc |-> "idle", ms |-> [r \in Night |-> NoMarker], queued |-> {}]
  /\ UNCHANGED <<rev, phase, past, marker, events, rows, heard, prod, work, faults>>

\* A post about the running auction, each a distinct action of a person.
AnnouncesLive ==
  /\ phase = "live" /\ Adds(NewRow(0, 0))
  /\ UNCHANGED <<rev, phase, past, marker, events, admin, prod, work>>

\* What no pass sends any more: waiting, or under a lease that has lapsed.
Droppable(k) == rows[k].status = "PENDING" \/ (rows[k].status = "SENDING" /\ rows[k].lapsed)
Dropped(row) == [row EXCEPT !.status = "CANCELLED", !.token = None, !.lapsed = FALSE]
DropAll(S, rs) == [k \in DOMAIN rs |-> IF k \in S THEN Dropped(rs[k]) ELSE rs[k]]

\* The auction ends: the posts of its group expire and are swept.
AuctionEnds ==
  LET live == {k \in DOMAIN rows : Waiting(k) /\ rows[k].rev = 0}
      out  == {k \in DOMAIN rows : Droppable(k) /\ (Expired(k) \/ k \in live)}
      marked == [k \in DOMAIN rows |->
                   IF k \in live THEN [rows[k] EXCEPT !.stale = TRUE] ELSE rows[k]] IN
  /\ phase = "live" /\ phase' = "over"
  /\ rows' = DropAll(out, marked)
  /\ UNCHANGED <<rev, past, marker, events, heard, admin, prod, work, faults>>

\* "Discard waiting posts", up to the newest one the admin was shown.
Discards ==
  /\ \E upTo \in DOMAIN rows :
       rows' = DropAll({k \in 1 .. upTo : Droppable(k)}, rows)
  /\ UNCHANGED <<rev, phase, past, marker, events, heard, admin, prod, work, faults>>

\* A saved webhook makes every waiting post due.
Resumes ==
  /\ \E k \in DOMAIN rows : rows[k].status = "PENDING" /\ ~rows[k].due
  /\ rows' = [k \in DOMAIN rows |->
                IF rows[k].status = "PENDING" THEN [rows[k] EXCEPT !.due = TRUE] ELSE rows[k]]
  /\ UNCHANGED <<rev, phase, past, marker, events, heard, admin, prod, work, faults>>

-----------------------------------------------------------------------------
(* Delivery *)

\* Mutant: a lease never keeps another pass away.
EligibleAny(k) == rows[k].status = "SENDING" \/ (rows[k].status = "PENDING" /\ rows[k].due)
Eligible(k) == \/ rows[k].status = "PENDING" /\ rows[k].due
               \/ rows[k].status = "SENDING" /\ rows[k].lapsed

\* A pass begins by dropping what has expired.
Sweeps(w) ==
  /\ work[w].pc = "idle" /\ \E k \in DOMAIN rows : Open(k)
  /\ rows' = DropAll({k \in DOMAIN rows : Droppable(k) /\ Expired(k)}, rows)
  /\ work' = [work EXCEPT ![w].pc = "swept"]
  /\ UNCHANGED <<rev, phase, past, marker, events, heard, admin, prod, faults>>

\* It finds the oldest post, if that one may be sent.
\* Mutant: the oldest post that may be sent.
FirstAny(k) == Eligible(k)
First(k) == Eligible(k) /\ \A i \in 1 .. k - 1 : ~Open(i)
Picks(w) ==
  /\ work[w].pc = "swept"
  /\ \/ \E k \in DOMAIN rows :
          First(k) /\ work' = [work EXCEPT ![w] = [@ EXCEPT !.pc = "picked", !.row = k]]
     \/ /\ ~\E k \in DOMAIN rows : First(k)
        /\ work' = [work EXCEPT ![w].pc = "idle"]
  /\ UNCHANGED <<rev, phase, past, marker, events, rows, heard, admin, prod, faults>>

Leases(w) ==
  LET k == work[w].row IN
  /\ work[w].pc = "picked"
  /\ IF Eligible(k)
     THEN /\ rows' = [rows EXCEPT ![k] = [@ EXCEPT !.status = "SENDING", !.due = FALSE,
                                                   !.token = w, !.lapsed = FALSE]]
          /\ work' = [work EXCEPT ![w].pc = "leased"]
     ELSE work' = [work EXCEPT ![w].pc = "swept"] /\ UNCHANGED rows
  /\ UNCHANGED <<rev, phase, past, marker, events, heard, admin, prod, faults>>

Holds(w) == rows[work[w].row].status = "SENDING" /\ rows[work[w].row].token = w
\* The outcome is written only over the pass's own lease.
Settle(w, status, due) ==
  LET k == work[w].row IN
  rows' = IF Holds(w)
          THEN [rows EXCEPT ![k] = [@ EXCEPT !.status = status, !.due = due,
                                             !.token = None, !.lapsed = FALSE]]
          ELSE rows

\* The source check: a post whose marker moved on is dropped.
ChecksSource(w) ==
  LET k == work[w].row  r == rows[k].rev IN
  /\ work[w].pc = "leased"
  /\ IF r = 0 \/ OwnsEvent(marker[r], rows[k].event)
     THEN work' = [work EXCEPT ![w].pc = "checked"] /\ UNCHANGED rows
     ELSE Settle(w, "CANCELLED", FALSE) /\ work' = [work EXCEPT ![w].pc = "swept"]
  /\ UNCHANGED <<rev, phase, past, marker, events, heard, admin, prod, faults>>
\* The check itself fails, and the post is retried.
CheckFails(w) ==
  /\ work[w].pc = "leased" /\ rows[work[w].row].rev # 0
  /\ Settle(w, "PENDING", FALSE) /\ work' = [work EXCEPT ![w].pc = "swept"]
  /\ UNCHANGED <<rev, phase, past, marker, events, heard, admin, prod, faults>>

\* Discord accepts the post.  Its answer may be lost.
Accepts(w) ==
  LET k == work[w].row IN
  /\ work[w].pc = "checked"
  /\ heard' = [heard EXCEPT ![k] = @ + 1]
  /\ \/ work' = [work EXCEPT ![w].pc = "yes"] /\ UNCHANGED faults
     \/ /\ "lost" \in Faults /\ Spent < MaxFaults
        /\ work' = [work EXCEPT ![w].pc = "no"]
        /\ faults' = [faults EXCEPT ![k] = @ + 1]
  /\ UNCHANGED <<rev, phase, past, marker, events, rows, admin, prod>>
\* It refuses the message for good, or for now (an outage, a dead webhook).
Refuses(w) ==
  /\ work[w].pc = "checked"
  /\ \E answer \in {"never", "no"} : work' = [work EXCEPT ![w].pc = answer]
  /\ UNCHANGED <<rev, phase, past, marker, events, rows, heard, admin, prod, faults>>

Settles(w) ==
  /\ \/ work[w].pc = "yes" /\ Settle(w, "SENT", FALSE)
     \/ work[w].pc = "never" /\ Settle(w, "CANCELLED", FALSE)
     \/ work[w].pc = "no" /\ Settle(w, "PENDING", FALSE)
  /\ work' = [work EXCEPT ![w].pc = "swept"]
  /\ UNCHANGED <<rev, phase, past, marker, events, heard, admin, prod, faults>>

-----------------------------------------------------------------------------
(* Time and crashes *)

Passes == /\ rev > 0 /\ rev \notin past /\ past' = past \cup {rev}
          /\ UNCHANGED <<rev, phase, marker, events, rows, heard, admin, prod, work, faults>>
BecomesDue(k) ==
  /\ k \in DOMAIN rows /\ rows[k].status = "PENDING" /\ ~rows[k].due
  /\ rows' = [rows EXCEPT ![k].due = TRUE]
  /\ UNCHANGED <<rev, phase, past, marker, events, heard, admin, prod, work, faults>>
\* A pass of four posts at 5 s each ends well within its 30 s lease, so a lease
\* lapses when its pass is dead, or slower than that ("slow").
RowLapses(k) ==
  LET alive == \E w \in Worker : work[w].row = k /\ rows[k].token = w
                  /\ work[w].pc \in {"leased", "checked", "yes", "no", "never"} IN
  /\ k \in DOMAIN rows /\ rows[k].status = "SENDING" /\ ~rows[k].lapsed
  /\ alive => "slow" \in Faults /\ Spent < MaxFaults
  /\ rows' = [rows EXCEPT ![k].lapsed = TRUE]
  /\ faults' = IF alive THEN [faults EXCEPT ![k] = @ + 1] ELSE faults
  /\ UNCHANGED <<rev, phase, past, marker, events, heard, admin, prod, work>>
MarkerLapses(r) ==
  LET alive == \E p \in Producer : marker[r].owner = p /\ prod[p].rev = r
                  /\ prod[p].pc \in {"reread", "send", "sent", "failed"} IN
  /\ marker[r].kind = "claim" /\ ~marker[r].lapsed
  /\ alive => "slow" \in Faults /\ Spent < MaxFaults
  /\ marker' = [marker EXCEPT ![r].lapsed = TRUE]
  /\ faults' = IF alive THEN [faults EXCEPT ![0] = @ + 1] ELSE faults
  /\ UNCHANGED <<rev, phase, past, events, rows, heard, admin, prod, work>>

IdleProd == [pc |-> "idle", rev |-> 1, event |-> 0, seen |-> NoMarker]
IdleWork == [pc |-> "idle", row |-> 0]
Crashes ==
  /\ "crash" \in Faults /\ Spent < MaxFaults
  /\ \/ \E w \in Worker :
          /\ work[w].pc # "idle" /\ work' = [work EXCEPT ![w] = IdleWork]
          /\ faults' = [faults EXCEPT ![work[w].row] = @ + 1]
          /\ UNCHANGED prod
     \/ \E p \in Producer :
          /\ prod[p].pc # "idle" /\ prod' = [prod EXCEPT ![p] = IdleProd]
          /\ faults' = [faults EXCEPT ![0] = @ + 1]
          /\ UNCHANGED work
  /\ UNCHANGED <<rev, phase, past, marker, events, rows, heard, admin>>

-----------------------------------------------------------------------------
Init ==
  /\ rev = 0 /\ phase = "setup" /\ past = {}
  /\ marker = [r \in Night |-> NoMarker] /\ events = 0
  /\ rows = <<>> /\ heard = <<>>
  /\ admin = [pc |-> "idle", ms |-> [r \in Night |-> NoMarker], queued |-> {}]
  /\ prod = [p \in Producer |-> IdleProd] /\ work = [w \in Worker |-> IdleWork]
  /\ faults = [k \in {0} |-> 0]

Produces(p) == Looks(p) \/ Claims(p) \/ Reclaims(p) \/ Rereads(p)
               \/ Enqueues(p) \/ EnqueueFails(p) \/ Finalizes(p)
Delivers(w) == Sweeps(w) \/ Picks(w) \/ Leases(w) \/ ChecksSource(w) \/ CheckFails(w)
               \/ Accepts(w) \/ Refuses(w) \/ Settles(w)
Administers == (\E goal \in {"move", "start"} : ChangeOpens(goal)) \/ ChangeCommits
               \/ ChangeAborts \/ AnnouncesLive \/ AuctionEnds \/ Discards \/ Resumes
Lapses == (\E k \in 1 .. MaxRows : RowLapses(k)) \/ \E r \in Night : MarkerLapses(r)
Next == \/ \E p \in Producer : Produces(p)
        \/ \E w \in Worker : Delivers(w)
        \/ Administers \/ Passes \/ (\E k \in 1 .. MaxRows : BecomesDue(k)) \/ Lapses \/ Crashes
Spec == Init /\ [][Next]_vars
=============================================================================
