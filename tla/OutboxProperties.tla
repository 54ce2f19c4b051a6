-------------------------- MODULE OutboxProperties --------------------------
(* What the league channel's queue and its markers promise. *)
EXTENDS LeagueOutbox

Snapshot == [pc : {"idle", "move", "start"}, ms : [Night -> Marker], queued : SUBSET (0 .. MaxRev)]
\* Types of the whole state.
TypeOK ==
  /\ rev \in 0 .. MaxRev /\ phase \in {"setup", "live", "over"} /\ past \subseteq Night
  /\ marker \in [Night -> Marker] /\ events \in Event
  /\ rows \in Seq(Row) /\ Len(rows) <= MaxRows
  /\ heard \in Seq(Nat) /\ Len(heard) = Len(rows)
  /\ DOMAIN faults = 0 .. Len(rows) /\ \A k \in DOMAIN faults : faults[k] \in Nat
  /\ admin \in Snapshot
  /\ \A p \in Producer :
       /\ prod[p].pc \in {"idle", "claim", "reclaim", "reread", "send", "sent", "failed"}
       /\ prod[p].rev \in Night /\ prod[p].event \in Event /\ prod[p].seen \in Marker
  /\ \A w \in Worker :
       /\ work[w].row \in 0 .. Len(rows)
       /\ work[w].pc \in {"idle", "swept", "picked", "leased", "checked", "yes", "no", "never"}

\* A post reaches the channel once, and once more for each crash, lost answer
\* or lease that ran out under its sender: whatever passes run at once, nothing
\* else can repeat it.
DuplicatesExplained == \A k \in DOMAIN rows : heard[k] <= 1 + faults[k]

\* A row that no fault touched says what became of it: SENT if and only if
\* Discord accepted it (its sender may still have to write that down).  A post
\* dropped by an admin, an expiry or its source was never sent.
OutcomeIsRecorded ==
  \A k \in DOMAIN rows : faults[k] = 0 =>
    (heard[k] = 1 <=> \/ rows[k].status = "SENT"
                      \/ \E w \in Worker : work[w] = [pc |-> "yes", row |-> k])

\* One night's reminder is one row of the queue, whatever passes, crashed
\* claims and retries produced it.
OneRowPerNight ==
  \A i, j \in DOMAIN rows : rows[i].rev = rows[j].rev /\ rows[i].rev > 0 => i = j

\* A post is accepted only once every earlier one is settled, though a lease
\* runs out under its sender: "accepted" never lands before "proposed".
InCreationOrder ==
  \A k \in DOMAIN heard :
       heard'[k] > heard[k] => \A i \in 1 .. k - 1 : ~Waiting(i)

\* A settled row is history: no late pass, sweep or admin changes it.
SettledStays ==
  \A k \in DOMAIN rows : ~Waiting(k) => rows'[k].status = rows[k].status

\* When a pass decides to send a reminder, its night is still the season's and
\* the auction has not begun: a time the admin has changed is not announced.
NeverAnOldNight ==
  \A w \in Worker :
       work[w].pc = "leased" /\ work'[w].pc = "checked" =>
         LET r == rows[work[w].row].rev IN r = 0 \/ (r = rev /\ phase = "setup")

\* A post taken back stays taken back: once its night's marker no longer names
\* its event (an admin moved the night or began the auction), no reclaim, late
\* outcome or lapsed lease makes the marker name it again, and no pass decides
\* to send it.
WithdrawnStays ==
  \A k \in DOMAIN rows : LET r == rows[k].rev  e == rows[k].event IN
    r # 0 /\ ~OwnsEvent(marker[r], e) =>
      /\ ~OwnsEvent(marker'[r], e)
      /\ \A w \in Worker :
           work[w] = [pc |-> "leased", row |-> k] => work'[w].pc # "checked"

-----------------------------------------------------------------------------
(* Liveness.  The cron job and every request start passes again and again, a *)
(* claim and a lease run out, and a Discord and a database that fail do not  *)
(* fail for ever.                                                            *)
Fairness ==
  /\ \A p \in Producer : WF_vars(Produces(p)) /\ SF_vars(Enqueues(p))
  /\ \A w \in Worker : WF_vars(Delivers(w)) /\ SF_vars(ChecksSource(w)) /\ SF_vars(Accepts(w))
  /\ \A k \in 1 .. MaxRows : WF_vars(BecomesDue(k)) /\ WF_vars(RowLapses(k))
  /\ \A r \in Night : WF_vars(MarkerLapses(r))
  /\ WF_vars(ChangeCommits) /\ WF_vars(ChangeAborts)
FairSpec == Spec /\ Fairness

Queues(k) == k \in DOMAIN rows /\ Waiting(k)
\* Every post leaves the queue: a sender that died holds the queue up only
\* until its lease runs out.
QueueDrains == \A k \in 1 .. MaxRows : Queues(k) ~> ~Queues(k)

\* A night that stays due has its reminder queued (or covered by the admin's
\* own announcement), though claimants die and inserts fail.
NightIsAnnounced ==
  \A r \in Night : (Due /\ rev = r) ~>
    (~(Due /\ rev = r) \/ marker[r].kind = "sent" \/ \E k \in DOMAIN rows : rows[k].rev = r)

\* What every state, and every step, of the queue keeps.
OutboxIsSound == TypeOK /\ DuplicatesExplained /\ OutcomeIsRecorded /\ OneRowPerNight
OutboxStep == SettledStays /\ InCreationOrder /\ WithdrawnStays /\ NeverAnOldNight
=============================================================================
