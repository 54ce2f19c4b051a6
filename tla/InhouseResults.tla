--------------------------- MODULE InhouseResults ---------------------------
(***************************************************************************)
(* What becomes of a played inhouse game: its Dota match is found and      *)
(* recorded (by scans and by admins, at the same time), its Elo is stamped *)
(* afterwards, an admin may void it, and the result and the correction are *)
(* posted to Discord by delivery passes that lease one post each.          *)
(*                                                                         *)
(* The recording, the void and the reconciler are transactions whose lock  *)
(* on the lobby's row makes each one step; between them, and between the   *)
(* statements of a delivery pass, anything may happen.                     *)
(***************************************************************************)
EXTENDS Integers, FiniteSetsExt

CONSTANTS Lobby, Match, Scan, Worker,
          MaxFaults,  \* crashes and lost answers
          Older,      \* lobbies completed by an older writer, without a post
          None

ResultsAssumption ==
  /\ Lobby # {} /\ Match # {} /\ Older \subseteq Lobby
  /\ MaxFaults \in Nat /\ None \notin Match \cup Worker

Kind == {"RESULT", "RESULT_VOIDED"}
Landing == {"PLAYING", "AWAITING_RESULT"}   \* where a result can still land

VARIABLES
  status, match, elo,  \* of each lobby; elo: the match its stamp was made for
  rows,                \* InhouseAnnouncement by lobby and kind
  heard,               \* how often Discord accepted each
  scan, work,          \* the recordings and the delivery passes
  faults               \* of each post, and crashes of recordings (under None)

vars == <<status, match, elo, rows, heard, scan, work, faults>>

Post == Lobby \X Kind
Absent == [status |-> "none", match |-> None, due |-> FALSE, token |-> None, lapsed |-> FALSE]
Pending(m) == [Absent EXCEPT !.status = "PENDING", !.match = m, !.due = TRUE]
Open(k) == rows[k].status \in {"PENDING", "SENDING"}
Spent == MapThenSumSet(LAMBDA k : faults[k], DOMAIN faults)

-----------------------------------------------------------------------------
(* Recording *)

ScanReads(x) ==
  /\ scan[x].pc = "idle"
  /\ \E l \in Lobby, m \in Match :
       status[l] \in Landing /\ scan' = [scan EXCEPT ![x] = [pc |-> "claim", lobby |-> l, match |-> m]]
  /\ UNCHANGED <<status, match, elo, rows, heard, work, faults>>

Lands(l) == status[l] \in Landing
\* Mutant: no unique index on dotaMatchId.
TakenNever(m) == FALSE
Taken(m) == \E l \in Lobby : match[l] = m
\* The claim and the RESULT post commit together, or neither does.
Records(x) ==
  LET l == scan[x].lobby  m == scan[x].match IN
  /\ scan[x].pc = "claim"
  /\ IF Lands(l) /\ ~Taken(m)
     THEN /\ status' = [status EXCEPT ![l] = "COMPLETED"] /\ match' = [match EXCEPT ![l] = m]
          /\ rows' = [rows EXCEPT ![<<l, "RESULT">>] = Pending(m)]
          /\ scan' = [scan EXCEPT ![x].pc = "elo"]
     ELSE scan' = [scan EXCEPT ![x].pc = "idle"] /\ UNCHANGED <<status, match, rows>>
  /\ UNCHANGED <<elo, heard, work, faults>>

Stampable(l, m) == status[l] = "COMPLETED" /\ match[l] = m
\* After a scan of the whole history, the stamp is claimed.
Stamps(x) ==
  LET l == scan[x].lobby  m == scan[x].match IN
  /\ scan[x].pc = "elo"
  /\ elo' = IF Stampable(l, m) THEN [elo EXCEPT ![l] = m] ELSE elo
  /\ scan' = [scan EXCEPT ![x].pc = "idle"]
  /\ UNCHANGED <<status, match, rows, heard, work, faults>>

\* The reconciler finishes a recording whose request died, and one an older
\* writer left without its post.
Unfinished(l) ==
  LET row == rows[<<l, "RESULT">>] IN
  /\ status[l] = "COMPLETED" /\ rows[<<l, "RESULT_VOIDED">>].status = "none"
  /\ \/ row.status = "none"
     \/ row.match = match[l] /\ row.status # "CANCELLED" /\ elo[l] = None
Repaired(l) == IF rows[<<l, "RESULT">>].status = "none"
               THEN [rows EXCEPT ![<<l, "RESULT">>] = Pending(match[l])] ELSE rows
Reconciles(l) ==
  /\ Unfinished(l)
  /\ elo' = [elo EXCEPT ![l] = match[l]] /\ rows' = Repaired(l)
  /\ UNCHANGED <<status, match, heard, scan, work, faults>>

-----------------------------------------------------------------------------
(* The people *)

GameOver(l) == /\ status[l] = "PLAYING" /\ status' = [status EXCEPT ![l] = "AWAITING_RESULT"]
               /\ UNCHANGED <<match, elo, rows, heard, scan, work, faults>>
\* An admin's cancel or give-up, or the sweep of abandoned games.
Scraps(l) == /\ status[l] \in Landing /\ status' = [status EXCEPT ![l] = "CANCELLED"]
             /\ UNCHANGED <<match, elo, rows, heard, scan, work, faults>>

Recallable == {"PENDING"}
\* A result nobody is sending is cancelled; the correction waits behind one
\* that somebody is.
Voids(l) ==
  /\ status[l] = "COMPLETED"
  /\ status' = [status EXCEPT ![l] = "CANCELLED"]
  /\ match' = [match EXCEPT ![l] = None] /\ elo' = [elo EXCEPT ![l] = None]
  /\ rows' = [rows EXCEPT
       ![<<l, "RESULT">>] = IF @.status \in Recallable THEN [@ EXCEPT !.status = "CANCELLED"] ELSE @,
       ![<<l, "RESULT_VOIDED">>] = Pending(match[l])]
  /\ UNCHANGED <<heard, scan, work, faults>>

-----------------------------------------------------------------------------
(* Delivery *)

\* Mutant: a lease that has not lapsed is taken over.
EligibleAny(k) == rows[k].status = "SENDING" \/ (rows[k].status = "PENDING" /\ rows[k].due)
Eligible(k) == \/ rows[k].status = "PENDING" /\ rows[k].due
               \/ rows[k].status = "SENDING" /\ rows[k].lapsed
\* A post is worth sending while it is still true.
Current(k) == LET l == k[1] IN
  IF k[2] = "RESULT" THEN status[l] = "COMPLETED" /\ match[l] = rows[k].match
                     ELSE status[l] = "CANCELLED"
Behind(k) == k[2] = "RESULT_VOIDED" /\ Open(<<k[1], "RESULT">>)

\* A pass loads an eligible post, and what its lobby was then.
Loads(w) ==
  /\ work[w].pc = "idle"
  /\ \E k \in Post : Eligible(k) /\ work' = [work EXCEPT ![w] = [pc |-> "loaded", post |-> k, current |-> Current(k)]]
  /\ UNCHANGED <<status, match, elo, rows, heard, scan, faults>>
Waits(w) ==
  /\ work[w].pc = "loaded"
  /\ work' = [work EXCEPT ![w].pc = IF Behind(work[w].post) THEN "idle"
                                    ELSE IF work[w].current THEN "claim" ELSE "cancel"]
  /\ UNCHANGED <<status, match, elo, rows, heard, scan, faults>>
Cancels(w) ==
  LET k == work[w].post IN
  /\ work[w].pc = "cancel" /\ work' = [work EXCEPT ![w].pc = "idle"]
  /\ rows' = IF Eligible(k)
             THEN [rows EXCEPT ![k] = [@ EXCEPT !.status = "CANCELLED", !.token = None, !.lapsed = FALSE]]
             ELSE rows
  /\ UNCHANGED <<status, match, elo, heard, scan, faults>>
Leasable(k) == Eligible(k) /\ Current(k)
Claims(w) ==
  LET k == work[w].post IN
  /\ work[w].pc = "claim"
  /\ IF Leasable(k)
     THEN /\ rows' = [rows EXCEPT ![k] = [@ EXCEPT !.status = "SENDING", !.token = w,
                                                   !.due = FALSE, !.lapsed = FALSE]]
          /\ work' = [work EXCEPT ![w].pc = "send"]
     ELSE work' = [work EXCEPT ![w].pc = "idle"] /\ UNCHANGED rows
  /\ UNCHANGED <<status, match, elo, heard, scan, faults>>

\* Discord accepts (the answer may be lost) or fails.
Sends(w) ==
  LET k == work[w].post IN
  /\ work[w].pc = "send"
  /\ \/ /\ heard' = [heard EXCEPT ![k] = @ + 1]
        /\ \/ work' = [work EXCEPT ![w].pc = "yes"] /\ UNCHANGED faults
           \/ /\ Spent < MaxFaults /\ faults' = [faults EXCEPT ![k] = @ + 1]
              /\ work' = [work EXCEPT ![w].pc = "no"]
     \/ work' = [work EXCEPT ![w].pc = "no"] /\ UNCHANGED <<heard, faults>>
  /\ UNCHANGED <<status, match, elo, rows, scan>>

Holds(w) == LET row == rows[work[w].post] IN row.status = "SENDING" /\ row.token = w
Settle(w, to) == LET k == work[w].post IN
  rows' = IF Holds(w) THEN [rows EXCEPT ![k] = [@ EXCEPT !.status = to, !.token = None, !.lapsed = FALSE]]
          ELSE rows
Completes(w) ==
  /\ work[w].pc = "yes" /\ Settle(w, "SENT") /\ work' = [work EXCEPT ![w].pc = "idle"]
  /\ UNCHANGED <<status, match, elo, heard, scan, faults>>
\* A failed post is retried while it is still true.
Rereads(w) ==
  /\ work[w].pc = "no"
  /\ work' = [work EXCEPT ![w] = [@ EXCEPT !.pc = "retry", !.current = Current(work[w].post)]]
  /\ UNCHANGED <<status, match, elo, rows, heard, scan, faults>>
AfterFailure(w) == IF work[w].current THEN "PENDING" ELSE "CANCELLED"
Retries(w) ==
  /\ work[w].pc = "retry" /\ Settle(w, AfterFailure(w)) /\ work' = [work EXCEPT ![w].pc = "idle"]
  /\ UNCHANGED <<status, match, elo, heard, scan, faults>>

-----------------------------------------------------------------------------
BecomesDue(k) == /\ rows[k].status = "PENDING" /\ ~rows[k].due
                 /\ rows' = [rows EXCEPT ![k].due = TRUE]
                 /\ UNCHANGED <<status, match, elo, heard, scan, work, faults>>
\* A pass of four posts at 5 s each ends well within its 30 s lease.
Lapses(k) == /\ rows[k].status = "SENDING" /\ ~rows[k].lapsed
             /\ ~\E w \in Worker : work[w].post = k /\ rows[k].token = w
                                   /\ work[w].pc \in {"send", "yes", "no", "retry"}
             /\ rows' = [rows EXCEPT ![k].lapsed = TRUE]
             /\ UNCHANGED <<status, match, elo, heard, scan, work, faults>>
IdleWork(w) == [work EXCEPT ![w].pc = "idle"]
Crashes ==
  /\ Spent < MaxFaults
  /\ \/ \E w \in Worker : /\ work[w].pc # "idle" /\ work' = IdleWork(w)
                          /\ faults' = [faults EXCEPT ![work[w].post] = @ + 1] /\ UNCHANGED scan
     \/ \E x \in Scan : /\ scan[x].pc # "idle" /\ scan' = [scan EXCEPT ![x].pc = "idle"]
                        /\ faults' = [faults EXCEPT ![None] = @ + 1] /\ UNCHANGED work
  /\ UNCHANGED <<status, match, elo, rows, heard>>

Init ==
  LET l0 == CHOOSE l \in Lobby : TRUE  m0 == CHOOSE m \in Match : TRUE IN
  /\ \E old \in {{}} \cup {{l} : l \in Older} :
       /\ status = [l \in Lobby |-> IF l \in old THEN "COMPLETED" ELSE "PLAYING"]
       /\ match = [l \in Lobby |-> IF l \in old THEN m0 ELSE None]
  /\ elo = [l \in Lobby |-> None]
  /\ rows = [k \in Post |-> Absent] /\ heard = [k \in Post |-> 0]
  /\ scan = [x \in Scan |-> [pc |-> "idle", lobby |-> l0, match |-> m0]]
  /\ work = [w \in Worker |-> [pc |-> "idle", post |-> <<l0, "RESULT">>, current |-> FALSE]]
  /\ faults = [k \in Post \cup {None} |-> 0]

Recording(x) == ScanReads(x) \/ Records(x) \/ Stamps(x)
Delivers(w) == Loads(w) \/ Waits(w) \/ Cancels(w) \/ Claims(w) \/ Sends(w)
               \/ Completes(w) \/ Rereads(w) \/ Retries(w)
Next == \/ \E l \in Lobby : GameOver(l) \/ Scraps(l) \/ Voids(l) \/ Reconciles(l)
        \/ (\E x \in Scan : Recording(x)) \/ (\E w \in Worker : Delivers(w))
        \/ (\E k \in Post : BecomesDue(k) \/ Lapses(k)) \/ Crashes
Spec == Init /\ [][Next]_vars

-----------------------------------------------------------------------------
Statuses == {"none", "PENDING", "SENDING", "SENT", "CANCELLED"}
\* Types of the whole state.
TypeOK ==
  /\ status \in [Lobby -> Landing \cup {"COMPLETED", "CANCELLED"}]
  /\ match \in [Lobby -> Match \cup {None}] /\ elo \in [Lobby -> Match \cup {None}]
  /\ heard \in [Post -> Nat] /\ faults \in [Post \cup {None} -> Nat]
  /\ \A k \in Post : /\ rows[k].status \in Statuses /\ rows[k].match \in Match \cup {None}
                     /\ (rows[k].token = None <=> rows[k].status # "SENDING")
  /\ \A x \in Scan : scan[x].pc \in {"idle", "claim", "elo"}
  /\ \A w \in Worker : work[w].pc \in {"idle", "loaded", "claim", "cancel", "send", "yes", "no", "retry"}

\* A Dota match is one game's result, though two games are scanned at once; it
\* is free again when that result is voided.
OneLobbyPerMatch ==
  \A l, k \in Lobby : match[l] # None /\ match[l] = match[k] => l = k

\* Elo is only ever the Elo of the result the game now has: a slow stamp never
\* lands on a game that was voided, or recorded anew, meanwhile.
EloIsOfResult == \A l \in Lobby : elo[l] # None => status[l] = "COMPLETED" /\ elo[l] = match[l]

\* A cancelled game never comes back as a result.
CancelledStays == \A l \in Lobby : status[l] = "CANCELLED" => status'[l] = "CANCELLED"

\* Once a result is voided no pass begins to post it.
VoidedIsNotLeased ==
  \A l \in Lobby, w \in Worker :
       rows'[<<l, "RESULT">>].token = w /\ rows[<<l, "RESULT">>].token # w
         => status[l] = "COMPLETED" /\ match[l] = rows[<<l, "RESULT">>].match

\* The channel's last word is the truth: no result is accepted after its
\* correction, however the passes, crashes and the void interleave.
CorrectionIsLast ==
  \A l \in Lobby : heard'[<<l, "RESULT">>] > heard[<<l, "RESULT">>]
        => heard[<<l, "RESULT_VOIDED">>] = 0

\* A post is repeated only for a crash or a lost answer.
DuplicatesExplained == \A k \in Post : heard[k] <= 1 + faults[k]

ResultsAreSound == TypeOK /\ OneLobbyPerMatch /\ EloIsOfResult /\ DuplicatesExplained
ResultStep == CancelledStays /\ VoidedIsNotLeased /\ CorrectionIsLast

-----------------------------------------------------------------------------
(* The minute worker and every request run the reconciler and delivery passes; *)
(* Discord answers again and again.                                            *)
Fairness ==
  /\ \A l \in Lobby : WF_vars(Reconciles(l))
  /\ \A x \in Scan : WF_vars(Records(x) \/ Stamps(x))
  /\ \A w \in Worker : WF_vars(Delivers(w)) /\ SF_vars(Sends(w) /\ heard' # heard)
                       /\ \A k \in Post : SF_vars(Loads(w) /\ work'[w].post = k)
  /\ \A k \in Post : WF_vars(BecomesDue(k)) /\ WF_vars(Lapses(k))
FairSpec == Spec /\ Fairness

\* A result is posted and its Elo stamped, though the request that recorded it
\* died in between, unless it is voided first.
ResultIsFinished ==
  \A l \in Lobby : status[l] = "COMPLETED" ~>
    (status[l] = "CANCELLED" \/ (heard[<<l, "RESULT">>] > 0 /\ elo[l] # None))
\* A voided result is corrected in the channel, also when a sender died with
\* the result in its hands.
VoidIsCorrected ==
  \A l \in Lobby : rows[<<l, "RESULT_VOIDED">>].status = "PENDING" ~>
    heard[<<l, "RESULT_VOIDED">>] > 0
=============================================================================
