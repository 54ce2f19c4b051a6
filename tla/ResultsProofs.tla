---------------------------- MODULE ResultsProofs ----------------------------
(***************************************************************************)
(* A played inhouse game's result, for any number of games, matches, scans *)
(* and delivery passes.  The inductive invariant says who may hold a post: *)
(* a pass that is sending one holds its lease, a correction is under way   *)
(* only when the result's post is closed, and an acceptance that no fault  *)
(* explains is still in the hands of the pass that heard it.               *)
(***************************************************************************)
EXTENDS InhouseResults, TLAPS

Row == [status : Statuses, match : Match \cup {None}, due : BOOLEAN,
        token : Worker \cup {None}, lapsed : BOOLEAN]
ScanPc == {"idle", "claim", "elo"}
WorkPc == {"idle", "loaded", "claim", "cancel", "send", "yes", "no", "retry"}
Scanning == [pc : ScanPc, lobby : Lobby, match : Match]
Working  == [pc : WorkPc, post : Post, current : BOOLEAN]
Statii   == Landing \cup {"COMPLETED", "CANCELLED"}

Typed ==
  /\ status \in [Lobby -> Statii]
  /\ match \in [Lobby -> Match \cup {None}] /\ elo \in [Lobby -> Match \cup {None}]
  /\ rows \in [Post -> Row]
  /\ heard \in [Post -> Nat] /\ faults \in [Post \cup {None} -> Nat]
  /\ scan \in [Scan -> Scanning] /\ work \in [Worker -> Working]
\* Only a post being sent has a token.
TokenWhileSending == \A k \in Post : rows[k].token = None <=> rows[k].status # "SENDING"
\* A game with a match is one with a result.
MatchedWhenOver == \A l \in Lobby : match[l] # None <=> status[l] = "COMPLETED"

Sending == {"send", "yes", "no", "retry"}
\* A pass between its claim and its last statement holds the lease.
LeaseIsHeld ==
  \A w \in Worker : work[w].pc \in Sending => Holds(w) /\ ~rows[work[w].post].lapsed
\* A result's post begins with the result, a correction's with the void.
PostsComeInOrder ==
  /\ \A l \in Lobby : status[l] \in Landing => rows[<<l, "RESULT">>].status = "none"
  /\ \A l \in Lobby : rows[<<l, "RESULT_VOIDED">>].status # "none" => status[l] = "CANCELLED"
\* A post in a pass's hands was queued.
LoadedWasQueued ==
  \A w \in Worker : work[w].pc # "idle" => rows[work[w].post].status # "none"
\* A correction goes out, or has gone out, only when the result's post is closed.
CorrectionWaits ==
  \A l \in Lobby : Open(<<l, "RESULT">>) =>
     /\ heard[<<l, "RESULT_VOIDED">>] = 0
     /\ \A w \in Worker : work[w].pc \in {"claim"} \cup Sending => work[w].post # <<l, "RESULT_VOIDED">>
\* One acceptance beyond the faults: of a post closed, or still to be closed by the
\* pass that heard it.
Told(k) == \E w \in Worker : work[w].pc = "yes" /\ work[w].post = k
AcceptedOnce ==
  \A k \in Post : /\ rows[k].status = "none" => heard[k] = 0
                  /\ heard[k] <= 1 + faults[k]
                  /\ rows[k].status \in {"PENDING", "SENDING"} /\ ~Told(k) => heard[k] <= faults[k]

ResultsInv ==
  /\ Typed /\ TokenWhileSending /\ MatchedWhenOver
  /\ OneLobbyPerMatch /\ EloIsOfResult
  /\ LeaseIsHeld /\ PostsComeInOrder /\ LoadedWasQueued /\ CorrectionWaits /\ AcceptedOnce

-----------------------------------------------------------------------------
LEMMA NoneApart == ASSUME ResultsAssumption PROVE None \notin Match /\ None \notin Worker
BY DEF ResultsAssumption

LEMMA InitInv == ASSUME ResultsAssumption, Init PROVE ResultsInv
<1>1. Absent \in Row
  BY DEF Absent, Row, Statuses
<1>2. Typed
  <2>1. (CHOOSE l \in Lobby : TRUE) \in Lobby /\ (CHOOSE m \in Match : TRUE) \in Match
    BY DEF ResultsAssumption
  <2>2. QED
    BY <1>1, <2>1 DEF Init, Typed, Statii, Landing, Scanning, Working, ScanPc, WorkPc, Post, Kind
<1>3. MatchedWhenOver /\ OneLobbyPerMatch
  <2>1. (CHOOSE m \in Match : TRUE) \in Match
    BY DEF ResultsAssumption
  <2>2. QED
    BY <2>1, NoneApart DEF Init, MatchedWhenOver, OneLobbyPerMatch
<1>4. TokenWhileSending /\ EloIsOfResult /\ LeaseIsHeld /\ LoadedWasQueued
  BY DEF Init, TokenWhileSending, EloIsOfResult, LeaseIsHeld, LoadedWasQueued, Absent, Sending
<1>5. PostsComeInOrder /\ CorrectionWaits
  BY DEF Init, PostsComeInOrder, CorrectionWaits, Absent, Post, Kind, Open, Landing
<1>6. AcceptedOnce
  BY DEF Init, AcceptedOnce, Absent, Post
<1>7. QED
  BY <1>2, <1>3, <1>4, <1>5, <1>6 DEF ResultsInv

\* A row's next value is a row.
LEMMA RowTyped ==
  ASSUME NEW r \in Row, NEW s \in Statuses, NEW t \in Worker \cup {None}
  PROVE  /\ [r EXCEPT !.status = s] \in Row
         /\ [r EXCEPT !.status = s, !.token = t, !.lapsed = FALSE] \in Row
         /\ [r EXCEPT !.status = s, !.token = t, !.due = FALSE, !.lapsed = FALSE] \in Row
         /\ [r EXCEPT !.due = TRUE] \in Row /\ [r EXCEPT !.lapsed = TRUE] \in Row
<1>1. FALSE \in BOOLEAN /\ TRUE \in BOOLEAN
  OBVIOUS
<1>2. QED
  BY <1>1, Zenon DEF Row

\* So is a recording's, and a pass's.
LEMMA ScanTyped ==
  ASSUME Typed, NEW x \in Scan, NEW p \in ScanPc
  PROVE  [scan EXCEPT ![x].pc = p] \in [Scan -> Scanning]
<1>1. ASSUME NEW r \in Scanning PROVE [r EXCEPT !.pc = p] \in Scanning
  BY Zenon DEF Scanning
<1>2. QED
  BY <1>1 DEF Typed
LEMMA WorkTyped ==
  ASSUME Typed, NEW w \in Worker, NEW p \in WorkPc
  PROVE  [work EXCEPT ![w].pc = p] \in [Worker -> Working]
<1>1. ASSUME NEW r \in Working PROVE [r EXCEPT !.pc = p] \in Working
  BY Zenon DEF Working
<1>2. QED
  BY <1>1 DEF Typed

\* Nothing but the scans, and the count of faults, moves.
LEMMA OnlyScansMove ==
  ASSUME ResultsInv, UNCHANGED <<status, match, elo, rows, heard, work>>,
         scan' \in [Scan -> Scanning], faults' \in [Post \cup {None} -> Nat],
         \A k \in Post : faults'[k] >= faults[k]
  PROVE  ResultsInv'
<1>1. (Typed /\ TokenWhileSending /\ MatchedWhenOver /\ OneLobbyPerMatch /\ EloIsOfResult)'
  BY DEF ResultsInv, Typed, TokenWhileSending, MatchedWhenOver, OneLobbyPerMatch, EloIsOfResult
<1>2. (LeaseIsHeld /\ PostsComeInOrder /\ LoadedWasQueued /\ CorrectionWaits)'
  BY DEF ResultsInv, LeaseIsHeld, Holds, PostsComeInOrder, LoadedWasQueued, CorrectionWaits, Open
<1>3. AcceptedOnce'
  BY DEF ResultsInv, Typed, AcceptedOnce, Told
<1>4. QED
  BY <1>1, <1>2, <1>3 DEF ResultsInv

LEMMA ScanReadsKeeps ==
  ASSUME ResultsInv, NEW x \in Scan, ScanReads(x)
  PROVE  ResultsInv'
<1>1. PICK l \in Lobby, m \in Match : scan' = [scan EXCEPT ![x] = [pc |-> "claim", lobby |-> l, match |-> m]]
  BY DEF ScanReads
<1>2. scan' \in [Scan -> Scanning]
  BY <1>1 DEF ResultsInv, Typed, Scanning, ScanPc
<1>3. QED
  BY <1>2, OnlyScansMove DEF ScanReads, ResultsInv, Typed

LEMMA RecordsKeeps ==
  ASSUME ResultsAssumption, ResultsInv, NEW x \in Scan, Records(x)
  PROVE  ResultsInv'
<1> DEFINE l == scan[x].lobby  m == scan[x].match  k == <<l, "RESULT">>
<1>1. l \in Lobby /\ m \in Match /\ k \in Post /\ Pending(m) \in Row
  BY DEF ResultsInv, Typed, Scanning, Post, Kind, Pending, Absent, Row, Statuses
<1>2. Typed'
  <2>1. \A p \in ScanPc : [scan EXCEPT ![x].pc = p] \in [Scan -> Scanning]
    BY ScanTyped DEF ResultsInv
  <2>2. scan' \in [Scan -> Scanning]
    BY <2>1 DEF Records, ScanPc
  <2>a. rows' = rows \/ rows' = [rows EXCEPT ![k] = Pending(m)]
    BY DEF Records
  <2>3. rows' \in [Post -> Row]
    BY <1>1, <2>a DEF ResultsInv, Typed
  <2>b. status' \in [Lobby -> Statii] /\ match' \in [Lobby -> Match \cup {None}]
    BY <1>1 DEF ResultsInv, Typed, Records, Statii
  <2>4. QED
    BY <2>2, <2>3, <2>b DEF ResultsInv, Typed, Records
<1>3. CASE ~(Lands(l) /\ ~Taken(m))
  <2>1. UNCHANGED <<status, match, elo, rows, heard, work, faults>>
    BY <1>3 DEF Records
  <2>2. QED
    BY <1>2, <2>1 DEF ResultsInv, TokenWhileSending, MatchedWhenOver, OneLobbyPerMatch, EloIsOfResult,
         LeaseIsHeld, Holds, PostsComeInOrder, LoadedWasQueued, CorrectionWaits, Open, AcceptedOnce, Told
<1>4. CASE Lands(l) /\ ~Taken(m)
  <2>1. /\ status' = [status EXCEPT ![l] = "COMPLETED"] /\ match' = [match EXCEPT ![l] = m]
        /\ rows' = [rows EXCEPT ![k] = Pending(m)]
        /\ UNCHANGED <<elo, heard, work, faults>>
    BY <1>4 DEF Records
  <2>2. status[l] \in Landing /\ rows[k].status = "none"
    BY <1>1, <1>4 DEF Lands, ResultsInv, PostsComeInOrder
  <2>3. rows'[k].status = "PENDING" /\ rows'[k].token = None
    BY <1>1, <2>1 DEF ResultsInv, Typed, Pending, Absent
  <2>4. \A j \in Post : j # k => rows'[j] = rows[j]
    BY <2>1, <1>1 DEF ResultsInv, Typed
  <2>5. (TokenWhileSending /\ MatchedWhenOver /\ OneLobbyPerMatch /\ EloIsOfResult)'
    BY <1>1, <1>4, <2>1, <2>2, <2>3, <2>4, NoneApart DEF ResultsInv, Typed, TokenWhileSending, MatchedWhenOver,
         OneLobbyPerMatch, EloIsOfResult, Landing, Taken
  <2>6. (LeaseIsHeld /\ LoadedWasQueued)'
    BY <1>1, <2>1, <2>2, <2>3, <2>4 DEF ResultsInv, Typed, Working, LeaseIsHeld, LoadedWasQueued, Holds
  <2>7. PostsComeInOrder'
    BY <1>1, <2>1, <2>2, <2>3, <2>4 DEF ResultsInv, Typed, PostsComeInOrder, Post, Kind, Landing
  <2>a. rows[<<l, "RESULT_VOIDED">>].status = "none" /\ <<l, "RESULT_VOIDED">> \in Post
    BY <1>1, <2>2 DEF ResultsInv, PostsComeInOrder, Post, Kind, Landing
  <2>b. CorrectionWaits'
    <3>1. SUFFICES ASSUME NEW j \in Lobby, Open(<<j, "RESULT">>)'
                   PROVE  /\ heard[<<j, "RESULT_VOIDED">>] = 0
                          /\ \A w \in Worker : work[w].pc \in {"claim"} \cup Sending => work[w].post # <<j, "RESULT_VOIDED">>
      BY <2>1 DEF CorrectionWaits
    <3>2. CASE j = l
      BY <3>2, <2>a DEF ResultsInv, AcceptedOnce, LoadedWasQueued, Sending
    <3>3. CASE j # l
      BY <3>1, <3>3, <1>1, <2>4 DEF ResultsInv, CorrectionWaits, Open, Post, Kind
    <3>4. QED
      BY <3>2, <3>3
  <2>8. AcceptedOnce'
    BY <1>1, <2>1, <2>2, <2>3, <2>4 DEF ResultsInv, Typed, AcceptedOnce, Told
  <2>9. QED
    BY <1>2, <2>5, <2>6, <2>7, <2>b, <2>8 DEF ResultsInv
<1>5. QED
  BY <1>3, <1>4

LEMMA StampsKeeps ==
  ASSUME ResultsInv, NEW x \in Scan, Stamps(x)
  PROVE  ResultsInv'
<1> DEFINE l == scan[x].lobby  m == scan[x].match
<1>1. l \in Lobby /\ m \in Match /\ scan' \in [Scan -> Scanning]
  <2>1. [scan EXCEPT ![x].pc = "idle"] \in [Scan -> Scanning]
    BY ScanTyped DEF ResultsInv, Typed, ScanPc
  <2>2. QED
    BY <2>1 DEF ResultsInv, Typed, Scanning, Stamps
<1>2. elo' = elo \/ (Stampable(l, m) /\ elo' = [elo EXCEPT ![l] = m])
  BY DEF Stamps
<1>3. Typed' /\ EloIsOfResult'
  BY <1>1, <1>2 DEF ResultsInv, Typed, EloIsOfResult, Stampable, Stamps
<1>4. (TokenWhileSending /\ MatchedWhenOver /\ OneLobbyPerMatch)'
  BY DEF ResultsInv, TokenWhileSending, MatchedWhenOver, OneLobbyPerMatch, Stamps
<1>5. (LeaseIsHeld /\ PostsComeInOrder /\ LoadedWasQueued /\ CorrectionWaits /\ AcceptedOnce)'
  BY DEF ResultsInv, LeaseIsHeld, Holds, PostsComeInOrder, LoadedWasQueued, CorrectionWaits, Open,
         AcceptedOnce, Told, Stamps
<1>6. QED
  BY <1>3, <1>4, <1>5 DEF ResultsInv

\* GameOver and Scraps.
LEMMA StatusMoves ==
  ASSUME ResultsInv, NEW l \in Lobby, GameOver(l) \/ Scraps(l)
  PROVE  ResultsInv'
<1>1. status[l] \in Landing /\ UNCHANGED <<match, elo, rows, heard, scan, work, faults>>
  BY DEF GameOver, Scraps, Landing
<1>2. PICK s \in {"AWAITING_RESULT", "CANCELLED"} : status' = [status EXCEPT ![l] = s]
  BY DEF GameOver, Scraps
<1>3. Typed'
  BY <1>1, <1>2 DEF ResultsInv, Typed, Statii, Landing
<1>4. (TokenWhileSending /\ MatchedWhenOver /\ OneLobbyPerMatch /\ EloIsOfResult)'
  BY <1>1, <1>2 DEF ResultsInv, Typed, TokenWhileSending, MatchedWhenOver, OneLobbyPerMatch,
                    EloIsOfResult, Landing
<1>5. PostsComeInOrder'
  BY <1>1, <1>2 DEF ResultsInv, Typed, PostsComeInOrder, Landing
<1>6. (LeaseIsHeld /\ LoadedWasQueued /\ CorrectionWaits /\ AcceptedOnce)'
  BY <1>1 DEF ResultsInv, LeaseIsHeld, Holds, LoadedWasQueued, CorrectionWaits, Open, AcceptedOnce, Told
<1>7. QED
  BY <1>3, <1>4, <1>5, <1>6 DEF ResultsInv

LEMMA ReconcilesKeeps ==
  ASSUME ResultsAssumption, ResultsInv, NEW l \in Lobby, Reconciles(l)
  PROVE  ResultsInv'
<1> DEFINE k == <<l, "RESULT">>
<1>1. /\ status[l] = "COMPLETED" /\ match[l] \in Match /\ k \in Post /\ Pending(match[l]) \in Row
      /\ rows[<<l, "RESULT_VOIDED">>].status = "none" /\ <<l, "RESULT_VOIDED">> \in Post
  BY DEF Reconciles, Unfinished, ResultsInv, Typed, MatchedWhenOver, Post, Kind, Pending, Absent, Row, Statuses
<1>2. elo' = [elo EXCEPT ![l] = match[l]] /\ UNCHANGED <<status, match, heard, scan, work, faults>>
  BY DEF Reconciles
<1>3. CASE rows[k].status # "none"
  <2>1. rows' = rows
    BY <1>3 DEF Reconciles, Repaired
  <2>2. (Typed /\ EloIsOfResult)'
    BY <1>1, <1>2, <2>1 DEF ResultsInv, Typed, EloIsOfResult
  <2>3. QED
    BY <1>2, <2>1, <2>2 DEF ResultsInv, TokenWhileSending, MatchedWhenOver, OneLobbyPerMatch,
         LeaseIsHeld, Holds, PostsComeInOrder, LoadedWasQueued, CorrectionWaits, Open, AcceptedOnce, Told
<1>4. CASE rows[k].status = "none"
  <2>1. rows' = [rows EXCEPT ![k] = Pending(match[l])]
    BY <1>4 DEF Reconciles, Repaired
  <2>2. (Typed /\ EloIsOfResult)'
    BY <1>1, <1>2, <2>1 DEF ResultsInv, Typed, EloIsOfResult
  <2>3. rows'[k].status = "PENDING" /\ rows'[k].token = None
    BY <1>1, <2>1 DEF ResultsInv, Typed, Pending, Absent
  <2>4. \A j \in Post : j # k => rows'[j] = rows[j]
    BY <2>1 DEF ResultsInv, Typed
  <2>5. (TokenWhileSending /\ MatchedWhenOver /\ OneLobbyPerMatch)'
    BY <1>2, <2>3, <2>4 DEF ResultsInv, TokenWhileSending, MatchedWhenOver, OneLobbyPerMatch
  <2>a. ASSUME NEW w \in Worker, work[w].pc # "idle" PROVE work[w].post \in Post /\ work[w].post # k
    BY <2>a, <1>4 DEF ResultsInv, Typed, Working, LoadedWasQueued
  <2>6. (LeaseIsHeld /\ LoadedWasQueued)'
    BY <1>2, <2>4, <2>a DEF ResultsInv, LeaseIsHeld, LoadedWasQueued, Holds, Sending
  <2>7. PostsComeInOrder'
    BY <1>1, <1>2, <2>4 DEF ResultsInv, PostsComeInOrder, Post, Kind, Landing
  <2>8. CorrectionWaits'
    <3>1. SUFFICES ASSUME NEW j \in Lobby, Open(<<j, "RESULT">>)'
                   PROVE  /\ heard[<<j, "RESULT_VOIDED">>] = 0
                          /\ \A w \in Worker : work[w].pc \in {"claim"} \cup Sending => work[w].post # <<j, "RESULT_VOIDED">>
      BY <1>2 DEF CorrectionWaits
    <3>2. CASE j = l
      BY <3>2, <1>1 DEF ResultsInv, AcceptedOnce, LoadedWasQueued, Sending
    <3>3. CASE j # l
      BY <3>1, <3>3, <2>4 DEF ResultsInv, CorrectionWaits, Open, Post, Kind
    <3>4. QED
      BY <3>2, <3>3
  <2>9. AcceptedOnce'
    BY <1>1, <1>2, <1>4, <2>3, <2>4 DEF ResultsInv, Typed, AcceptedOnce, Told
  <2>10. QED
    BY <2>2, <2>5, <2>6, <2>7, <2>8, <2>9 DEF ResultsInv
<1>5. QED
  BY <1>3, <1>4

LEMMA VoidsKeeps ==
  ASSUME ResultsAssumption, ResultsInv, NEW l \in Lobby, Voids(l)
  PROVE  ResultsInv'
<1> DEFINE k == <<l, "RESULT">>  v == <<l, "RESULT_VOIDED">>
<1>1. /\ status[l] = "COMPLETED" /\ match[l] \in Match /\ k \in Post /\ v \in Post /\ k # v
      /\ rows[v].status = "none" /\ Pending(match[l]) \in Row /\ "CANCELLED" \in Statuses
  BY DEF Voids, ResultsInv, Typed, MatchedWhenOver, PostsComeInOrder, Post, Kind, Pending, Absent, Row, Statuses
<1>2. /\ status' = [status EXCEPT ![l] = "CANCELLED"]
      /\ match' = [match EXCEPT ![l] = None] /\ elo' = [elo EXCEPT ![l] = None]
      /\ UNCHANGED <<heard, scan, work, faults>>
  BY DEF Voids
<1>3. /\ rows'[v] = Pending(match[l])
      /\ rows'[k] = IF rows[k].status = "PENDING" THEN [rows[k] EXCEPT !.status = "CANCELLED"] ELSE rows[k]
      /\ \A j \in Post : j # k /\ j # v => rows'[j] = rows[j]
  BY <1>1 DEF Voids, Recallable, ResultsInv, Typed
<1>4. rows' \in [Post -> Row]
  <2>1. [rows[k] EXCEPT !.status = "CANCELLED"] \in Row
    BY <1>1, Zenon DEF ResultsInv, Typed, Row
  <2>2. QED
    BY <1>1, <2>1 DEF Voids, ResultsInv, Typed
<1>5. Typed'
  BY <1>1, <1>2, <1>4 DEF ResultsInv, Typed, Statii
<1>6. /\ rows'[v].status = "PENDING" /\ rows'[v].token = None
      /\ rows'[k].token = rows[k].token /\ rows'[k].lapsed = rows[k].lapsed
      /\ rows'[k].status = IF rows[k].status = "PENDING" THEN "CANCELLED" ELSE rows[k].status
  BY <1>1, <1>3 DEF ResultsInv, Typed, Row, Pending, Absent
<1>7. (TokenWhileSending /\ MatchedWhenOver /\ OneLobbyPerMatch /\ EloIsOfResult)'
  <2>1. TokenWhileSending'
    BY <1>1, <1>3, <1>6 DEF ResultsInv, TokenWhileSending
  <2>2. (MatchedWhenOver /\ OneLobbyPerMatch /\ EloIsOfResult)'
    BY <1>1, <1>2 DEF ResultsInv, Typed, MatchedWhenOver, OneLobbyPerMatch, EloIsOfResult
  <2>3. QED
    BY <2>1, <2>2
<1>8. (LeaseIsHeld /\ LoadedWasQueued)'
  <2>1. ASSUME NEW w \in Worker, work[w].pc # "idle" PROVE work[w].post \in Post /\ work[w].post # v
    BY <2>1, <1>1 DEF ResultsInv, Typed, Working, LoadedWasQueued
  <2>2. ASSUME NEW w \in Worker, work[w].pc # "idle"
        PROVE  LET r == rows[work[w].post]  s == rows'[work[w].post] IN
               /\ s.token = r.token /\ s.lapsed = r.lapsed
               /\ (r.status # "none" => s.status # "none") /\ (r.status = "SENDING" => s.status = "SENDING")
    BY <1>3, <1>6, <2>1, <2>2
  <2>3. LeaseIsHeld'
    BY <1>2, <2>2 DEF ResultsInv, LeaseIsHeld, Holds, Sending
  <2>4. LoadedWasQueued'
    BY <1>2, <2>2 DEF ResultsInv, LoadedWasQueued
  <2>5. QED
    BY <2>3, <2>4
<1>9. PostsComeInOrder'
  BY <1>1, <1>2, <1>3, <1>6 DEF ResultsInv, Typed, PostsComeInOrder, Post, Kind, Landing
<1>10. CorrectionWaits'
  BY <1>1, <1>2, <1>3, <1>6 DEF ResultsInv, CorrectionWaits, Open, Post, Kind
<1>11. AcceptedOnce'
  <2>1. SUFFICES ASSUME NEW j \in Post
                 PROVE  /\ rows'[j].status = "none" => heard[j] = 0
                        /\ heard[j] <= 1 + faults[j]
                        /\ rows'[j].status \in {"PENDING", "SENDING"} /\ ~Told(j) => heard[j] <= faults[j]
    BY <1>2 DEF AcceptedOnce, Told
  <2>2. CASE j = v
    BY <2>2, <1>1 DEF ResultsInv, Typed, AcceptedOnce
  <2>3. CASE j # v
    BY <2>3, <1>3, <1>6 DEF ResultsInv, AcceptedOnce
  <2>4. QED
    BY <2>2, <2>3
<1>12. QED
  BY <1>5, <1>7, <1>8, <1>9, <1>10, <1>11 DEF ResultsInv

-----------------------------------------------------------------------------
(* The delivery passes.  A pass moves its own record and at most one row, never *)
(* opens a post, and takes a correction up only behind a closed result.         *)

MovesOwn(w) == \A y \in Worker : y # w => work'[y] = work[y]
InHand == {"claim"} \cup Sending
\* What every step of a pass leaves alone.
Delivering(w) ==
  /\ UNCHANGED <<status, match, elo, scan>> /\ MovesOwn(w)
  /\ \A k \in Post : rows'[k].status = "none" <=> rows[k].status = "none"
  /\ \A k \in Post : Open(k)' => Open(k)
  /\ \A l \in Lobby : work'[w].pc \in InHand /\ work'[w].post = <<l, "RESULT_VOIDED">>
       => ~Open(<<l, "RESULT">>) \/ (work[w].pc \in InHand /\ work[w].post = work'[w].post)

LEMMA DeliveryKeeps ==
  ASSUME ResultsInv, NEW w \in Worker, Delivering(w), UNCHANGED heard,
         Typed', TokenWhileSending', LeaseIsHeld', LoadedWasQueued', AcceptedOnce'
  PROVE  ResultsInv'
<1>1. (MatchedWhenOver /\ OneLobbyPerMatch /\ EloIsOfResult)'
  BY DEF ResultsInv, Delivering, MatchedWhenOver, OneLobbyPerMatch, EloIsOfResult
<1>2. PostsComeInOrder'
  BY DEF ResultsInv, Delivering, PostsComeInOrder, Post, Kind
<1>3. CorrectionWaits'
  <2>1. SUFFICES ASSUME NEW l \in Lobby, Open(<<l, "RESULT">>)', NEW y \in Worker
                 PROVE  /\ heard[<<l, "RESULT_VOIDED">>] = 0
                        /\ work'[y].pc \in InHand => work'[y].post # <<l, "RESULT_VOIDED">>
    BY DEF CorrectionWaits, InHand
  <2>2. Open(<<l, "RESULT">>)
    BY <2>1 DEF Delivering, Post, Kind
  <2>3. QED
    BY <2>2 DEF ResultsInv, Delivering, MovesOwn, CorrectionWaits, InHand
<1>4. QED
  BY <1>1, <1>2, <1>3 DEF ResultsInv

LEMMA LoadsKeeps ==
  ASSUME ResultsInv, NEW w \in Worker, Loads(w)
  PROVE  ResultsInv'
<1>1. PICK k \in Post : Eligible(k) /\ work' = [work EXCEPT ![w] = [pc |-> "loaded", post |-> k, current |-> Current(k)]]
  BY DEF Loads
<1>2. UNCHANGED <<status, match, elo, rows, heard, scan, faults>> /\ rows[k].status # "none"
  BY <1>1 DEF Loads, Eligible
<1>3. Current(k) \in BOOLEAN
  BY DEF Current
<1>4. Typed'
  BY <1>1, <1>2, <1>3 DEF ResultsInv, Typed, Working, WorkPc
<1>5. /\ MovesOwn(w) /\ work[w].pc = "idle"
      /\ work'[w].pc = "loaded" /\ work'[w].post = k
  BY <1>1 DEF ResultsInv, Typed, MovesOwn, Loads
<1>6. Delivering(w)
  BY <1>2, <1>5 DEF Delivering, InHand, Sending, Open
<1>7. (TokenWhileSending /\ LeaseIsHeld /\ LoadedWasQueued /\ AcceptedOnce)'
  BY <1>2, <1>5 DEF ResultsInv, MovesOwn, TokenWhileSending, LeaseIsHeld, Holds, LoadedWasQueued,
                    AcceptedOnce, Told, Sending
<1>8. QED
  BY <1>2, <1>4, <1>6, <1>7, DeliveryKeeps

LEMMA WaitsKeeps ==
  ASSUME ResultsInv, NEW w \in Worker, Waits(w)
  PROVE  ResultsInv'
<1>1. PICK p \in {"idle", "claim", "cancel"} :
           work' = [work EXCEPT ![w].pc = p] /\ (p = "claim" => ~Behind(work[w].post))
  BY DEF Waits
<1>2. UNCHANGED <<status, match, elo, rows, heard, scan, faults>> /\ work[w].pc = "loaded"
  BY DEF Waits
<1>3. Typed'
  BY <1>1, <1>2, WorkTyped DEF ResultsInv, Typed, WorkPc
<1>4. MovesOwn(w) /\ work'[w].pc = p /\ work'[w].post = work[w].post
  BY <1>1 DEF ResultsInv, Typed, Working, MovesOwn
<1>5. Delivering(w)
  BY <1>1, <1>2, <1>4 DEF Delivering, InHand, Sending, Open, Behind
<1>6. (TokenWhileSending /\ LeaseIsHeld /\ LoadedWasQueued /\ AcceptedOnce)'
  BY <1>2, <1>4 DEF ResultsInv, MovesOwn, TokenWhileSending, LeaseIsHeld, Holds, LoadedWasQueued,
                    AcceptedOnce, Told, Sending
<1>7. QED
  BY <1>2, <1>3, <1>5, <1>6, DeliveryKeeps

LEMMA RereadsKeeps ==
  ASSUME ResultsInv, NEW w \in Worker, Rereads(w)
  PROVE  ResultsInv'
<1>1. /\ work' = [work EXCEPT ![w] = [@ EXCEPT !.pc = "retry", !.current = Current(work[w].post)]]
      /\ UNCHANGED <<status, match, elo, rows, heard, scan, faults>> /\ work[w].pc = "no"
  BY DEF Rereads
<1>2. Current(work[w].post) \in BOOLEAN
  BY DEF Current
<1>3. Typed'
  <2>1. [work[w] EXCEPT !.pc = "retry", !.current = Current(work[w].post)] \in Working
    BY <1>2, Zenon DEF ResultsInv, Typed, Working, WorkPc
  <2>2. QED
    BY <1>1, <2>1 DEF ResultsInv, Typed
<1>4. MovesOwn(w) /\ work'[w].pc = "retry" /\ work'[w].post = work[w].post
  BY <1>1 DEF ResultsInv, Typed, Working, MovesOwn
<1>5. Delivering(w)
  BY <1>1, <1>4 DEF Delivering, InHand, Sending, Open
<1>6. (TokenWhileSending /\ LeaseIsHeld /\ LoadedWasQueued /\ AcceptedOnce)'
  BY <1>1, <1>4 DEF ResultsInv, MovesOwn, TokenWhileSending, LeaseIsHeld, Holds, LoadedWasQueued,
                    AcceptedOnce, Told, Sending
<1>7. QED
  BY <1>1, <1>3, <1>5, <1>6, DeliveryKeeps

LEMMA CancelsKeeps ==
  ASSUME ResultsAssumption, ResultsInv, NEW w \in Worker, Cancels(w)
  PROVE  ResultsInv'
<1> DEFINE k == work[w].post
<1>1. /\ work' = [work EXCEPT ![w].pc = "idle"] /\ work[w].pc = "cancel" /\ k \in Post
      /\ UNCHANGED <<status, match, elo, heard, scan, faults>>
  BY DEF Cancels, ResultsInv, Typed, Working
<1>2. MovesOwn(w) /\ work'[w].pc = "idle"
  BY <1>1 DEF ResultsInv, Typed, Working, MovesOwn
<1>3. [rows[k] EXCEPT !.status = "CANCELLED", !.token = None, !.lapsed = FALSE] \in Row
  BY <1>1, RowTyped DEF ResultsInv, Typed, Statuses
<1>4. Typed'
  <2>1. rows' = rows \/ rows' = [rows EXCEPT ![k] = [@ EXCEPT !.status = "CANCELLED", !.token = None, !.lapsed = FALSE]]
    BY DEF Cancels
  <2>2. rows' \in [Post -> Row]
    BY <1>1, <1>3, <2>1 DEF ResultsInv, Typed
  <2>3. work' \in [Worker -> Working]
    <3>1. "idle" \in WorkPc
      BY DEF WorkPc
    <3>2. QED
      BY <1>1, <3>1, WorkTyped DEF ResultsInv
  <2>4. QED
    BY <1>1, <2>2, <2>3 DEF ResultsInv, Typed
<1>5. CASE ~Eligible(k)
  <2>1. rows' = rows
    BY <1>5 DEF Cancels
  <2>2. Delivering(w)
    BY <1>1, <1>2, <2>1 DEF Delivering, InHand, Sending, Open
  <2>3. (TokenWhileSending /\ LeaseIsHeld /\ LoadedWasQueued /\ AcceptedOnce)'
    BY <1>1, <1>2, <2>1 DEF ResultsInv, MovesOwn, TokenWhileSending, LeaseIsHeld, Holds, LoadedWasQueued,
                            AcceptedOnce, Told, Sending
  <2>4. QED
    BY <1>1, <1>4, <2>2, <2>3, DeliveryKeeps
<1>6. CASE Eligible(k)
  <2>1. /\ rows'[k].status = "CANCELLED" /\ rows'[k].token = None
        /\ \A j \in Post : j # k => rows'[j] = rows[j]
    BY <1>1, <1>6 DEF Cancels, ResultsInv, Typed, Row
  <2>2. Open(k) /\ (rows[k].status = "PENDING" \/ rows[k].lapsed)
    BY <1>6 DEF Eligible, Open
  <2>3. Delivering(w)
    BY <1>1, <1>2, <2>1, <2>2 DEF Delivering, InHand, Sending, Open
  <2>4. LeaseIsHeld'
    BY <1>1, <1>2, <2>1, <2>2 DEF ResultsInv, Typed, Working, MovesOwn, LeaseIsHeld, Holds, Sending
  <2>5. TokenWhileSending'
    BY <2>1 DEF ResultsInv, TokenWhileSending
  <2>6. LoadedWasQueued'
    BY <1>1, <1>2, <2>1 DEF ResultsInv, Typed, Working, MovesOwn, LoadedWasQueued
  <2>7. AcceptedOnce'
    <3>1. \A j \in Post : Told(j)' \/ (Told(j) => j = k)
      BY <1>1, <1>2 DEF MovesOwn, Told
    <3>2. QED
      BY <1>1, <2>1, <2>2, <3>1 DEF ResultsInv, AcceptedOnce, Open
  <2>8. QED
    BY <1>1, <1>4, <2>3, <2>4, <2>5, <2>6, <2>7, DeliveryKeeps
<1>7. QED
  BY <1>5, <1>6

LEMMA ClaimsKeeps ==
  ASSUME ResultsAssumption, ResultsInv, NEW w \in Worker, Claims(w)
  PROVE  ResultsInv'
<1> DEFINE k == work[w].post
<1>1. /\ work[w].pc = "claim" /\ k \in Post
      /\ UNCHANGED <<status, match, elo, heard, scan, faults>>
  BY DEF Claims, ResultsInv, Typed, Working
<1>2. [rows[k] EXCEPT !.status = "SENDING", !.token = w, !.due = FALSE, !.lapsed = FALSE] \in Row
  BY <1>1, RowTyped DEF ResultsInv, Typed, Statuses
<1>3. Typed'
  <2>1. rows' \in [Post -> Row]
    BY <1>1, <1>2 DEF ResultsInv, Typed, Claims
  <2>a. work' = [work EXCEPT ![w].pc = "send"] \/ work' = [work EXCEPT ![w].pc = "idle"]
    BY DEF Claims
  <2>2. work' \in [Worker -> Working]
    <3>1. "send" \in WorkPc /\ "idle" \in WorkPc
      BY DEF WorkPc
    <3>2. [work EXCEPT ![w].pc = "send"] \in [Worker -> Working]
      BY <3>1, WorkTyped DEF ResultsInv
    <3>3. [work EXCEPT ![w].pc = "idle"] \in [Worker -> Working]
      BY <3>1, WorkTyped DEF ResultsInv
    <3>4. QED
      BY <2>a, <3>2, <3>3
  <2>3. QED
    BY <1>1, <2>1, <2>2 DEF ResultsInv, Typed
<1>4. CASE ~Leasable(k)
  <2>1. rows' = rows /\ work' = [work EXCEPT ![w].pc = "idle"]
    BY <1>4 DEF Claims
  <2>2. MovesOwn(w) /\ work'[w].pc = "idle"
    BY <2>1 DEF ResultsInv, Typed, Working, MovesOwn
  <2>3. Delivering(w)
    BY <1>1, <2>1, <2>2 DEF Delivering, InHand, Sending, Open
  <2>4. (TokenWhileSending /\ LeaseIsHeld /\ LoadedWasQueued /\ AcceptedOnce)'
    BY <1>1, <2>1, <2>2 DEF ResultsInv, MovesOwn, TokenWhileSending, LeaseIsHeld, Holds, LoadedWasQueued,
                            AcceptedOnce, Told, Sending
  <2>5. QED
    BY <1>1, <1>3, <2>3, <2>4, DeliveryKeeps
<1>5. CASE Leasable(k)
  <2>1. work' = [work EXCEPT ![w].pc = "send"]
    BY <1>5 DEF Claims
  <2>2. MovesOwn(w) /\ work'[w].pc = "send" /\ work'[w].post = k
    BY <2>1 DEF ResultsInv, Typed, Working, MovesOwn
  <2>3. /\ rows'[k].status = "SENDING" /\ rows'[k].token = w /\ ~rows'[k].lapsed
        /\ \A j \in Post : j # k => rows'[j] = rows[j]
    <3>1. rows' = [rows EXCEPT ![k] = [@ EXCEPT !.status = "SENDING", !.token = w, !.due = FALSE, !.lapsed = FALSE]]
      BY <1>5 DEF Claims
    <3>2. QED
      BY <1>1, <3>1 DEF ResultsInv, Typed, Row
  <2>4. Open(k) /\ (rows[k].status = "PENDING" \/ rows[k].lapsed)
    BY <1>5 DEF Leasable, Eligible, Open
  <2>5. Delivering(w)
    BY <1>1, <2>2, <2>3, <2>4 DEF Delivering, InHand, Sending, Open
  <2>6. \A y \in Worker : work[y].pc \in Sending => work[y].post # k
    BY <1>1, <2>4 DEF ResultsInv, LeaseIsHeld, Holds
  <2>7. LeaseIsHeld'
    BY <1>1, <2>2, <2>3, <2>6 DEF ResultsInv, Typed, Working, MovesOwn, LeaseIsHeld, Holds, Sending
  <2>8. (TokenWhileSending /\ LoadedWasQueued)'
    BY <1>1, <2>2, <2>3, NoneApart DEF ResultsInv, Typed, Working, MovesOwn, TokenWhileSending, LoadedWasQueued
  <2>9. AcceptedOnce'
    BY <1>1, <2>2, <2>3, <2>4, <2>6 DEF ResultsInv, MovesOwn, AcceptedOnce, Told, Open, Sending
  <2>10. QED
    BY <1>1, <1>3, <2>5, <2>7, <2>8, <2>9, DeliveryKeeps
<1>6. QED
  BY <1>4, <1>5

\* Completes and Retries: the pass settles the row it holds.
LEMMA SettlesKeeps ==
  ASSUME ResultsAssumption, ResultsInv, NEW w \in Worker, NEW to \in {"SENT", "PENDING", "CANCELLED"},
         work[w].pc \in Sending, work[w].pc = "yes" => to = "SENT",
         Settle(w, to), work' = [work EXCEPT ![w].pc = "idle"],
         UNCHANGED <<status, match, elo, heard, scan, faults>>
  PROVE  ResultsInv'
<1> DEFINE k == work[w].post
<1>1. k \in Post /\ Holds(w) /\ rows[k].status = "SENDING" /\ rows[k].token = w /\ to \in Statuses
  BY DEF ResultsInv, Typed, Working, LeaseIsHeld, Holds, Statuses
<1>2. MovesOwn(w) /\ work'[w].pc = "idle"
  BY DEF ResultsInv, Typed, Working, MovesOwn
<1>3. rows' = [rows EXCEPT ![k] = [@ EXCEPT !.status = to, !.token = None, !.lapsed = FALSE]]
  BY <1>1 DEF Settle
<1>4. /\ rows'[k].status = to /\ rows'[k].token = None
      /\ \A j \in Post : j # k => rows'[j] = rows[j]
  BY <1>1, <1>3 DEF ResultsInv, Typed, Row
<1>5. Typed'
  <2>1. [rows[k] EXCEPT !.status = to, !.token = None, !.lapsed = FALSE] \in Row
    BY <1>1, RowTyped DEF ResultsInv, Typed
  <2>2. QED
    BY <1>1, <1>3, <2>1, WorkTyped DEF ResultsInv, Typed, WorkPc
<1>6. Delivering(w)
  BY <1>1, <1>2, <1>4 DEF Delivering, InHand, Sending, Open
<1>7. LeaseIsHeld'
  BY <1>1, <1>2, <1>4 DEF ResultsInv, Typed, Working, MovesOwn, LeaseIsHeld, Holds, Sending
<1>8. TokenWhileSending' /\ LoadedWasQueued'
  <2>1. TokenWhileSending'
    BY <1>1, <1>4 DEF ResultsInv, TokenWhileSending
  <2>2. LoadedWasQueued'
    <3>1. \A j \in Post : rows'[j].status = "none" <=> rows[j].status = "none"
      BY <1>1, <1>4
    <3>2. QED
      BY <1>2, <3>1 DEF ResultsInv, Typed, Working, MovesOwn, LoadedWasQueued
  <2>3. QED
    BY <2>1, <2>2
<1>9. AcceptedOnce'
  <2>1. \A y \in Worker : y # w /\ work[y].pc = "yes" => work[y].post # k
    BY <1>1 DEF ResultsInv, LeaseIsHeld, Holds, Sending
  <2>2. Told(k) => work[w].pc = "yes"
    BY <2>1 DEF Told
  <2>3. \A j \in Post : j # k => (Told(j)' <=> Told(j))
    BY <1>2 DEF Told, MovesOwn
  <2>4. QED
    BY <1>1, <1>4, <2>2, <2>3 DEF ResultsInv, AcceptedOnce
<1>10. QED
  BY <1>5, <1>6, <1>7, <1>8, <1>9, DeliveryKeeps

LEMMA EndsKeeps ==
  ASSUME ResultsAssumption, ResultsInv, NEW w \in Worker, Completes(w) \/ Retries(w)
  PROVE  ResultsInv'
<1>1. CASE Completes(w)
  BY <1>1, SettlesKeeps DEF Completes, Sending
<1>2. CASE Retries(w)
  BY <1>2, SettlesKeeps DEF Retries, Sending, AfterFailure
<1>3. QED
  BY <1>1, <1>2

LEMMA SendsKeeps ==
  ASSUME ResultsInv, NEW w \in Worker, Sends(w)
  PROVE  ResultsInv'
<1> DEFINE k == work[w].post
<1>1. /\ work[w].pc = "send" /\ k \in Post /\ rows[k].status = "SENDING" /\ rows[k].token = w
      /\ UNCHANGED <<status, match, elo, rows, scan>>
  BY DEF Sends, ResultsInv, Typed, Working, LeaseIsHeld, Holds, Sending
<1>2. PICK p \in {"yes", "no"} : work' = [work EXCEPT ![w].pc = p]
  BY DEF Sends
<1>3. MovesOwn(w) /\ work'[w].pc = p /\ work'[w].post = k
  BY <1>2 DEF ResultsInv, Typed, Working, MovesOwn
<1>4. /\ heard' \in [Post -> Nat] /\ faults' \in [Post \cup {None} -> Nat]
      /\ \A j \in Post : j # k => heard'[j] = heard[j] /\ faults'[j] = faults[j]
      /\ heard'[k] = heard[k] \/ heard'[k] = heard[k] + 1
      /\ faults'[k] >= faults[k] /\ (p = "no" => heard'[k] - faults'[k] <= heard[k] - faults[k])
  <2>1. CASE UNCHANGED <<heard, faults>>
    BY <2>1, <1>1 DEF ResultsInv, Typed
  <2>2. CASE heard' = [heard EXCEPT ![k] = @ + 1] /\ UNCHANGED faults /\ work' = [work EXCEPT ![w].pc = "yes"]
    BY <2>2, <1>1, <1>3 DEF ResultsInv, Typed, Working
  <2>3. CASE heard' = [heard EXCEPT ![k] = @ + 1] /\ faults' = [faults EXCEPT ![k] = @ + 1]
    BY <2>3, <1>1 DEF ResultsInv, Typed
  <2>4. QED
    BY <2>1, <2>2, <2>3 DEF Sends
<1>5. Typed'
  BY <1>1, <1>2, <1>4, WorkTyped DEF ResultsInv, Typed, WorkPc
<1>6. (TokenWhileSending /\ MatchedWhenOver /\ OneLobbyPerMatch /\ EloIsOfResult /\ PostsComeInOrder)'
  BY <1>1 DEF ResultsInv, TokenWhileSending, MatchedWhenOver, OneLobbyPerMatch, EloIsOfResult, PostsComeInOrder
<1>7. (LeaseIsHeld /\ LoadedWasQueued)'
  BY <1>1, <1>3 DEF ResultsInv, MovesOwn, LeaseIsHeld, Holds, LoadedWasQueued, Sending
<1>8. CorrectionWaits'
  <2>1. SUFFICES ASSUME NEW l \in Lobby, Open(<<l, "RESULT">>), NEW y \in Worker
                 PROVE  /\ heard'[<<l, "RESULT_VOIDED">>] = 0
                        /\ work'[y].pc \in {"claim"} \cup Sending => work'[y].post # <<l, "RESULT_VOIDED">>
    BY <1>1 DEF CorrectionWaits, Open
  <2>2. k # <<l, "RESULT_VOIDED">> /\ <<l, "RESULT_VOIDED">> \in Post
    BY <1>1, <2>1 DEF ResultsInv, CorrectionWaits, Sending, Post, Kind
  <2>3. QED
    BY <1>1, <1>3, <1>4, <2>1, <2>2 DEF ResultsInv, CorrectionWaits, MovesOwn, Sending
<1>9. AcceptedOnce'
  <2>1. ~Told(k)
    BY <1>1 DEF Told, ResultsInv, LeaseIsHeld, Holds, Sending
  <2>2. heard[k] <= faults[k]
    BY <1>1, <2>1 DEF ResultsInv, AcceptedOnce
  <2>3. p = "yes" => Told(k)'
    BY <1>3 DEF Told
  <2>4. \A j \in Post : j # k => (Told(j)' <=> Told(j))
    BY <1>3, <1>1 DEF Told, MovesOwn
  <2>5. SUFFICES ASSUME NEW j \in Post
                 PROVE  /\ rows[j].status = "none" => heard'[j] = 0
                        /\ heard'[j] <= 1 + faults'[j]
                        /\ rows[j].status \in {"PENDING", "SENDING"} /\ ~Told(j)' => heard'[j] <= faults'[j]
    BY <1>1 DEF AcceptedOnce
  <2>6. CASE j # k
    BY <1>1, <1>4, <2>4, <2>6 DEF ResultsInv, AcceptedOnce
  <2>7. CASE j = k
    <3>1. heard[k] \in Nat /\ faults[k] \in Nat /\ heard'[k] \in Nat /\ faults'[k] \in Nat
      BY <1>1, <1>4 DEF ResultsInv, Typed
    <3>2. heard'[k] <= 1 + faults'[k]
      BY <1>4, <2>2, <3>1
    <3>a. p = "no" => heard'[k] <= faults'[k]
      BY <1>4, <2>2, <3>1
    <3>3. QED
      BY <1>1, <1>2, <2>3, <2>7, <3>2, <3>a
  <2>8. QED
    BY <2>6, <2>7
<1>10. QED
  BY <1>5, <1>6, <1>7, <1>8, <1>9 DEF ResultsInv

-----------------------------------------------------------------------------
(* Time and crashes *)

\* BecomesDue and Lapses.
LEMMA ClocksKeep ==
  ASSUME ResultsInv, NEW k \in Post, BecomesDue(k) \/ Lapses(k)
  PROVE  ResultsInv'
<1>1. UNCHANGED <<status, match, elo, heard, scan, work, faults>>
  BY DEF BecomesDue, Lapses
<1>2. \A j \in Post : rows'[j].status = rows[j].status /\ rows'[j].token = rows[j].token
  BY DEF BecomesDue, Lapses, ResultsInv, Typed, Row
<1>3. Typed'
  <2>1. [rows[k] EXCEPT !.due = TRUE] \in Row /\ [rows[k] EXCEPT !.lapsed = TRUE] \in Row
    BY Zenon DEF ResultsInv, Typed, Row
  <2>2. rows' = [rows EXCEPT ![k].due = TRUE] \/ rows' = [rows EXCEPT ![k].lapsed = TRUE]
    BY DEF BecomesDue, Lapses
  <2>3. QED
    BY <1>1, <2>1, <2>2 DEF ResultsInv, Typed
<1>4. LeaseIsHeld'
  <2>2. \A w \in Worker : work[w].post \in Post
    BY DEF ResultsInv, Typed, Working
  <2>1. ASSUME NEW w \in Worker, work[w].pc \in Sending PROVE ~rows'[work[w].post].lapsed
    <3>1. Holds(w) /\ ~rows[work[w].post].lapsed
      BY <2>1 DEF ResultsInv, LeaseIsHeld
    <3>2. CASE BecomesDue(k)
      BY <3>1, <3>2, <2>2 DEF BecomesDue, ResultsInv, Typed, Row
    <3>3. CASE Lapses(k)
      <4>1. work[w].post # k
        BY <3>1, <3>3, <2>1 DEF Lapses, Holds, Sending
      <4>2. QED
        BY <3>1, <3>3, <4>1, <2>2 DEF Lapses, ResultsInv, Typed
    <3>4. QED
      BY <3>2, <3>3
  <2>3. QED
    BY <1>1, <1>2, <2>1, <2>2 DEF ResultsInv, LeaseIsHeld, Holds
<1>5. (TokenWhileSending /\ MatchedWhenOver /\ OneLobbyPerMatch /\ EloIsOfResult)'
  BY <1>1, <1>2 DEF ResultsInv, TokenWhileSending, MatchedWhenOver, OneLobbyPerMatch, EloIsOfResult
<1>6. (PostsComeInOrder /\ CorrectionWaits)'
  BY <1>1, <1>2 DEF ResultsInv, PostsComeInOrder, CorrectionWaits, Open, Post, Kind
<1>7. LoadedWasQueued' /\ AcceptedOnce'
  <2>1. LoadedWasQueued'
    BY <1>1, <1>2 DEF ResultsInv, Typed, Working, LoadedWasQueued
  <2>2. AcceptedOnce'
    BY <1>1, <1>2 DEF ResultsInv, AcceptedOnce, Told
  <2>3. QED
    BY <2>1, <2>2
<1>8. QED
  BY <1>3, <1>4, <1>5, <1>6, <1>7 DEF ResultsInv

LEMMA CrashesKeeps ==
  ASSUME ResultsInv, Crashes
  PROVE  ResultsInv'
<1>1. CASE \E x \in Scan : /\ scan[x].pc # "idle" /\ scan' = [scan EXCEPT ![x].pc = "idle"]
                           /\ faults' = [faults EXCEPT ![None] = @ + 1] /\ UNCHANGED work
  <2>1. scan' \in [Scan -> Scanning]
    BY <1>1, ScanTyped DEF ResultsInv, ScanPc
  <2>2. faults' \in [Post \cup {None} -> Nat] /\ \A k \in Post : faults'[k] >= faults[k]
    BY <1>1 DEF ResultsInv, Typed
  <2>3. UNCHANGED <<status, match, elo, rows, heard, work>>
    BY <1>1 DEF Crashes
  <2>4. QED
    BY <2>1, <2>2, <2>3, OnlyScansMove
<1>2. ASSUME NEW w \in Worker, work' = IdleWork(w),
             faults' = [faults EXCEPT ![work[w].post] = @ + 1], UNCHANGED scan
      PROVE  ResultsInv'
  <2> DEFINE k == work[w].post
  <2>1. k \in Post /\ UNCHANGED <<status, match, elo, rows, heard>>
    BY DEF Crashes, ResultsInv, Typed, Working
  <2>2. MovesOwn(w) /\ work'[w].pc = "idle"
    BY <1>2 DEF IdleWork, ResultsInv, Typed, Working, MovesOwn
  <2>3. Typed'
    <3>1. "idle" \in WorkPc
      BY DEF WorkPc
    <3>2. work' \in [Worker -> Working]
      BY <1>2, <3>1, WorkTyped DEF IdleWork, ResultsInv
    <3>3. faults' \in [Post \cup {None} -> Nat]
      BY <1>2, <2>1 DEF ResultsInv, Typed
    <3>4. QED
      BY <1>2, <2>1, <3>2, <3>3 DEF ResultsInv, Typed
  <2>4. Delivering(w)
    BY <1>2, <2>1, <2>2 DEF Delivering, InHand, Sending, Open
  <2>5. (TokenWhileSending /\ LeaseIsHeld /\ LoadedWasQueued)'
    BY <2>1, <2>2 DEF ResultsInv, MovesOwn, TokenWhileSending, LeaseIsHeld, Holds, LoadedWasQueued, Sending
  <2>6. AcceptedOnce'
    <3>1. \A j \in Post : j # k => (Told(j)' <=> Told(j)) /\ faults'[j] = faults[j]
      BY <1>2, <2>1, <2>2 DEF Told, MovesOwn, ResultsInv, Typed
    <3>2. faults'[k] = faults[k] + 1
      BY <1>2, <2>1 DEF ResultsInv, Typed
    <3>3. QED
      BY <2>1, <3>1, <3>2 DEF ResultsInv, Typed, AcceptedOnce
  <2>7. QED
    BY <2>1, <2>3, <2>4, <2>5, <2>6, DeliveryKeeps
<1>3. QED
  BY <1>1, <1>2 DEF Crashes

-----------------------------------------------------------------------------
LEMMA NextKeeps ==
  ASSUME ResultsAssumption, ResultsInv, [Next]_vars
  PROVE  ResultsInv'
<1>1. CASE UNCHANGED vars
  BY <1>1, OnlyScansMove DEF vars, ResultsInv, Typed
<1>2. ASSUME NEW l \in Lobby, GameOver(l) \/ Scraps(l) \/ Voids(l) \/ Reconciles(l) PROVE ResultsInv'
  BY <1>2, StatusMoves, VoidsKeeps, ReconcilesKeeps
<1>3. ASSUME NEW x \in Scan, Recording(x) PROVE ResultsInv'
  BY <1>3, ScanReadsKeeps, RecordsKeeps, StampsKeeps DEF Recording
<1>4. ASSUME NEW w \in Worker, Delivers(w) PROVE ResultsInv'
  BY <1>4, LoadsKeeps, WaitsKeeps, CancelsKeeps, ClaimsKeeps, SendsKeeps, RereadsKeeps, EndsKeeps DEF Delivers
<1>5. ASSUME NEW k \in Post, BecomesDue(k) \/ Lapses(k) PROVE ResultsInv'
  BY <1>5, ClocksKeep
<1>6. CASE Crashes
  BY <1>6, CrashesKeeps
<1>7. QED
  BY <1>1, <1>2, <1>3, <1>4, <1>5, <1>6 DEF Next

\* The invariant holds throughout, whatever calls of recordMatch, applyResult,
\* voidLastResult, reconcileOneResult and deliverInhouseAnnouncements cross.
THEOREM ResultsInvariant == ASSUME ResultsAssumption PROVE Spec => []ResultsInv
<1>1. Init => ResultsInv
  BY InitInv
<1>2. ResultsInv /\ [Next]_vars => ResultsInv'
  BY NextKeeps
<1>3. QED
  BY <1>1, <1>2, PTL DEF Spec

\* A Dota match is one game's result, Elo is the Elo of the result a game has, and a
\* post is accepted once and once more for each fault: what ResultsAreSound promises.
THEOREM ResultsStaySound == ASSUME ResultsAssumption PROVE Spec => []ResultsAreSound
<1>1. ResultsInv => ResultsAreSound
  <2>1. SUFFICES ASSUME ResultsInv PROVE ResultsAreSound
    OBVIOUS
  <2>2. TypeOK
    BY <2>1 DEF ResultsInv, Typed, TokenWhileSending, TypeOK, Statii, Row, Scanning, ScanPc, Working, WorkPc
  <2>3. DuplicatesExplained
    BY <2>1 DEF ResultsInv, AcceptedOnce, DuplicatesExplained
  <2>4. QED
    BY <2>1, <2>2, <2>3 DEF ResultsInv, ResultsAreSound
<1>2. QED
  BY <1>1, ResultsInvariant, PTL

\* Only a recording completes a game, only one that can still get a result.
LEMMA CancelledIsFinal ==
  ASSUME ResultsInv, Next
  PROVE  CancelledStays
<1>1. UNCHANGED status \/ \E l \in Lobby, s \in Statii :
           status[l] # "CANCELLED" /\ status' = [status EXCEPT ![l] = s]
  <2>1. ASSUME NEW l \in Lobby, GameOver(l) \/ Scraps(l) \/ Voids(l) \/ Reconciles(l)
        PROVE  UNCHANGED status \/ \E s \in Statii :
                 status[l] # "CANCELLED" /\ status' = [status EXCEPT ![l] = s]
    BY <2>1 DEF GameOver, Scraps, Voids, Reconciles, Statii, Landing
  <2>2. ASSUME NEW x \in Scan, Recording(x)
        PROVE  UNCHANGED status \/ \E l \in Lobby, s \in Statii :
                 status[l] # "CANCELLED" /\ status' = [status EXCEPT ![l] = s]
    <3>1. scan[x].lobby \in Lobby
      BY DEF ResultsInv, Typed, Scanning
    <3>2. UNCHANGED status \/ (Lands(scan[x].lobby) /\ status' = [status EXCEPT ![scan[x].lobby] = "COMPLETED"])
      BY <2>2 DEF Recording, ScanReads, Records, Stamps
    <3>3. QED
      BY <3>1, <3>2 DEF Lands, Landing, Statii
  <2>3. ASSUME NEW w \in Worker, Delivers(w) PROVE UNCHANGED status
    BY <2>3 DEF Delivers, Loads, Waits, Cancels, Claims, Sends, Completes, Rereads, Retries
  <2>4. ASSUME NEW k \in Post, BecomesDue(k) \/ Lapses(k) PROVE UNCHANGED status
    BY <2>4 DEF BecomesDue, Lapses
  <2>5. Crashes => UNCHANGED status
    BY DEF Crashes
  <2>6. QED
    BY <2>1, <2>2, <2>3, <2>4, <2>5 DEF Next
<1>2. QED
  BY <1>1 DEF CancelledStays, ResultsInv, Typed

\* Only a claim gives a post a token, and only a post that is still true.
LEMMA TokensAreClaimed ==
  ASSUME ResultsInv, Next, NEW k \in Post
  PROVE  \/ rows'[k].token \in {None, rows[k].token}
         \/ Current(k)
<1>1. ASSUME NEW m, NEW j \in Post, rows' = [rows EXCEPT ![j] = Pending(m)]
      PROVE  rows'[k].token \in {None, rows[k].token}
  BY <1>1 DEF ResultsInv, Typed, Pending, Absent
<1>2. ASSUME NEW l \in Lobby, GameOver(l) \/ Scraps(l) \/ Reconciles(l)
      PROVE  rows'[k].token \in {None, rows[k].token}
  <2>1. UNCHANGED rows \/ rows' = [rows EXCEPT ![<<l, "RESULT">>] = Pending(match[l])]
    BY <1>2 DEF GameOver, Scraps, Reconciles, Repaired
  <2>2. <<l, "RESULT">> \in Post
    BY DEF Post, Kind
  <2>3. QED
    BY <1>1, <2>1, <2>2
<1>3. ASSUME NEW l \in Lobby, Voids(l)
      PROVE  rows'[k].token \in {None, rows[k].token}
  <2>1. <<l, "RESULT">> \in Post /\ <<l, "RESULT_VOIDED">> \in Post
    BY DEF Post, Kind
  <2>2. CASE k = <<l, "RESULT_VOIDED">>
    BY <1>3, <2>1, <2>2 DEF Voids, Pending, Absent, ResultsInv, Typed
  <2>3. CASE k = <<l, "RESULT">>
    BY <1>3, <2>1, <2>3 DEF Voids, ResultsInv, Typed, Row
  <2>4. CASE k # <<l, "RESULT">> /\ k # <<l, "RESULT_VOIDED">>
    BY <1>3, <2>1, <2>4 DEF Voids, ResultsInv, Typed
  <2>5. QED
    BY <2>2, <2>3, <2>4
<1>4. ASSUME NEW x \in Scan, Recording(x)
      PROVE  rows'[k].token \in {None, rows[k].token}
  <2>1. scan[x].lobby \in Lobby
    BY DEF ResultsInv, Typed, Scanning
  <2>2. <<scan[x].lobby, "RESULT">> \in Post
    BY <2>1 DEF Post, Kind
  <2>3. UNCHANGED rows \/ rows' = [rows EXCEPT ![<<scan[x].lobby, "RESULT">>] = Pending(scan[x].match)]
    BY <1>4 DEF Recording, ScanReads, Records, Stamps
  <2>4. QED
    BY <1>1, <2>2, <2>3
<1>5. ASSUME NEW w \in Worker, Delivers(w)
      PROVE  rows'[k].token \in {None, rows[k].token} \/ Current(k)
  <2> DEFINE j == work[w].post
  <2>1. j \in Post
    BY DEF ResultsInv, Typed, Working
  <2>2. CASE Claims(w)
    BY <2>1, <2>2 DEF Claims, Leasable, ResultsInv, Typed
  <2>3. CASE Cancels(w)
    BY <2>1, <2>3 DEF Cancels, ResultsInv, Typed, Row
  <2>4. ASSUME NEW to, Settle(w, to) PROVE rows'[k].token \in {None, rows[k].token}
    BY <2>1, <2>4 DEF Settle, ResultsInv, Typed, Row
  <2>5. CASE Completes(w) \/ Retries(w)
    BY <2>4, <2>5 DEF Completes, Retries
  <2>6. CASE Loads(w) \/ Waits(w) \/ Sends(w) \/ Rereads(w)
    BY <2>6 DEF Loads, Waits, Sends, Rereads
  <2>7. QED
    BY <1>5, <2>2, <2>3, <2>5, <2>6 DEF Delivers
<1>6. ASSUME NEW j \in Post, BecomesDue(j) \/ Lapses(j)
      PROVE  rows'[k].token \in {None, rows[k].token}
  BY <1>6 DEF BecomesDue, Lapses, ResultsInv, Typed, Row
<1>7. Crashes => UNCHANGED rows
  BY DEF Crashes
<1>8. QED
  BY <1>2, <1>3, <1>4, <1>5, <1>6, <1>7 DEF Next

\* Discord accepts only what a pass sends.
LEMMA OnlySendsAreHeard ==
  ASSUME ResultsInv, Next, NEW k \in Post, heard'[k] > heard[k]
  PROVE  rows[k].status = "SENDING"
<1>1. \A l \in Lobby : GameOver(l) \/ Scraps(l) \/ Voids(l) \/ Reconciles(l) => UNCHANGED heard
  BY DEF GameOver, Scraps, Voids, Reconciles
<1>2. \A x \in Scan : Recording(x) => UNCHANGED heard
  BY DEF Recording, ScanReads, Records, Stamps
<1>3. \A w \in Worker : Delivers(w) => UNCHANGED heard \/ Sends(w)
  BY DEF Delivers, Loads, Waits, Cancels, Claims, Completes, Rereads, Retries
<1>4. \A j \in Post : BecomesDue(j) \/ Lapses(j) => UNCHANGED heard
  BY DEF BecomesDue, Lapses
<1>5. Crashes => UNCHANGED heard
  BY DEF Crashes
<1>6. heard' # heard
  BY DEF ResultsInv, Typed
<1>7. PICK w \in Worker : Sends(w)
  BY <1>1, <1>2, <1>3, <1>4, <1>5, <1>6 DEF Next
<1>8. work[w].pc = "send" /\ work[w].post \in Post /\ rows[work[w].post].status = "SENDING"
  BY <1>7 DEF Sends, ResultsInv, Typed, Working, LeaseIsHeld, Holds, Sending
<1>9. heard' = [heard EXCEPT ![work[w].post] = @ + 1]
  BY <1>6, <1>7 DEF Sends
<1>10. k = work[w].post
  BY <1>8, <1>9 DEF ResultsInv, Typed
<1>11. QED
  BY <1>8, <1>10

\* A step never brings a cancelled game back (applyResult's claim), begins to post a
\* result that was voided (stillDescribesCurrentState), or has a result accepted
\* after its correction (the cancelled or sent RESULT row voidLastResult leaves).
THEOREM ResultStepsHold == ASSUME ResultsAssumption PROVE Spec => [][ResultStep]_vars
<1>1. ResultsInv /\ [Next]_vars => [ResultStep]_vars
  <2>1. SUFFICES ASSUME ResultsInv, Next PROVE ResultStep
    OBVIOUS
  <2>2. VoidedIsNotLeased
    <3>1. SUFFICES ASSUME NEW l \in Lobby, NEW w \in Worker,
                          rows'[<<l, "RESULT">>].token = w, rows[<<l, "RESULT">>].token # w
                   PROVE  status[l] = "COMPLETED" /\ match[l] = rows[<<l, "RESULT">>].match
      BY DEF VoidedIsNotLeased
    <3>2. <<l, "RESULT">> \in Post /\ w # None
      BY NoneApart DEF Post, Kind
    <3>3. Current(<<l, "RESULT">>)
      BY <2>1, <3>1, <3>2, TokensAreClaimed
    <3>4. QED
      BY <3>3 DEF Current
  <2>3. CorrectionIsLast
    <3>1. SUFFICES ASSUME NEW l \in Lobby, heard'[<<l, "RESULT">>] > heard[<<l, "RESULT">>]
                   PROVE  heard[<<l, "RESULT_VOIDED">>] = 0
      BY DEF CorrectionIsLast
    <3>2. <<l, "RESULT">> \in Post
      BY DEF Post, Kind
    <3>3. Open(<<l, "RESULT">>)
      BY <2>1, <3>1, <3>2, OnlySendsAreHeard DEF Open
    <3>4. QED
      BY <2>1, <3>3 DEF ResultsInv, CorrectionWaits
  <2>4. QED
    BY <2>1, <2>2, <2>3, CancelledIsFinal DEF ResultStep
<1>2. QED
  BY <1>1, ResultsInvariant, PTL DEF Spec
=============================================================================
