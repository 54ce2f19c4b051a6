------------------------------ MODULE LiveRoom ------------------------------
(***************************************************************************)
(* A live room (the draft room or the inhouse room): commits and the       *)
(* version they publish, each process's copy of the room's rows, the       *)
(* requests a process holds until the version moves, and the tabs that     *)
(* poll and act.  The rows are abstracted to how many commits they show.   *)
(*                                                                         *)
(* Everything that awaits the database is a step of its own: reading the   *)
(* version, loading the rows, running a publish's statement.               *)
(***************************************************************************)
EXTENDS Integers, FiniteSets, Sequences, SequencesExt

CONSTANTS Proc, Tab, Writer,
          Serving,       \* the processes the tabs reach
          Owner,       \* the tab whose action a writer is, or None
          MaxCommits, MaxFaults,
          Watching,    \* whether the 2 s watch runs
          Published,   \* whether the room has a version row at first
          None, Unread

RoomAssumption ==
  /\ MaxCommits \in Nat /\ MaxFaults \in Nat /\ {Watching, Published} \subseteq BOOLEAN
  /\ Serving \subseteq Proc /\ Owner \in [Writer -> Tab \cup {None}]

VARIABLES
  data,   \* commits the room shows
  told,   \* told[v]: the commits made when version v was published
  proc,   \* the memory of each process
  pub,    \* publishes on their way, of writers and of ticks
  poll,   \* each tab's poll
  acting, \* each writer: its request
  tab,    \* what each tab shows
  faults

vars == <<data, told, proc, pub, poll, acting, tab, faults>>

version == Len(told)          \* 0: no row yet
Told(v) == IF v = 0 THEN 0 ELSE told[v]
NewProc == [gen |-> 0, landed |-> 0, local |-> 0, stopping |-> FALSE, entry |-> None,
            loads |-> <<>>, queued |-> FALSE, reading |-> None, again |-> FALSE]
NoPoll == [pc |-> "none", at |-> None, mark |-> 0, known |-> 0, since |-> None, next |-> "reply",
           gen |-> 0, rows |-> 0, label |-> 0, floor |-> 0, fence |-> 0, settled |-> FALSE]
Silent == [pc |-> "no", at |-> None]
Held(p) == {t \in Tab : poll[t].pc = "held" /\ poll[t].at = p}

-----------------------------------------------------------------------------
(* Publishing: always after the commit, never inside its transaction *)

Commits(x, p) == /\ data < MaxCommits /\ data' = data + 1
                 /\ pub' = [pub EXCEPT ![x] = [pc |-> "committed", at |-> p]]
\* The local fence moves before the statement runs.
Bumped(r) == [r EXCEPT !.gen = @ + 1, !.local = data]
Bumps(x) ==
  /\ pub[x].pc = "committed" /\ pub' = [pub EXCEPT ![x].pc = "bumped"]
  /\ proc' = [proc EXCEPT ![pub[x].at] = Bumped(@)]
  /\ UNCHANGED <<data, told, poll, acting, tab, faults>>
\* The statement lands, or fails twice and the publish is lost.
Lands(x) ==
  /\ pub[x].pc = "bumped" /\ pub' = [pub EXCEPT ![x].pc = "landed"]
  /\ \/ told' = Append(told, data) /\ UNCHANGED faults
     \/ faults < MaxFaults /\ faults' = faults + 1 /\ UNCHANGED told
  /\ UNCHANGED <<data, proc, poll, acting, tab>>

Queued(r, held) == [r EXCEPT !.queued = @ \/ held # {}]
Woken(r, held) == Queued([r EXCEPT !.landed = @ + 1], held)
Wakes(x) ==
  LET p == pub[x].at IN
  /\ pub[x].pc = "landed" /\ pub' = [pub EXCEPT ![x] = Silent]
  /\ proc' = [proc EXCEPT ![p] = Woken(@, Held(p))]
  /\ IF x \in Tab
     THEN poll' = [poll EXCEPT ![x].pc = "again"] /\ UNCHANGED acting
     ELSE acting' = [acting EXCEPT ![x].pc = IF Owner[x] = None THEN "none" ELSE "read"] /\ UNCHANGED poll
  /\ UNCHANGED <<data, told, tab, faults>>

-----------------------------------------------------------------------------
(* Actions of tabs, and the writers no tab waits for *)

\* A reply is applied in the order the requests started.
Newer(t, x) == LET o == tab[t].order
                   i == CHOOSE j \in DOMAIN o : o[j] = x
               IN SubSeq(o, i + 1, Len(o))
Accepted(t, x) == x \in Range(tab[t].order)
Left(t, x) == [tab[t] EXCEPT !.order = SelectSeq(@, LAMBDA y : y # x)]

Sends(w, p) ==
  /\ acting[w].pc = "none" /\ ~proc[p].stopping /\ data < MaxCommits
  /\ acting' = [acting EXCEPT ![w] = [pc |-> "sent", at |-> p, rows |-> 0]]
  /\ tab' = IF Owner[w] = None THEN tab ELSE [tab EXCEPT ![Owner[w]].order = Append(@, w)]
  /\ UNCHANGED <<data, told, proc, pub, poll, faults>>
Writes(w) ==
  /\ acting[w].pc = "sent" /\ Commits(w, acting[w].at)
  /\ acting' = [acting EXCEPT ![w].pc = "publish"]
  /\ UNCHANGED <<told, proc, poll, tab, faults>>
\* An action answers with the room as it reads it afterwards.
Reads(w) ==
  /\ acting[w].pc = "read"
  /\ acting' = [acting EXCEPT ![w].pc = "reply", ![w].rows = data]
  /\ UNCHANGED <<data, told, proc, pub, poll, tab, faults>>
ActionLands(w) ==
  LET t == Owner[w] IN
  /\ acting[w].pc = "reply" /\ acting' = [acting EXCEPT ![w].pc = "none"]
  /\ tab' = [tab EXCEPT ![t] = IF Accepted(t, w)
                               THEN [@ EXCEPT !.shown = acting[w].rows, !.order = Newer(t, w)] ELSE @]
  /\ UNCHANGED <<data, told, proc, pub, poll, faults>>

-----------------------------------------------------------------------------
(* A poll *)

\* Held only if the tab has a version to send back; a tab with something
\* urgent asks to be answered at once.
Asks(t, p) ==
  /\ poll[t].pc = "none"
  /\ \E since \in {None, tab[t].since} :
       poll' = [poll EXCEPT ![t] = [NoPoll EXCEPT !.pc = "marked", !.at = p, !.since = since,
                                                  !.mark = proc[p].gen + proc[p].landed]]
  /\ tab' = [tab EXCEPT ![t].order = Append(@, "poll")]
  /\ UNCHANGED <<data, told, proc, pub, acting, faults>>
SeesVersion(t) ==
  LET q == poll[t]
      hold == q.pc = "marked" /\ q.since # None /\ q.since = version /\ ~proc[q.at].stopping IN
  /\ q.pc \in {"marked", "again"}
  /\ poll' = [poll EXCEPT ![t] = [@ EXCEPT !.pc = "get", !.known = version, !.floor = Told(version),
                                           !.next = IF hold THEN "hold" ELSE "reply"]]
  /\ UNCHANGED <<data, told, proc, pub, acting, tab, faults>>

Current(p, v) == LET e == proc[p].entry IN e # None /\ e.version = v /\ e.gen = proc[p].gen /\ ~e.old
Answered(q, rows, label) ==
  IF q.next = "hold" THEN [q EXCEPT !.pc = "register"]
  ELSE [q EXCEPT !.pc = "answer", !.rows = rows, !.label = label]
\* The copy, the load on its way for this version and fence, or a new one;
\* without a version, rows of the poll's own, which are not kept.
Gets(t) ==
  LET q == [poll[t] EXCEPT !.fence = proc[poll[t].at].local]
      p == q.at  r == proc[p]
      same(l) == l.version = q.known /\ l.gen = r.gen IN
  /\ poll[t].pc = "get"
  /\ \/ /\ q.known = 0
        /\ poll' = [poll EXCEPT ![t] = [q EXCEPT !.pc = "own"]] /\ UNCHANGED proc
     \/ /\ q.known # 0 /\ Current(p, q.known)
        /\ poll' = [poll EXCEPT ![t] = Answered(q, r.entry.rows, q.known)] /\ UNCHANGED proc
     \/ /\ q.known # 0 /\ ~Current(p, q.known)
        /\ poll' = [poll EXCEPT ![t] = [q EXCEPT !.pc = "load", !.gen = r.gen]]
        /\ proc' = IF \E l \in Range(r.loads) : same(l) THEN proc
                   ELSE [proc EXCEPT ![p].loads = Append(@,
                          [version |-> q.known, gen |-> r.gen, rows |-> Unread, late |-> FALSE])]
  /\ UNCHANGED <<data, told, pub, acting, tab, faults>>
ReadsOwn(t) ==
  /\ poll[t].pc = "own" /\ poll' = [poll EXCEPT ![t] = Answered(@, data, 0)]
  /\ UNCHANGED <<data, told, proc, pub, acting, tab, faults>>

LoadReads(p, i) ==
  /\ proc[p].loads[i].rows = Unread
  /\ proc' = [proc EXCEPT ![p].loads[i].rows = data]
  /\ UNCHANGED <<data, told, pub, poll, acting, tab, faults>>
\* Mutant: the copy is labelled with the version of the moment it is stored.
StoredNow(l) == [version |-> version, gen |-> l.gen, rows |-> l.rows, old |-> FALSE]
Stored(l) == [version |-> l.version, gen |-> l.gen, rows |-> l.rows, old |-> FALSE]
\* Kept unless this process has published since, or a load that started later
\* was kept first; whoever waited is answered either way.
LoadEnds(p, i) ==
  LET r == proc[p]  l == r.loads[i]
      keep == r.gen = l.gen /\ ~l.late
      rest == [j \in 1 .. Len(r.loads) - 1 |->
                 IF j < i THEN [r.loads[j] EXCEPT !.late = @ \/ keep] ELSE r.loads[j + 1]] IN
  /\ l.rows # Unread
  /\ proc' = [proc EXCEPT ![p] = [@ EXCEPT !.loads = rest, !.entry = IF keep THEN Stored(l) ELSE @]]
  /\ poll' = [t \in Tab |->
       IF poll[t].pc = "load" /\ poll[t].at = p /\ poll[t].known = l.version /\ poll[t].gen = l.gen
       THEN Answered(poll[t], l.rows, Stored(l).version) ELSE poll[t]]
  /\ UNCHANGED <<data, told, pub, acting, tab, faults>>
Ages(p) ==
  /\ proc[p].entry # None /\ ~proc[p].entry.old /\ proc' = [proc EXCEPT ![p].entry.old = TRUE]
  /\ UNCHANGED <<data, told, pub, poll, acting, tab, faults>>

\* The tick settles a clock that ran out, or marks its captain present: it
\* commits and publishes itself, then reads again.  Else it replies.
Settles(t) ==
  /\ poll[t].pc = "answer" /\ ~poll[t].settled /\ Commits(t, poll[t].at)
  /\ poll' = [poll EXCEPT ![t].pc = "settling", ![t].settled = TRUE]
  /\ UNCHANGED <<told, proc, acting, tab, faults>>
PollLands(t) ==
  /\ poll[t].pc = "answer" /\ poll' = [poll EXCEPT ![t] = NoPoll]
  /\ tab' = [tab EXCEPT ![t] = IF Accepted(t, "poll")
       THEN [@ EXCEPT !.shown = poll[t].rows, !.since = poll[t].label, !.order = Newer(t, "poll")] ELSE @]
  /\ UNCHANGED <<data, told, proc, pub, acting, faults>>
\* The tab gives up on it, or the network does.
PollDies(t) ==
  /\ faults < MaxFaults /\ faults' = faults + 1
  /\ poll[t].pc \notin {"none", "settling"} /\ poll' = [poll EXCEPT ![t] = NoPoll]
  /\ tab' = [tab EXCEPT ![t] = Left(t, "poll")]
  /\ UNCHANGED <<data, told, proc, pub, acting>>

-----------------------------------------------------------------------------
(* Holding *)

\* A publish that started or finished since the mark is checked for at once.
Missed(q) == q.mark # proc[q.at].gen + proc[q.at].landed
Holdable(p) == ~proc[p].stopping
Registers(t) ==
  LET q == poll[t]  p == q.at IN
  /\ q.pc = "register"
  /\ IF Holdable(p)
     THEN /\ poll' = [poll EXCEPT ![t].pc = "held"]
          /\ proc' = IF Missed(q) THEN [proc EXCEPT ![p].queued = TRUE] ELSE proc
     ELSE poll' = [poll EXCEPT ![t].pc = "again"] /\ UNCHANGED proc
  /\ UNCHANGED <<data, told, pub, acting, tab, faults>>
\* The end of the hold, or the room's clock.
HoldEnds(t) ==
  /\ poll[t].pc \in {"register", "held"} /\ poll' = [poll EXCEPT ![t].pc = "again"]
  /\ UNCHANGED <<data, told, proc, pub, acting, tab, faults>>

\* A check asked for during another's read runs after it.
Asked(r) == IF r.reading = None THEN [r EXCEPT !.reading = Unread] ELSE [r EXCEPT !.again = TRUE]
Checked(r, held) == IF held = {} THEN r ELSE Asked(r)
CheckFires(p) ==
  /\ proc[p].queued
  /\ proc' = [proc EXCEPT ![p] = Checked([@ EXCEPT !.queued = FALSE], Held(p))]
  /\ UNCHANGED <<data, told, pub, poll, acting, tab, faults>>
Watches(p) ==
  /\ Watching /\ Held(p) # {} /\ proc' = [proc EXCEPT ![p] = Checked(@, Held(p))]
  /\ UNCHANGED <<data, told, pub, poll, acting, tab, faults>>
CheckReads(p) ==
  /\ proc[p].reading = Unread /\ proc' = [proc EXCEPT ![p].reading = version]
  /\ UNCHANGED <<data, told, pub, poll, acting, tab, faults>>
\* Every request whose version the read moved past is answered; a failed read
\* answers nobody.
CheckEnds(p) ==
  LET r == proc[p]
      woken == {t \in Held(p) : r.reading # Unread /\ poll[t].since # r.reading}
      done == [r EXCEPT !.reading = None, !.again = FALSE] IN
  /\ r.reading # None
  /\ r.reading = Unread => faults < MaxFaults
  /\ faults' = IF r.reading = Unread THEN faults + 1 ELSE faults
  /\ poll' = [t \in Tab |-> IF t \in woken THEN [poll[t] EXCEPT !.pc = "again"] ELSE poll[t]]
  /\ proc' = [proc EXCEPT ![p] = IF r.again THEN Checked(done, Held(p) \ woken) ELSE done]
  /\ UNCHANGED <<data, told, pub, acting, tab>>

-----------------------------------------------------------------------------
(* A release stops a process: every hold answers; or a process dies *)

Stops(p) ==
  /\ ~proc[p].stopping /\ proc' = [proc EXCEPT ![p].stopping = TRUE]
  /\ faults < MaxFaults /\ faults' = faults + 1
  /\ poll' = [t \in Tab |-> IF t \in Held(p) THEN [poll[t] EXCEPT !.pc = "again"] ELSE poll[t]]
  /\ UNCHANGED <<data, told, pub, acting, tab>>
Restarts(p) ==
  LET mine == {x \in Tab \cup Writer : pub[x].at = p}
      cut == {w \in Writer : acting[w].pc # "none" /\ acting[w].at = p}
      lost == {t \in Tab : poll[t].at = p} IN
  /\ \/ proc[p].stopping /\ UNCHANGED faults
     \/ ~proc[p].stopping /\ faults < MaxFaults /\ faults' = faults + 1
  /\ proc' = [proc EXCEPT ![p] = NewProc]
  /\ pub' = [x \in Tab \cup Writer |-> IF x \in mine THEN Silent ELSE pub[x]]
  /\ poll' = [t \in Tab |-> IF t \in lost THEN NoPoll ELSE poll[t]]
  /\ acting' = [w \in Writer |-> IF w \in cut THEN [acting[w] EXCEPT !.pc = "none"] ELSE acting[w]]
  /\ tab' = [t \in Tab |-> [tab[t] EXCEPT !.order =
               SelectSeq(@, LAMBDA y : y \notin cut /\ (y = "poll" => t \notin lost))]]
  /\ UNCHANGED <<data, told>>

Init ==
  /\ data = 0 /\ told = (IF Published THEN <<0>> ELSE <<>>) /\ faults = 0
  /\ proc = [p \in Proc |-> NewProc] /\ pub = [x \in Tab \cup Writer |-> Silent]
  /\ poll = [t \in Tab |-> NoPoll]
  /\ acting = [w \in Writer |-> [pc |-> "none", at |-> None, rows |-> 0]]
  /\ tab = [t \in Tab |-> [shown |-> 0, since |-> None, order |-> <<>>]]

Publishing(x) == Bumps(x) \/ Lands(x) \/ Wakes(x)
Acting(w) == (\E p \in Proc : Sends(w, p)) \/ Writes(w) \/ Reads(w) \/ ActionLands(w)
Answering(t) == SeesVersion(t) \/ Gets(t) \/ ReadsOwn(t) \/ PollLands(t) \/ Registers(t)
Polling(t) == (\E p \in Serving : Asks(t, p)) \/ Answering(t) \/ Settles(t) \/ PollDies(t) \/ HoldEnds(t)
Loading(p) == \E i \in DOMAIN proc[p].loads : LoadReads(p, i) \/ LoadEnds(p, i)
Checking(p) == CheckFires(p) \/ CheckReads(p) \/ CheckEnds(p)
Next == \/ \E x \in Tab \cup Writer : Publishing(x)
        \/ (\E w \in Writer : Acting(w)) \/ (\E t \in Tab : Polling(t))
        \/ \E p \in Proc : Loading(p) \/ Ages(p) \/ Checking(p) \/ Watches(p) \/ Stops(p) \/ Restarts(p)
Spec == Init /\ [][Next]_vars

-----------------------------------------------------------------------------
\* Types of the whole state.
TypeOK ==
  /\ data \in 0 .. MaxCommits /\ told \in Seq(Nat) /\ faults \in 0 .. MaxFaults
  /\ \A p \in Proc : LET r == proc[p] IN
       /\ r.gen \in Nat /\ r.landed \in 0 .. r.gen /\ r.local \in Nat
       /\ r.entry # None => r.entry.version \in 1 .. version
       /\ \A i \in DOMAIN r.loads : r.loads[i].gen <= r.gen
       /\ r.reading = None => ~r.again
  /\ \A t \in Tab : /\ poll[t].pc \in {"none", "marked", "get", "own", "load", "register", "held",
                                       "again", "answer", "settling"}
                    /\ poll[t].known <= version /\ (poll[t].pc = "none" <=> poll[t].at = None)
                    /\ Len(tab[t].order) <= 1 + Cardinality(Writer)
  /\ \A x \in Tab \cup Writer : pub[x].pc \in {"no", "committed", "bumped", "landed"}

\* A poll that starts after a change was published, by any process, never
\* answers with the rows from before it.
RepliesAreFresh == \A t \in Tab : poll[t].pc = "answer" => poll[t].rows >= poll[t].floor

\* A copy made before this process's own publish never answers a request that
\* asks for it afterwards, though the publish never reached the database.
OwnPublishIsSeen == \A t \in Tab : poll[t].pc = "answer" => poll[t].rows >= poll[t].fence

\* A version is never newer than the rows it labels, in a copy or in a reply:
\* a tab that sends it back has been shown what it announced.
LabelsAreHonest ==
  /\ \A p \in Proc : proc[p].entry # None => proc[p].entry.rows >= Told(proc[p].entry.version)
  /\ \A t \in Tab : poll[t].pc = "answer" => poll[t].rows >= Told(poll[t].label)

\* A stopping process holds nobody, so its release is not held up.
StoppedHoldsNobody == \A p \in Proc : proc[p].stopping => Held(p) = {}

\* What every state keeps.
RoomIsSound == TypeOK /\ OwnPublishIsSeen /\ LabelsAreHonest /\ StoppedHoldsNobody

\* A tick that the server holds sends back the version of what its tab shows.
HeldTabShowsItsVersion ==
  \A t \in Tab : poll[t].pc = "held" => tab[t].shown >= Told(poll[t].since)

-----------------------------------------------------------------------------
(* Timers fire and the database answers; a tab always polls again. *)
Fairness ==
  /\ \A p \in Proc : WF_vars(Loading(p)) /\ WF_vars(CheckFires(p)) /\ WF_vars(CheckReads(p) \/ CheckEnds(p))
                     /\ WF_vars(Watches(p)) /\ WF_vars(Ages(p))
  /\ \A t \in Tab : WF_vars(Answering(t)) /\ WF_vars(Publishing(t)) /\ WF_vars(\E p \in Serving : Asks(t, p))
  /\ \A w \in Writer : WF_vars(Publishing(w)) /\ WF_vars(Writes(w) \/ Reads(w) \/ ActionLands(w))
FairSpec == Spec /\ Fairness
HoldsEndSpec == FairSpec /\ \A t \in Tab : WF_vars(HoldEnds(t))

\* A held request is answered once the version has moved, without waiting for
\* its end (nor, in the process that published, for the watch).
NewsWakesHolds ==
  \A t \in Tab : (poll[t].pc = "held" /\ poll[t].since # version) ~> poll[t].pc # "held"

\* Every commit is shown on every tab in the end, though its publish was lost,
\* a reply was lost or the process that held the tab died.
ShownInTheEnd == \A t \in Tab, n \in 1 .. MaxCommits : data >= n ~> tab[t].shown >= n
=============================================================================
