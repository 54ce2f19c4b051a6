------------------------- MODULE InhouseProperties --------------------------
(* What the inhouse queue and its ready check promise. *)
EXTENDS InhouseQueue

Statuses == Active \cup Terminal \cup {"AWAITING_RESULT"}
\* Types of the whole state.
TypeOK ==
  /\ queue \in [Player -> Nat] /\ \A p \in Player : queue[p] <= tickets
  /\ here \subseteq Queued /\ idle \in BOOLEAN /\ tickets \in Nat /\ banned \subseteq Player
  /\ told \subseteq (1 .. MaxLobbies) \X Player
  /\ \A l \in Lobbies :
       /\ lobby[l].status \in Statuses /\ lobby[l].slot \in 1 .. MaxLiveGames
       /\ lobby[l].due \in BOOLEAN /\ lobby[l].lock \in Proc \cup {None}
       /\ lobby[l].accepted \subseteq Roster(l)
  /\ \A x \in Proc :
       /\ tx[x].pc \in {"idle", "claim", "count", "commit", "flip", "vote", "fail", "held", "requeue", "ban"}
       /\ tx[x].lobby \in 0 .. Len(lobby) /\ tx[x].player \in Player \cup {None}

\* A player is in one place: one live game at most, and no queue beside it,
\* through every crossing of a join, a formation, a failed check and a cancel.
NobodyTwice ==
  \A p \in Player : LobbyOf(p) # {} => Cardinality(LobbyOf(p)) = 1 /\ queue[p] = 0

\* Live games hold distinct slots, and a game nobody marked over holds one.
SlotsAreDistinct ==
  \A l, m \in Live : lobby[l].slot = lobby[m].slot => l = m

\* A banned player is never in the queue: no requeue that read the bans before
\* the ban committed puts them back.
BannedNeverQueued == banned \cap Queued = {}

\* A closed game stays closed: no last accept, vote or result brings back one
\* that was cancelled under it.
ClosedStaysClosed ==
  \A l \in Lobbies : lobby[l].status \in Terminal => lobby'[l].status = lobby[l].status

\* An accept that was answered ok counts: when the check then fails, for a
\* decline by someone else or the clock, that player is back at the very place
\* they had; and no accept is answered ok in a check that has already failed.
AcceptIsKept ==
  \A l \in Lobbies, p \in Player :
       /\ (lobby[l].status = "READY_CHECK" /\ lobby'[l].status = "CANCELLED"
           /\ tx[lobby[l].lock].op # "cancel" /\ tx[lobby[l].lock].player # p
           /\ <<l, p>> \in told /\ p \notin banned) => queue'[p] = lobby[l].at[p]
       /\ <<l, p>> \in told' \ told => lobby[l].status # "CANCELLED"

\* Whatever crosses a failing check, also an accept inside its transaction: a
\* decline costs nobody but the decliner their place, and the clock nobody whose
\* accept was answered when the check read again who accepted (into `fresh').
AnsweredInTimeIsKept ==
  \A x \in Proc : LET t == tx[x]  l == tx[x].lobby IN
    /\ t.pc = "held" /\ tx'[x].pc = "requeue" /\ t.op # "cancel" =>
         \A p \in Player : <<l, p>> \in told => p \in tx'[x].fresh
    /\ t.pc = "requeue" /\ tx'[x].pc # "requeue" =>
         \A p \in Roster(l) \ banned :
           (t.op = "decline" /\ p # t.player) \/ (t.op = "resolve" /\ p \in t.fresh)
             => queue'[p] = lobby[l].at[p]

\* The clock drops nobody who accepted, and a game never starts without all ten.
GoesOnComplete ==
  \A l \in Lobbies : lobby[l].status = "READY_CHECK" /\ lobby'[l].status \in Active \ {"READY_CHECK"}
        => Roster(l) \subseteq lobby'[l].accepted

\* What every state, and every step, of the queue keeps.
QueueIsSound == TypeOK /\ NobodyTwice /\ SlotsAreDistinct /\ BannedNeverQueued
QueueStep == ClosedStaysClosed /\ GoesOnComplete /\ AnsweredInTimeIsKept

-----------------------------------------------------------------------------
(* Refinement *)

Whereabouts == [p \in Player |->
  IF LobbyOf(p) # {} THEN Min(LobbyOf(p)) ELSE IF queue[p] > 0 THEN 0 ELSE -1]
StageOf(l) == CASE lobby[l].status = "READY_CHECK" -> "asked"
                [] lobby[l].status \in Active \ {"READY_CHECK"} -> "on"
                [] OTHER -> "closed"
Abstract == INSTANCE Inhouse WITH
  place <- Whereabouts,
  stage <- [l \in Lobbies |-> StageOf(l)],
  yes   <- [l \in Lobbies |-> lobby[l].accepted]
\* The queue and its transactions implement the queue the players see.
KeepsInhouse == Abstract!Spec

\* The two halves of it, for runs about several instances.
Seen == <<Whereabouts, [l \in Lobbies |-> StageOf(l)], [l \in Lobbies |-> lobby[l].accepted]>>
StartsLikeInhouse == Abstract!Init
KeepsPace == UNCHANGED Seen \/ Abstract!Next

-----------------------------------------------------------------------------
(* Liveness.  An open transaction ends, a deadline comes, and a poller's pass *)
(* gets its turn however many requests there are.                             *)
Fairness ==
  /\ \A x \in Proc : WF_vars(Proceeds(x))
  /\ SF_vars(\E x \in Proc : Resolves(x))
  /\ \A l \in 1 .. MaxLobbies : WF_vars(ClockRunsOut(l))
FairSpec == Spec /\ Fairness

Asked(l) == l \in Lobbies /\ lobby[l].status = "READY_CHECK"
\* A ready check ends, also when the two last accepts cross and neither sees
\* the other, so that no accept starts the vote.
CheckEnds == \A l \in 1 .. MaxLobbies : Asked(l) ~> ~Asked(l)
=============================================================================
