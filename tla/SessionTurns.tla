----------------------------- MODULE SessionTurns -----------------------------
(***************************************************************************)
(* The turns of one session: what its runners do, what reaches the server  *)
(* of that, and what the server then shows.                                *)
(*                                                                         *)
(* A runner has at most one turn open (createSessionTurnLifecycle) and     *)
(* tells the server of it by mutations.  The daemon sees that a runner is  *)
(* gone and tells the server to settle its turn and to end the session.    *)
(* The server (applySessionTurnMutation, applySessionEnd) keeps a row for  *)
(* each turn, a receipt for each mutation, and in the session's row which  *)
(* turn is the latest and a projection of it.                              *)
(*                                                                         *)
(* Mutations travel through the outbox: those of the runners arrive in     *)
(* order, perhaps again, or are given up (MutationOutbox); between runners *)
(* and daemon there is no order.  Providers, issues, anchors and rollback  *)
(* records are left out; times are what guards compare.                    *)
(***************************************************************************)
EXTENDS Integers, FiniteSets

CONSTANTS
  MaxTurns, MaxLives, MaxClock,  \* bounds: turns, runners, time
  MaxFacts, MaxNotes,            \* bounds: what runners tell, notes among it
  MaxLost,                                 \* bound: facts given up
  Window          \* SESSION_END_STALE_WINDOW_MS, and the presence timeout

ASSUME BoundsAreNatural ==
  /\ MaxTurns \in Nat /\ MaxLives \in Nat /\ MaxFacts \in Nat /\ MaxClock \in Nat
  /\ MaxNotes \in Nat /\ MaxLost \in Nat /\ Window \in Nat

VARIABLES
  clock,
  alive, life, open,      \* the runner: running?  which, and its activeTurn (0: none)
  turns,                  \* turn ids created so far
  unseen,                 \* lives whose end the daemon has not observed yet
  issued,                 \* every mutation and end of session, numbered
  count,                  \* how many those are
  lost,                   \* numbers of those that were given up
  turn,                   \* SessionTurn rows
  latest, shown,          \* session.latestTurnId; latestTurnStatus and ...ObservedAt
  receipts, endReceipts   \* numbers that arrived; times of session-end:sid:time receipts

runner == <<alive, life, open, turns>>
facts == <<issued, count>>
rows == <<turn, latest, shown>>
vars == <<clock, runner, unseen, facts, lost, rows, receipts, endReceipts>>

TurnId == 1..MaxTurns
Status == {"none", "in_progress", "completed", "failed", "cancelled"}
Row == [status : Status, startedAt : Nat, updatedAt : Nat, terminalAt : Nat]
NoRow == [status |-> "none", startedAt |-> 0, updatedAt |-> 0, terminalAt |-> 0]

\* SessionTurnMutationActionV1, where "annotate" is attach_provider_turn_id or
\* append_transcript_anchors, "mark" is mark_rollback_eligible or
\* mark_rolled_back, and "session_end" is the other kind of mutation.
Action == {"begin", "touch_active", "annotate", "complete", "fail", "cancel", "mark",
           "end_session", "session_end"}
Author == {"runner", "daemon"}
Fact == [n : Nat, author : Author, action : Action, turn : TurnId \cup {0}, at : Nat]
Turnless == {"end_session", "session_end"}

TypeOK ==
  /\ clock \in Nat /\ alive \in BOOLEAN /\ life \in Nat /\ turns \in 0..MaxTurns
  /\ open \in TurnId \cup {0} /\ unseen \subseteq Nat
  /\ issued \subseteq Fact /\ count \in Nat /\ lost \subseteq Nat
  /\ turn \in [TurnId -> Row] /\ latest \in TurnId \cup {0}
  /\ shown \in [status : Status, at : Nat]
  /\ receipts \subseteq Nat /\ endReceipts \subseteq Nat

Init ==
  /\ clock = 1
  /\ alive = FALSE /\ life = 0 /\ open = 0 /\ turns = 0 /\ unseen = {}
  /\ issued = {} /\ count = 0 /\ lost = {}
  /\ turn = [t \in TurnId |-> NoRow]
  /\ latest = 0 /\ shown = [status |-> "none", at |-> 0]
  /\ receipts = {} /\ endReceipts = {}

-----------------------------------------------------------------------------
\* Time and the processes of the machine.

Tick ==
  /\ clock < MaxClock
  /\ clock' = clock + 1
  /\ UNCHANGED <<runner, unseen, facts, lost, rows, receipts, endReceipts>>

\* A runner takes the session up, later than the last one went.
Start ==
  /\ ~alive /\ life < MaxLives
  /\ \A f \in issued : f.at < clock
  /\ alive' = TRUE /\ life' = life + 1
  /\ UNCHANGED <<clock, open, turns, unseen, facts, lost, rows, receipts, endReceipts>>

New(k, author, action, t) ==
  [n |-> count + k, author |-> author, action |-> action, turn |-> t, at |-> clock]

\* What a runner observes of its turns.
Tells(action, t) ==
  /\ issued' = issued \cup {New(1, "runner", action, t)}
  /\ count' = count + 1
  /\ UNCHANGED <<clock, alive, life, unseen, lost, rows, receipts, endReceipts>>

\* Bounds: MaxFacts for what a runner tells before it ends, MaxNotes among it.
Told(actions) == Cardinality({f \in issued : f.author = "runner" /\ f.action \in actions})
MayTell == alive /\ Told(Action \ {"session_end"}) < MaxFacts

\* beginTurnSync: a new turn, or the one that is open again.
Begin ==
  /\ MayTell
  /\ \/ open # 0 /\ Tells("begin", open) /\ UNCHANGED <<open, turns>>
     \/ /\ open = 0 /\ turns < MaxTurns
        /\ turns' = turns + 1 /\ open' = turns + 1
        /\ Tells("begin", turns + 1)

\* terminalTurnSync.
EndTurn ==
  /\ MayTell /\ open # 0
  /\ \E a \in {"complete", "fail", "cancel"} : Tells(a, open)
  /\ open' = 0 /\ UNCHANGED turns

\* touchActiveTurn, attachProviderTurnId, appendTranscriptAnchors: of the open
\* turn; anchors and rollback marks may be of an earlier one.
Note ==
  /\ MayTell /\ Told({"touch_active", "annotate", "mark"}) < MaxNotes
  /\ \/ open # 0 /\ Tells("touch_active", open)
     \/ \E t \in 1..turns : Tells("annotate", t)
     \/ \E t \in 1..turns : t # open /\ Tells("mark", t)
  /\ UNCHANGED <<open, turns>>

\* The runner is gone, and with it what it knew.
Gone ==
  /\ alive' = FALSE /\ open' = 0
  /\ unseen' = unseen \cup {life}

Crash ==
  /\ alive
  /\ Gone
  /\ UNCHANGED <<clock, life, turns, facts, lost, rows, receipts, endReceipts>>

\* sendSessionDeath: endSession cancels the open turn; then session_end.
Exit ==
  /\ alive
  /\ Gone
  /\ \/ /\ open = 0
        /\ issued' = issued \cup {New(1, "runner", "session_end", 0)}
        /\ count' = count + 1
     \/ /\ open # 0
        /\ issued' = issued \cup {New(1, "runner", "cancel", open), New(2, "runner", "session_end", 0)}
        /\ count' = count + 2
  /\ UNCHANGED <<clock, life, turns, lost, rows, receipts, endReceipts>>

\* Faulty variant: no turn is settled when a live runner took the session up.
ObserveUnlessReplaced ==
  \E l \in unseen :
    /\ unseen' = unseen \ {l}
    /\ \/ alive /\ UNCHANGED facts
       \/ /\ issued' = issued \cup {New(1, "daemon", "end_session", 0), New(2, "daemon", "session_end", 0)}
          /\ count' = count + 2
    /\ UNCHANGED <<clock, runner, lost, rows, receipts, endReceipts>>

\* onChildExited: settleDaemonObservedOpenTurn always, reportDaemonObservedSessionExit
\* unless the daemon tracks a live runner that has taken the session up; one that
\* has not reported its session yet is not tracked.
Observe ==
  \E l \in unseen :
    /\ unseen' = unseen \ {l}
    /\ \/ /\ alive
          /\ issued' = issued \cup {New(1, "daemon", "end_session", 0)}
          /\ count' = count + 1
       \/ /\ issued' = issued \cup {New(1, "daemon", "end_session", 0), New(2, "daemon", "session_end", 0)}
          /\ count' = count + 2
    /\ UNCHANGED <<clock, runner, lost, rows, receipts, endReceipts>>

\* The outbox gives a fact up, and with it the later ones of the same turn; or
\* it prunes the end of the session because a turn began after it.
Dependent(f, g) == g = f \/ (f.turn # 0 /\ g.turn = f.turn /\ g.n > f.n)
Pruned(f) == f.action = "session_end" /\ \E g \in issued : g.action = "begin" /\ g.at > f.at

GiveUp ==
  \E f \in issued :
    /\ f.n \notin receipts \cup lost
    /\ Cardinality(lost) < MaxLost \/ Pruned(f)
    /\ lost' = lost \cup {g.n : g \in {h \in issued : Dependent(f, h) /\ h.n \notin receipts}}
    /\ UNCHANGED <<clock, runner, unseen, facts, rows, receipts, endReceipts>>

-----------------------------------------------------------------------------
\* The server applies a mutation to the turns.

Terminal == {"completed", "failed", "cancelled"}
Ending == {"complete", "fail", "cancel", "end_session"}
Max(a, b) == IF a >= b THEN a ELSE b

\* Faulty variant: what does not begin or end a turn becomes its status.
StatusAfterAny(action, before) ==
  CASE action = "begin" -> "in_progress"
    [] action = "complete" -> "completed"
    [] action = "fail" -> "failed"
    [] action \in {"cancel", "end_session"} -> "cancelled"
    [] OTHER -> action

StatusAfter(action, before) ==
  CASE action = "begin" -> "in_progress"
    [] action = "complete" -> "completed"
    [] action = "fail" -> "failed"
    [] action \in {"cancel", "end_session"} -> "cancelled"
    [] OTHER -> before

\* m is a mutation, at least its action, turn and at; evidence says whether it
\* carries the data that a recovery (the provider's turn) or a mark (trusted
\* anchors) needs.
Requested(m) == IF m.turn # 0 THEN m.turn ELSE latest
Exists(t) == t # 0 /\ turn[t].status # "none"
InProgress(t) == t # 0 /\ turn[t].status = "in_progress"
Ended(t) == t # 0 /\ turn[t].status \in Terminal

\* isNewerMatchingRecoveryLifecycleEvidence.
Recovers(m, t, evidence) ==
  /\ evidence /\ t # 0 /\ turn[t].status = "failed"
  /\ m.action \in {"begin", "complete"} /\ m.at > turn[t].terminalAt

\* Faulty variant: a terminal mutation is applied to any turn it names.
AcceptsEveryEnd(m, t, evidence) ==
  /\ t # 0
  /\ m.action = "end_session" => InProgress(t) /\ turn[t].startedAt <= m.at
  /\ m.action = "begin" /\ Ended(t) => Recovers(m, t, evidence)
  /\ m.action \in Ending => Exists(t)
  /\ m.action = "mark" => evidence /\ Exists(t) /\ turn[t].status = "completed"
  /\ m.action = "touch_active" => InProgress(t) /\ latest \in {0, t} /\ m.at > turn[t].updatedAt
  /\ m.action = "annotate" => Exists(t)

\* Faulty variant: an end is applied whenever it was observed.
AcceptsOldEnds(m, t, evidence) ==
  /\ t # 0
  /\ m.action = "end_session" => InProgress(t)
  /\ m.action = "begin" /\ Ended(t) => Recovers(m, t, evidence)
  /\ m.action \in Ending =>
       /\ InProgress(t) \/ Recovers(m, t, evidence)
       /\ t = latest \/ ~InProgress(latest)
  /\ m.action = "mark" => evidence /\ Exists(t) /\ turn[t].status = "completed"
  /\ m.action = "touch_active" => InProgress(t) /\ latest \in {0, t} /\ m.at > turn[t].updatedAt
  /\ m.action = "annotate" => Exists(t)

\* The checks of applySessionTurnMutationToTurns: is m applied, to turn t?
Accepts(m, t, evidence) ==
  /\ t # 0
  /\ m.action = "end_session" => InProgress(t) /\ turn[t].startedAt <= m.at
  /\ m.action = "begin" /\ Ended(t) => Recovers(m, t, evidence)
  /\ m.action \in Ending =>
       /\ InProgress(t) \/ Recovers(m, t, evidence)
       /\ t = latest \/ ~InProgress(latest)
  /\ m.action = "mark" => evidence /\ Exists(t) /\ turn[t].status = "completed"
  /\ m.action = "touch_active" => InProgress(t) /\ latest \in {0, t} /\ m.at > turn[t].updatedAt
  /\ m.action = "annotate" => Exists(t)

RowAfter(m, t) ==
  [status |-> StatusAfter(m.action, turn[t].status),
   startedAt |-> IF Exists(t) /\ ~(m.action = "begin" /\ Ended(t)) THEN turn[t].startedAt ELSE m.at,
   updatedAt |-> m.at,
   terminalAt |-> IF m.action \in Ending THEN m.at
                  ELSE IF m.action = "begin" THEN 0 ELSE turn[t].terminalAt]

\* Faulty variant: only the first turn moves the pointer.
LatestAfterFirst(m, t) == IF latest = 0 THEN t ELSE latest

\* shouldMoveLatestTurnPointer.
LatestAfter(m, t) ==
  IF m.action \in {"begin", "touch_active", "complete", "fail", "cancel"} \/ latest = 0
  THEN t ELSE latest

\* materializePrimaryTurnProjection.
Projection(t, table) ==
  IF t = 0 \/ table[t].status = "none" THEN [status |-> "none", at |-> 0]
  ELSE [status |-> table[t].status,
        at |-> IF table[t].status \in Terminal THEN table[t].terminalAt ELSE table[t].updatedAt]

\* The rows and the session after m is decided, of either kind.
ApplyMutation(m, evidence) ==
  LET t == Requested(m) IN
  \/ /\ Accepts(m, t, evidence)
     /\ turn' = [turn EXCEPT ![t] = RowAfter(m, t)]
     /\ latest' = LatestAfter(m, t)
     /\ shown' = Projection(LatestAfter(m, t), turn')
  \/ ~Accepts(m, t, evidence) /\ UNCHANGED rows

\* A fact arrives once those its author observed before it have, or are lost.
Arrives(f) ==
  /\ f \in issued /\ f.n \notin lost
  /\ \A g \in issued : g.author = f.author /\ g.n < f.n => g.n \in receipts \cup lost

\* applySessionTurnMutationInTx; a mutation that arrives again has a receipt.
ApplyTurnMutation(f) ==
  /\ f.action # "session_end" /\ Arrives(f) /\ f.n \notin receipts
  /\ receipts' = receipts \cup {f.n}
  /\ \E evidence \in BOOLEAN : ApplyMutation(f, evidence)
  /\ UNCHANGED <<clock, runner, unseen, facts, lost, endReceipts>>

\* resolveSessionEndTime.
EndTime(f) == IF f.at < clock - Window THEN clock ELSE f.at

\* applySessionEnd, with the mutation it makes, whose receipt has this time.
\* Keep-alives and timeouts make the session active or not at any time, messages
\* move meaningfulActivityAt: both are read as whatever they may be.
Ignores(f, active, activity) == active /\ f.at < Max(shown.at, activity)
EndsTurn(active) == latest # 0 /\ (active \/ shown.status = "in_progress")
EndMutation(f) == [action |-> "end_session", turn |-> 0, at |-> EndTime(f)]

ApplySessionEnd(f) ==
  /\ f.action = "session_end" /\ Arrives(f)
  /\ receipts' = receipts \cup {f.n}
  /\ \E active \in BOOLEAN, activity \in 0..clock :
       \/ /\ ~Ignores(f, active, activity) /\ EndsTurn(active) /\ EndTime(f) \notin endReceipts
          /\ ApplyMutation(EndMutation(f), FALSE)
          /\ endReceipts' = endReceipts \cup {EndTime(f)}
       \/ /\ Ignores(f, active, activity) \/ ~EndsTurn(active) \/ EndTime(f) \in endReceipts
          /\ UNCHANGED <<rows, endReceipts>>
  /\ UNCHANGED <<clock, runner, unseen, facts, lost>>

-----------------------------------------------------------------------------
Next ==
  \/ Tick \/ Start \/ Begin \/ EndTurn \/ Note \/ Crash \/ Exit \/ Observe \/ GiveUp
  \/ (\E f \in issued : ApplyTurnMutation(f) \/ ApplySessionEnd(f))

Spec == Init /\ [][Next]_vars

\* The daemon observes every exit, and its outbox delivers (AcceptedSettles).
Delivered(n) == \E f \in issued : /\ f.author = "daemon" /\ f.n = n /\ n \notin receipts
                                  /\ ApplyTurnMutation(f) \/ ApplySessionEnd(f)
FairSpec == /\ Spec /\ WF_vars(Observe)
            /\ \A n \in 1..(MaxFacts + 4 * MaxLives) : WF_vars(Delivered(n))

-----------------------------------------------------------------------------
\* A turn of a live runner that the server knows is in progress.  Nobody ends it
\* but a daemon that noticed only after it began that an earlier runner was gone,
\* or an end of the session that the server dated to its arrival, which was more
\* than Window late.  Which of them it was shows in the time of the turn's end.
CutShort(t) ==
  \E f \in issued :
    /\ f.n \in receipts
    /\ \/ f.author = "daemon" /\ f.at = turn[t].terminalAt /\ f.at >= turn[t].startedAt
       \/ /\ f.action = "session_end" /\ f.at + Window < turn[t].terminalAt
          /\ turn[t].terminalAt \in endReceipts

LiveTurnStands == alive /\ open # 0 /\ Exists(open) => InProgress(open) \/ CutShort(open)

\* Once all that the runners told has arrived, the server shows their last turn,
\* in progress only if its end was not told, and ended as told or cancelled.
ToldEnd(t) == {f \in issued : f.turn = t /\ f.action \in Ending}

ArrivedIsShown ==
  turns > 0 /\ lost = {} /\ (\A f \in issued : f.author = "runner" => f.n \in receipts) =>
    /\ latest = turns
    /\ shown.status = "in_progress" => ToldEnd(turns) = {}
    /\ \A f \in ToldEnd(turns) : shown.status \in {StatusAfter(f.action, "none"), "cancelled"}

\* A turn that ended stays as it ended: whatever arrives late, the runner sends
\* nothing that the server takes for a recovery of that turn.
OutcomesStand ==
  [][\A t \in TurnId : turn[t].status \in Terminal => turn'[t].status = turn[t].status]_vars

\* An end observed before a turn began does not end that turn.
EndsSpareNewerTurns ==
  [][\A f \in issued, t \in TurnId :
       /\ f.n \in receipts' \ receipts /\ f.action \in Turnless
       /\ InProgress(t) /\ turn[t].startedAt > f.at
       => turn'[t].status = "in_progress"]_vars

\* A turn shown in progress whose runner is gone is settled, if that was noticed
\* after it began and the notice has yet to arrive.  Only the loss of such a
\* settlement excuses it.
Settles(f, t) == f.author = "daemon" /\ f.action = "end_session" /\ f.at >= turn[t].startedAt
ToBeSettled(t) == unseen # {} \/ \E f \in issued : Settles(f, t) /\ f.n \notin receipts \cup lost
SettlementLost(t) == \E f \in issued : Settles(f, t) /\ f.n \in lost

OrphanSettles ==
  \A t \in TurnId :
    (latest = t /\ InProgress(t) /\ t # open /\ ToBeSettled(t))
      ~> (latest # t \/ ~InProgress(t) \/ SettlementLost(t))
=============================================================================
