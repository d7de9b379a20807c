------------------------- MODULE PendingQueueRunner -------------------------
(***************************************************************************)
(* The pending queue together with the runners that drain it.  A runner    *)
(* asks the server for the next prompt only while its own view of the      *)
(* queue, a count and the version it was read at, says that there is one.  *)
(* The view is fed by pending-changed broadcasts, which the sockets lose,  *)
(* delay, repeat and reorder, by the acknowledgements of the runner's own  *)
(* calls, which may be lost too, and by snapshots of the session that the  *)
(* runner reads at idle ticks while its view is empty or unknown.          *)
(***************************************************************************)
EXTENDS SessionPendingQueue

CONSTANT Sender   \* callers that only materialize after an enqueue of their own

ASSUME SenderCalls == Sender \subseteq Runner

VARIABLES
  known,       \* pendingQueueState, by runner: None or [count, version]
  turn,        \* a turn is in progress: materialization is blocked
  answer,      \* the answer on its way to each runner: None or [prompt, counters]
  published    \* the counters of every broadcast sent so far

view == <<known, turn, answer>>
allVars == <<vars, view, published>>

Counters == [count |-> pendingCount, version |-> pendingVersion]

RunnerTypeOK ==
  /\ known \in [Runner -> Answer \cup {None}]
  /\ turn \in [Runner -> BOOLEAN]
  /\ answer \in [Runner -> [prompt : BOOLEAN, counters : Answer] \cup {None}]
  /\ published \subseteq Answer

RunnerInit ==
  /\ known = [r \in Runner |-> None]
  /\ turn = [r \in Runner |-> FALSE]
  /\ answer = [r \in Runner |-> None]
  /\ published = {}
-----------------------------------------------------------------------------
\* applyKnownPendingQueueState
Apply(current, next) ==
  IF current # None /\ next.version < current.version THEN current ELSE next

Learn(r, counters) == known' = [known EXCEPT ![r] = Apply(known[r], counters)]

\* The transaction that marks the participants also has its new counters sent
\* to them. Only the transactions that change the queue send them; the repair
\* in MaterializeNothing does not.
Publish ==
  published' = IF \E p \in Participant : change'[p] # change[p] /\ change'[p].hint.kind = "pending"
               THEN published \cup {Counters'} ELSE published

\* A prompt sent directly may start a turn of any runner.
UserChanges ==
  /\ UserStep \/ ReorderStep
  /\ Publish
  /\ turn' \in IF seq' # seq THEN {turn} \cup {[turn EXCEPT ![r] = TRUE] : r \in Runner}
               ELSE {turn}
  /\ UNCHANGED <<known, answer>>

ReceiveBroadcast(r) ==
  /\ \E c \in published : Learn(r, c)
  /\ UNCHANGED <<vars, turn, answer, published>>

\* shouldAttemptPendingMaterialization and the checks in front of the request.
MayAsk(r) == known[r] # None /\ known[r].count > 0 /\ ~ turn[r]

\* Faulty variant: a view that says "empty" is never checked.
ReconcileUnknown(r) ==
  /\ known[r] = None
  /\ Learn(r, Counters)
  /\ UNCHANGED <<vars, turn, answer, published>>

\* reconcilePendingQueueState. At idle ticks, before a drain and at the end of
\* a turn the runner reads the session's counters, unless it may ask anyway. A
\* snapshot that arrives late is like a late broadcast.
Reconcile(r) ==
  /\ ~ MayAsk(r)
  /\ Learn(r, Counters)
  /\ UNCHANGED <<vars, turn, answer, published>>

\* The request names the version the runner knows; the handler consults its
\* cached answer only if that is not newer. HTTP serves when the socket fails.
Ask(r) ==
  /\ MayAsk(r) /\ answer[r] = None
  /\ \/ /\ CallOnSocket(r)
        /\ call'[r].pc = "consult" <=>
             noopCache # None /\ known[r].version <= noopCache.version
     \/ CallOnHttp(r)
  /\ UNCHANGED <<view, published>>

\* The automation worker and the command that sends a prompt materialize the
\* head once after they enqueued, whatever it is and whether a turn runs or not.
Nudge(r) ==
  /\ published # {}
  /\ CallOnHttp(r)
  /\ UNCHANGED <<view, published>>

\* A handler step. The one that ends the call sends the answer: without a
\* prompt the counters it was made with, with one those of its transaction.
Serve(r) ==
  /\ \/ ConsultCache(r) \/ ReadSession(r) \/ ProbeQueue(r) \/ Materialize(r)
  /\ Publish
  /\ answer' = IF call'[r] # Idle THEN answer
               ELSE [answer EXCEPT ![r] =
                       [prompt |-> Queued' # Queued,
                        counters |-> IF reply'[r] # None THEN reply'[r] ELSE Counters']]
  /\ UNCHANGED <<known, turn>>

\* Faulty variant: the runner counts down itself, without the floor at zero.
CountDownLocally(r) ==
  /\ answer[r] # None
  /\ Learn(r, IF answer[r].prompt
              THEN [count |-> known[r].count - 1, version |-> known[r].version + 1]
              ELSE answer[r].counters)
  /\ turn' = [turn EXCEPT ![r] = @ \/ answer[r].prompt]
  /\ answer' = [answer EXCEPT ![r] = None]
  /\ UNCHANGED <<vars, published>>

\* The answer arrives, after broadcasts that were sent before or behind it; a
\* prompt in it starts a turn.
ReceiveAnswer(r) ==
  /\ answer[r] # None
  /\ Learn(r, answer[r].counters)
  /\ turn' = [turn EXCEPT ![r] = @ \/ answer[r].prompt]
  /\ answer' = [answer EXCEPT ![r] = None]
  /\ UNCHANGED <<vars, published>>

\* The answer is lost: the runner tries again over HTTP, or at its next poll.
LoseAnswer(r) ==
  /\ answer[r] # None
  /\ answer' = [answer EXCEPT ![r] = None]
  /\ UNCHANGED <<vars, known, turn, published>>

Fail(r) == MaterializeFails(r) /\ UNCHANGED <<view, published>>

EndTurn(r) ==
  /\ turn[r]
  /\ turn' = [turn EXCEPT ![r] = FALSE]
  /\ UNCHANGED <<vars, known, answer, published>>

ServerStep == (ExpireNoop \/ Redeploy) /\ UNCHANGED <<view, published>>

RunnerNext ==
  \/ UserChanges
  \/ \E r \in Runner \ Sender :
       \/ ReceiveBroadcast(r) \/ Reconcile(r) \/ Ask(r) \/ ReceiveAnswer(r) \/ EndTurn(r)
  \/ \E r \in Sender : Nudge(r)
  \/ \E r \in Runner : Serve(r) \/ Fail(r) \/ LoseAnswer(r)
  \/ ServerStep

\* The input loop polls at every idle tick and at the end of a turn, turns end,
\* a handler that runs ends, and neither every transaction nor every answer is
\* lost.
RunnerFairness ==
  \A r \in Runner \ Sender :
    /\ WF_allVars(Reconcile(r)) /\ WF_allVars(Ask(r)) /\ WF_allVars(EndTurn(r))
    /\ WF_allVars(Serve(r)) /\ WF_allVars(ReceiveAnswer(r) \/ LoseAnswer(r))
    /\ SF_allVars(Serve(r) /\ Materialize(r)) /\ SF_allVars(ReceiveAnswer(r))

RunnerSpec == Init /\ RunnerInit /\ [][RunnerNext]_allVars /\ RunnerFairness

\* Sessions whose count is too high, or right.
Overcounted == InitDrifted /\ pendingCount >= Cardinality(Queued) /\ RunnerInit
OvercountedSpec == Overcounted /\ [][RunnerNext]_allVars /\ RunnerFairness

\* Sessions with any count.
MiscountedSpec == InitDrifted /\ RunnerInit /\ [][RunnerNext]_allVars /\ RunnerFairness
-----------------------------------------------------------------------------
(***************************************************************************)
(* Properties.                                                             *)
(***************************************************************************)

\* What a runner knows is what the server had at that version: it is never
\* ahead of the server, and at the current version it has the current count.
ViewIsTrue ==
  \A r \in Runner : known[r] # None =>
    /\ known[r].version <= pendingVersion
    /\ known[r].version = pendingVersion => known[r].count = pendingCount

\* Every queued prompt leaves the queue, although any broadcast may be lost.
PromptsLeaveQueue == \A l \in LocalId : status[l] = "queued" ~> status[l] # "queued"

\* A count that was too high is right in the end.
CountHeals == <>[]CountMatchesQueue
=============================================================================
