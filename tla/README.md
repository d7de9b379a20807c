# Formal models of Happier

This directory holds TLA+ models of the parts of this repository (the Happier
monorepo: server, CLI with its daemon, app) whose correctness depends on
interleavings, lost messages, restarts or counters that have to agree: the
queue of pending prompts, the change feed, automations, the supervisor of
connections, the durable outbox of a CLI process, and the turns of a session.
TLC checks them on small instances (`*.cfg`), TLAPS proves
theorems about them for every value of their constants (`*Proofs.tla`).
`PROJECT.json` relates each definition to the lines it models and lists runs,
mutants, findings, hazards and theorems.

    tlc -workers 2 -config MCSessionPendingQueue.cfg MCSessionPendingQueue.tla
    tlapm SessionPendingQueueProofs.tla

Paths below leave out `src/`; SRV stands for `apps/server/sources`, CLI for
`apps/cli/src`.

## 1. The system

A user talks to coding agents that run on the user's machines.  The **server**
(Fastify, socket.io, Prisma on Postgres, SQLite or PGlite) stores accounts,
sessions, messages, machines and automations and relays events.  The **CLI**
runs on a machine: a *session process* ("runner") drives one agent, and the
*daemon* spawns runners, executes automations and answers machine RPC.  The
**app** (web, desktop, mobile) shows sessions and queues prompts.

| Component | State | Operations | Works with | Hard behaviour | What makes it correct |
|---|---|---|---|---|---|
| Session pending queue, `SRV/app/session/pending` | queue rows, `pendingCount`, `pendingVersion`, `pendingQueueSeq`, transcript rows and `seq`, change rows, the socket handler's cache of empty answers | enqueue, edit, delete, discard, restore, reorder, materialize-next, direct send | app (HTTP), runner (socket, then HTTP), change feed | materialize reads outside its transaction; cached answers; several runners; storage policy of a deployment; counters that disagree with rows | counters equal rows; every change is versioned; "nothing pending" is true at its version; no prompt lost or written twice |
| Queue drain, `CLI/api/session` | the runner's view (count, version), the turn in progress | idle poll, snapshot, ask, answer, end of turn | pending queue, broadcasts | lost and delayed broadcasts and answers, fallback from socket to HTTP | every queued prompt leaves the queue; a view is true of its version |
| Change feed, `SRV/app/changes`, `/v2/changes` | `Account.seq`, `changesFloor`, one `AccountChange` row per entity | mark, page, retention sweep | every writer, every client that was away | page and sweep are several queries each; sweeps die or overlap | no client's cursor passes a change it was not told of |
| Automations, `SRV/app/automations`, `CLI/daemon/automation` | automation, assignments, runs with state, due time, claimant, lease; the daemon's job | create, update, delete, run now, claim, start, heartbeat, succeed, fail, cancel, prune | daemons, pending queue (a run may enqueue a prompt) | lost and late requests, crashes, lapsed leases, takeover | work is repeated only after a lapse; outcomes are final; the schedule never stops |
| Connection supervisor, `packages/connection-supervisor` | phase, retry timer, generation, current transport, functions in progress | start, stop, report, timer, transport events | session client, machine client, app | any call may come during any await | stop is final; an offline client is about to retry; a superseded attempt does nothing |
| Change catch-up, `CLI/api/session/sessionChangesSyncOnConnect.ts`, `CLI/api/apiMachine.ts` | one cursor per account in a file, shared by all processes of a machine | page, apply, store cursor | change feed | several processes move one cursor; partly applied pages | each process applies each change that concerns it |
| Prompt delivery, `CLI/api/session/sessionClient.ts` | received ids, last seq, agent input | broadcast, answer, catch-up, recovery by localId | drain, transcript | one row arrives by three ways | each prompt reaches the agent once, in order |
| Session turns, `SRV/app/session/turns`, `SRV/app/session`, `CLI/daemon` | the runner's open turn; turn rows, latest turn, projection and receipts on the server | begin, touch, complete, cancel, fail, mark, end of session, the daemon's settlement | runner, daemon, outbox | facts of successive runners and of the daemon in any order, repeated or late | the projection shows the last turn told, outcomes stand, a live turn is never cut short by what was told of its predecessor |
| Mutation outbox, `CLI/api/session/mutations` | queue, batch of the flush in flight, timer, file, dead letters | enqueue, merge, prune, persist, flush, retry, drain, close | session turns, daemon | crash between acknowledgement and rewrite, writes that fail, retry timers, two processes on one file | no accepted mutation lost, none reordered, none left unattended |
| Automation timers, `CLI/daemon/automation/automationWorker.ts` | claim timer, cached assignments | refresh, claim, hints | automations | stale or missing `nextRunAt` | a due run is claimed |

The rest of the repository (authentication and encryption, presence, RPC
routing, social features, key-value and artifact stores, agent backends, the
app's screens, installers, voice, documents) is listed in `PROJECT.json` under
`components` with the reason why it is not modelled.

## 2. Modules

| Module | Models | Role |
|---|---|---|
| `PromptQueue` | the promise of `apps/docs/content/docs/features/pending-queue.mdx` | abstract specification: one line, a discard pile, a log |
| `SessionPendingQueue` | the server's queue of one session | detailed specification |
| `SessionPendingQueueRefinement` | the mapping of tables to line, pile and log | refinement |
| `PendingQueueRunner` | the drain in the CLI | composes the runner with `SessionPendingQueue` |
| `AccountChanges` | the change feed and its retention | component |
| `AutomationRuns` | automation runs, server and daemons together | component |
| `ConnectionSupervisor` | the supervisor with its transports | component |
| `MutationOutbox` | the durable outbox of one session, in each process that has one | component |
| `SessionTurns` | runners, daemon and the server's turns, over what the outboxes guarantee | composition |
| `Ordering` | ORDER BY a column, `Array.filter` | the operators on rows and lists that the queue's mapping and the outbox use |
| `MC...` | symmetry sets and values for TLC | model checking |
| `OrderingProofs` | what a listing contains and how it changes | lemmas |
| `SessionPendingQueueProofs` | the queue, from exact and from wrong counters, and its refinement of `PromptQueue` | theorems |
| `...Proofs` of `PendingQueueRunner`, `AccountChanges`, `AutomationRuns`, `ConnectionSupervisor`, `MutationOutbox`, `SessionTurns` | | theorems |

### SessionPendingQueue

The variables are the columns the code reads: `status`, `position` and
`content` by localId are the `SessionPendingMessage` rows, `pendingCount`,
`pendingVersion`, `pendingQueueSeq` and `seq` belong to `Session`, `msgSeq` and
`msgContent` are the `SessionMessage` rows, `accountSeq` and `change` are each
participant's `Account.seq` and the session's `AccountChange` row.  A function
that runs in one serializable transaction (`inTx`) is one action with the
function's name and includes the repair of counters, the marking of
participants and the version increments it calls.
`materializeNextPendingMessage` reads the session, and on its fast path the
queue, before its transaction; the socket handler consults a cache before
that.  Hence the actions `CallOnSocket`, `ConsultCache`, `CallOnHttp`,
`ReadSession`, `ProbeQueue`, then `MaterializeNothing` or `MaterializeHead`.
`Redeploy` empties the cache, drops calls in flight and may change the storage
policy.  Content is a model value, and a policy is the set of contents that a
deployment accepts: enough for a head that the policy refuses to block the line.
Calls that write nothing have no action.

`InitDrifted` starts from rows queued under a wrong `pendingCount` or behind
which `pendingQueueSeq` lags: the states the repair code exists for.

### PendingQueueRunner

Adds, for each runner, its view of the counters (`known`), the turn in progress
and the answer on its way, and keeps every broadcast ever sent in `published`:
a broadcast may be received at any time, again, or never.  `Ask` composes the
runner's guard with the server's call; `Serve` composes the server's steps with
the answer.  `Nudge` is the automation worker and the send command, which
materialize the head after enqueuing, without a view and without a turn.

### AccountChanges

The request is two actions (account, then rows) and the sweep is three
(candidates, one deletion each, floor), since the code runs them as separate
queries.  Two sweeps may overlap because the sweep lock expires by TTL.  `last`,
`torn` and `calm` are history variables used only to state properties.

### AutomationRuns

Server handlers are actions.  The daemon's `executeClaimedRun` is a job with
the phases start, execute, succeed, fail; requests are on `wire` from when they
are sent until they are handled or lost, and the daemon stops waiting by
`TimesOut` while its request may still be handled.  Due times and leases are
kept as far as a handler compares them with the clock (`due`, `live`).  A
losing claim is a stuttering step.  A run that is pruned frees its identifier,
so two identifiers stand for any number of runs of which two exist at a time.

### ConnectionSupervisor

Asynchronous functions are tasks; what runs between two awaits is an action.
The generation number is kept as two sets, the tasks and the transports whose
number is the present one.  A transport prepares (the session transport binds
an access key over HTTP), dials, is up or down; a preparing transport does not
notice that it is destroyed and dials later.  Whether a dial that reported an
error may still succeed is left open, as the supervisor's own comment and test
do; the socket.io transports of the CLI set `reconnection: false`.

### MutationOutbox

`createSessionMutationOutbox` runs in the runner and, when the daemon reports
the end of a runner, in the daemon as well, over one file that each reads only
when its outbox comes into being.  Code between two awaits is one action:
`Enqueue` up to the write it waits for, `BeginWrite` and `EndWrite` of the
serialized writer (`persistTail`), `StartFlush` and the steps of its loop over
the batch (`PassOver`, `HoldUp`, `Defer`, `Send`, `Ack`, `AuthFails`, `Fail`,
`GiveUp`), `Record` of dead letters.  `queue` is the list enqueue works on,
`batch` and `kept` are the items a flush has still to do and those it keeps;
`Content` is what any write contains, all three merged and pruned.  Coalescing
is `SameSlot` with `Replaces`, pruning an end of session before a later begin is
`Prune`.  The time of a next attempt is a bit that `BackoffEnds` clears; a
request may arrive while its sender waits, after it stopped waiting, or never.
`NothingAcceptedIsLost` speaks of what `enqueue` returned for: a mutation may be
superseded, given up after `MaxAttempts`, or at the server, but not gone.

### SessionTurns

What a runner observes (`Begin`, `EndTurn`, `Note`, `Exit`) and the daemon
(`Observe`) become numbered facts in `issued`.  A fact arrives when those its
author issued before it have arrived or are lost, which is what `MutationOutbox`
guarantees of one author; between runner and daemon there is no order.
`ApplyTurnMutation` and `ApplySessionEnd` are the transactions of the server:
`Accepts` holds the checks of `applySessionTurnMutationToTurns` in the order
of the code, `RowAfter`, `LatestAfter` and `Projection` what it writes.
`evidence` stands for the provider identifiers and anchors on which a recovery
or a mark depends; `active` and `activity` for the keep-alive and message times
of the session row, any value of which may be found.  A fact delivered twice
meets its receipt, which leaves the rows alone, except that an end of session
makes its mutation anew under the receipt of its (possibly moved) time.
`LiveTurnStands` excepts what the code does end (`CutShort`) by the time the row
bears: a turn cancelled by a settlement or an end of session of the daemon bears
the time at which that was observed, one cancelled by an end that came more than
`Window` late the time of its arrival, for which there is a receipt.
`OrphanSettles` excuses a turn only by the loss of a settlement observed after it
began.  In `Observe` the daemon may report the end of the session although a live
runner has taken it up: it does not track a runner before that has reported.

## 3. Runs

Every passing run explores its state space to the end.

| Run | Instance | Question |
|---|---|---|
| `pending_queue` | 3 prompts, 1 runner, 2 participants, 1 restart | After every transaction: count equals rows, transcript seqs are dense and final, hints current, changes versioned; and the tables implement `PromptQueue` |
| `pending_drifted` | 2 prompts of 2 contents, 2 runners over socket and HTTP, 2 policies, a restart, every initial drift of `InitDrifted` | Do positions stay distinct, does no operation widen a drift, is "nothing pending", told or cached, true at its version, and is no prompt lost? |
| `pending_drain` | 2 prompts, 1 polling runner, 1 caller that nudges, counts that are right or too high | Does every prompt leave the queue, whatever is lost?  Is the count repaired, and the runner's view never false? |
| `pending_miscounted` | any count | *violation*: with a count too low, prompts stay for ever |
| `change_feed` | 3 entities, pages of 2, batches of 2, 2 sweeps | Distinct cursors, sound floor, complete answers when calm |
| `change_feed_retention` | the same | *violation*: a client is not told of a change |
| `automations` | 2 machines, 2 runs, 1 fault | Schedule, single next run, repetition, earned success, final outcome, and every run ends |
| `supervisor` | 2 transports, 4 functions in progress | Stop is final; nobody is stranded offline |
| `outbox` | 1 runner with a restart, plans of 2 mutations, 2 attempts, 1 snapshot a flush, 1 trouble | Accepted mutations are kept, arrive in order, are attended to and settle; a newer snapshot stands |
| `outbox_shared_file` | runner and daemon | *violation*: a mutation the runner had accepted is gone |
| `session_turns` | 2 turns, 2 runners, 3 times, 2 facts and what exits add, 1 note | A live turn stands, what arrived is shown, outcomes stand, an orphaned turn is settled |
| `session_end_stale` | the same with 3 facts | *violation*: an old end of session cancels a turn begun after it |

**Why these bounds.**  Three prompts are the fewest for which a reorder, a
discard and a restore can leave a position behind, at and ahead of
`pendingQueueSeq` at once; the drain needs only two, one that blocks and one
behind it.  Two runners are the fewest that race for a head, and one restart
suffices to change the policy or empty the cache between any two steps.
`MaxChanges` stops users, not runners, so every queue that users leave behind
is drained to the end.  Three entities and pages of two have a page boundary
with a change on either side; two sweeps overlap.  A repeated execution takes
two machines and one run, and the follow-up a second run; one fault is a lost
answer, a late request, a crash or a stall, and the theorems of section 4 hold
for any number of them.  Two transports let
one be leaked while the other is current, and four functions allow a restart
during a clean-up that overtakes a probe.  The plans of the outbox
(`MCMutationOutbox`) are the sets of mutations whose members can meet: two of one
turn, two messages, two snapshots of one message, an end of session before a new
begin; each may be observed before or after a restart; two attempts are the
fewest that retry and give up, and one snapshot a flush defers the second.  Two
turns and two runners are the fewest with a predecessor to confuse; three times
and a window of one let an end be in time, late, and older than a begin.  The
same module was also explored outside the listed runs with a lost fact
(1.8 million states) and, for the safety properties, with three facts (3.2
million), with the same result.
`CHECK_DEADLOCK FALSE` is set where the bounds let the system come to rest: the
queue, the feed, the outbox and the turns.  `SYMMETRY` is used only in runs
without liveness.

**Fairness.**  `RunnerFairness`: the input loop polls at each idle tick
(`SessionProviderInputConsumer.ts`) and at the end of a turn, so reconciling
and asking are weakly fair; turns end; a handler that runs ends; and strong
fairness says that neither every materializing transaction nor every answer is
lost.  Nothing is assumed of broadcasts, nudges, users or restarts.
The liveness of a queue whose head the policy refuses is excluded by the single
content of these configurations: such a head does block the line, as the code
intends.  `Fairness` of automations: due times come, leases lapse when nobody
attends them, daemons time out and work on, requests that are sent arrive
unless lost (losses are bounded by `MaxFaults`), retention prunes; a claim takes
the run that is due longest, so it is strongly fair for each run.  The daemon's
timers, from which polling follows, are not modelled.
`Fairness` of the outbox: the event loop runs what can run, timers and back-offs
come due (strongly fair, because a flush may hold the queue meanwhile), a wait
for an answer ends, and a session whose process died is resumed.  Nothing is
assumed of the network: losses end in `GiveUp`.  `FairSpec` of the turns: the
daemon observes every exit, and its own outbox delivers, which is
`AcceptedSettles`; nothing is assumed of the runners.

**Mutants.**  Each property of each passing run has a faulty variant of a mapped
definition beside it (comment "Mutant" or "Faulty variant"), for example an
enqueue that forgets the count, a sweep that deletes a row that was marked
again, a claim that ignores the lease, a generation check that ignores `stop`,
a write of the file that leaves out what the flush holds, an end of a turn that
is applied whenever it was observed;
the run then reports the property violated.

## 4. What is proved

From the assumptions stated in the modules (finite sets of ids, positive
limits, fresh special values) and no others:

**Session pending queue** (`SessionPendingQueueProofs`).
`TypeCorrect`, `CountIsExact`, `OrderIsTotal`, `QueueIsVersioned`,
`EmptyAnswersAreTrue`, `PlacesAreFinal`, `TranscriptIsDense`, `PromptsAreKept`,
`HintsAreCurrent`.  The core is `QueueInv`: types, the exact count, distinct
positions and `Reserved` (no queued or discarded row lies beyond what
`pendingQueueSeq` and the rows reserve).  The count is not inductive alone:
materializing decrements with a clamp at zero, so that it stays exact needs the
head to be counted; distinct positions need `NextPositionIsNew`, the lemma on
`reserveNextPendingQueuePosition`.  Every action has a lemma that it preserves
`QueueInv` and is *versioned* (rows change only under a higher
`pendingVersion`).  `EmptyAnswersAreTrue` rests on that: a "nothing" answer
carries the version at which the queue was seen empty, so later changes only
make it old.  Its invariant `AnswersInv` adds what the calls in flight hold.

**Change feed** (`AccountChangesProofs`).  `FeedTypeCorrect`,
`CursorsAreDistinct`, `FloorIsSound`, `CalmAnswersAreComplete`.  `FeedInv` ties
rows to each entity's last change; `PrunedInv` says of every deleted row that
the floor covers it or a sweep that runs will raise the floor over it;
`RequestInv` says that a request no sweep overlapped finds a row for every
change behind its cursor.

**Automations** (`AutomationRunsProofs`).  `TypeCorrect`, `OutcomesAreFinal`,
`ScheduleIsKept`, `OneRunIsAhead`, `RepetitionNeedsALapse`, `SuccessIsEarned`.
The schedule rests on `EnqueueFacts`: a transition that finds no open run leaves
exactly one, any other leaves the rows alone; `ScheduleInv` is then inductive by
itself.  The history is not: `WorkInv` adds `Blank` (a queued run is known to no
daemon and no request, so a claim meets no old worker), `Leased` (a held run
whose lease never lapsed has a live lease and at most one worker, which only
reports once the work is done) and `Earned` (a success on the wire is of work
that was done).  Most steps move rows, daemons and requests in a few ways only
(`RowMoves`, `DaemonMoves`, `WireMoves`), and `MovesKeepWork` covers them; the
claim, the execution, the lapse and the deletions have steps of their own.

**Session pending queue, from wrong counters** (the same module).
`DriftedTypeCorrect`, `DriftedOrderIsTotal`, `DriftOnlyShrinks`,
`DriftedEmptyAnswersAreTrue`, `DriftedPromptsAreKept`.  `QueueInv` is of no use
here, as neither the count nor `Reserved` holds.  `DriftInv` keeps types, distinct
positions and `Bounded` (some number bounds the positions, so a highest one
exists).  Every step moves rows and count in one of five ways (`OneWay`: a row
joins, a row leaves, all stay, a renumbering, a repair), and what each way does
to order and drift is proved once.

**The queue is a line of prompts** (the same module).  `QueueIsALine` and
`DriftedQueueIsALine`: both specifications implement `PromptQueue`.  The mapping
lists the queued rows by `position` and the messages by `msgSeq`; `InOrder` is
the one sequence in which the key grows, which a CHOOSE picks.  That there is
exactly one is proved in `OrderingProofs` without recursion: the place of a row
is the number of rows not behind it (`Rank`), a bijection by counting.  From
that follow the three ways a list changes: a new greatest key appends
(`InOrderWithLast`), a row that goes closes the gap (`InOrderWithout`), the same
keys give the same list (`InOrderSameKeys`).  One lemma per operation maps it to
its abstract action: enqueue and restore append because of `NextIsNew`,
`HeadIsFirst` makes materializing take the front, `SeqsDense` makes the message
the last of the log.  The invariant needed is `MappedInv`: `DriftInv` and
`SeqsDense`, so nothing about the counters.

**Queue drain** (`PendingQueueRunnerProofs`).  `RunnerTypeCorrect`,
`ViewIsAlwaysTrue`, from any initial count.  The invariant says of every pair of
counters anywhere - in the cache, read by a call, in a reply, an answer, a
broadcast or a runner's view - that it is `Correct`: not newer than the server's,
and equal to it at the same version.  It is preserved because the count never
changes without the version (`Counted`), whether or not the count is right.
`RunnersLeaveServerIntact` shows that the composition implements the server it is
made of (`RunnerSpec => Spec`, and from wrong counts `DriftedSpec`), so the
theorems about the queue hold under the runners; `RunnersDrainTheLine` draws the
two that matter most for them: the line is kept, and no prompt is lost.

**Connection supervisor** (`ConnectionSupervisorProofs`).  `TypeCorrect`,
`NeverEverStranded`, `StopIsFinalAlways`, for any number of transports and
functions in progress.  `NeverStranded` alone is not inductive: `TriesAgain` says
that while the supervisor is offline its timer is set or a function of the
present generation is at a point from which it tries again (`OnItsWay`), and
`StoppedHasNone` that nothing is current after `stop`.

**Mutation outbox** (`MutationOutboxProofs`).  `OutboxTypeCorrect`,
`OutboxIsAttended`, `OneAtATime`, `AcceptedIsNeverLost`,
`AcceptedTurnsArriveInOrder`, `OlderSnapshotsStayAway`, for any mutations, plans,
limits and number of processes.

`OutboxIsAttended` needs of an invariant only that the processes' variables are
functions of the processes (`OfProcesses`); each step is shown to leave its
process attended (`Leaves`) and the others alone.

The types need `Coupled`, which ties where a process is in its flush to what it
holds: only a flush that sends or awaits an answer has a batch, it waits for at
most one write, a write under way belongs to a save that waits, and a process
that is down holds nothing.

The last three rest on `SafeInv`, and hold as long as no two processes have the
outbox open at once (`OneUp`); run `outbox_shared_file` shows that without that
they do not.  Each theorem states both what follows from `[]OneUp` and, by
`OneAtATime`, that this is met whenever the daemon opens no outbox of the
session: a runner that resumes a session starts after its predecessor died.
`SafeInv` speaks of the *promised* mutations, those accepted and those whose
enqueue waits for its write.  `Sound` says of a process that its queue and what
its flush holds have one entry a slot, turns in order, all in hand before all in
the queue, and between them cover every promised mutation that is not done with;
`Written` says the same of one list, the file or the one being written.  None of
the properties is inductive alone: that the file covers what was accepted needs
that the list being written does, which needs that memory does at the moment
`Content` is computed.  `Ordered` (nothing is sent before the turns observed
before it are done with) makes turns arrive in order although late requests
arrive at any time.  What carries the steps are lemmas about lists: what
`Prune`, `Merge` and `Content` keep, cover and leave in order, for lists of any
length, from `AtPlacesProperties` of `OrderingProofs` (filtering keeps the chosen
items, and no others, in their order).
`TimesDistinguish` is assumed: no two mutations carry the same time of
observation, so what the code does with equal times is left out.

**Session turns** (`SessionTurnsProofs`).  `TypeCorrect`, `OutcomesStandAlways`,
`LatestNeverGoesBack`, `ArrivedIsAlwaysShown`, `LiveTurnAlwaysStands`.  The
invariant has two parts beside the types.  `ToldInv` is about what runners tell:
numbers grow with time and with turns, a turn is begun before it is ended, and
nothing of an earlier turn is told after a later one began, except notes and
marks.  `ShownInv` says what the server shows follows from what has arrived.
The lemma that carries it is `NothingOvertakes`: when a fact arrives, all its
author issued before it have arrived or are lost, so `latest` only moves to a
turn begun later.  `LifeArrivesInOrder` and `Accepted` say what that means for
the checks of the server.

**Only model-checked.**  Liveness (`PromptsLeaveQueue`, `CountHeals`,
`EveryRunSettles`, `AcceptedSettles`, `OrphanSettles`), which the prover does not
reach.  Every invariant and action property of the passing runs, and the
refinement, is also a theorem.  `Ordering` picks the ordered sequence by its
property instead of computing it by recursion, so that facts about it follow
from counting; an induction over the length of a list would not have been within
reach of the installed provers.

## 5. Findings

* **A prompt under a count of zero is never delivered.**  The server treats
  `pendingCount` as a hint and looks at the queue; the runner never asks while
  its count is zero (`CLI/api/session/sessionClient.ts:796,3467`).
  Run `pending_miscounted`.  Under the queue's own operations the count is
  exact (theorem `CountIsExact`); it takes drift from elsewhere.
* **A client may miss a deleted change.**  Retention deletes rows before it
  raises the floor, and the route reads account and rows in two queries.
  Run `change_feed_retention`.
* **The runner's and the daemon's outbox write one file.**  Each loads it once
  and then writes its own memory over it (`CLI/api/apiMachine.ts:497`), so a
  mutation that the resumed runner had accepted is lost if the daemon flushes
  and the runner then dies.  Run `outbox_shared_file`.
* **An old end of session cancels a newer turn.**  `applySessionEnd` dates an end
  that is older than ten minutes to its arrival; delivered late to a session
  whose row is inactive at that moment, it cancels the replacement's open turn.
  Run `session_end_stale`.

Seen while modelling, without a run:

* `establishConnection` of the supervisor does not compare generations after it
  awaited the clean-up of the old transport, so a superseded attempt goes on.
  With the socket adapter of the CLI that await lasts a few microtasks;
  `NeverStranded` and `StopIsFinal` hold nevertheless.
* The heartbeat's prune notices a dead runner minutes later and dates its
  settlement to that moment (`CLI/daemon/lifecycle/heartbeat.ts:186`): a
  replacement's turn begun in between is cancelled.  `LiveTurnStands` excepts
  this case by name (`CutShort`).
* A begin that reaches the server after the daemon's settlement of the same exit,
  from the outbox of the runner that died, opens the turn again: the server keeps
  no trace of a settlement that found nothing to settle.  The turn is shown in
  progress until the next turn or end of session.  `OrphanSettles` begins with a
  turn that is shown before its settlement arrives.
* A supervisor whose clean-up of an old transport is overtaken by a restart and
  by an authentication failure waits in phase `connecting` for a transport whose
  listeners are of an old generation.  It takes a probe that is answered within
  the microtasks of that clean-up; `NeverStranded` is about phase `offline`.
* `onChildExited` tells nothing if the daemon has no machine client at that
  moment (`CLI/daemon/sessions/onChildExited.ts:133`).
* The repair of a wrong `pendingCount` by `materializeNextPendingMessage` writes
  no change mark: other clients keep the wrong count until their next snapshot.
* The watermark `deliveredUserMessageSeqV1`, from which a runner is sent the
  prompts it is owed, is a maximum (`CLI/api/session/deliveredUserMessageSeq.ts`).
  A prompt whose broadcast was lost, and that was then only observed by the
  catch-up of a reconnect, which may not deliver
  (`CLI/api/session/sessionClient.ts:1157`), is behind the watermark once a later
  prompt is delivered, and is not handed to the agent; the comment at
  `sessionClient.ts:843` promises at-least-once delivery.  No module has this
  part; the plan begins with it.

## 6. Not modelled

**Inside the modelled parts.**  Payload contents, encryption, HTTP status codes,
event wording, delays and back-off lengths, time-outs' lengths, logging.
Participants of a session and machines of an account are fixed.
`reconcileSessionPendingQueueState` is called only by tests.  The sweep lock
appears only as possible overlap.  `nextRunAt` and templates of automations are
left out, and so is the second report of a run whose report of failure threw.  Of
the drain: the cache of empty answers is written in the step that answers, not
after the await before it, and a runner retries over HTTP once its socket call
has been handled, not while it is.  Of the supervisor: `onBeforeReconnect`
and `onDisconnected` callbacks that throw; those of the CLI do not.  Of the
outbox: mutations its parser rejects, and servers without the endpoint or that
refuse its requests, where a touch is dropped as delivered (`ignored_lossy`); a failed write of a timer's flush ends a runner through its handler of
unhandled rejections, which is a `Crash`; what a failed write of the dead letters
leaves in neither file counts as given up.  Of the turns: issues, anchors and
rollback records beyond whether they suffice; keep-alives as such, so a
keep-alive that arrives after the end of a session shows only as an active row;
one runner at a time takes the session up, later than anything told before;
facts given up never arrive later.

**Other components.**  The repository has well over a million lines, most of
them screens, translations, adapters of external agents and installers; the
models cover the few thousand lines whose correctness depends on interleavings
of several actors.  `PROJECT.json` gives the reason for every component that is
left out.  Three that would be worth a module are next:

## 7. Plan

1. **PromptDelivery**: from `PendingQueueRunner`'s answers, broadcasts and
   catch-up pages to the agent's input, with the watermark, the echo
   suppression that expires, and the retry over HTTP after a lost socket answer.
   Properties: a prompt in the transcript is handed to the agent, and the
   watermark never passes one the agent has not accepted.
2. **ChangesSync**: the processes of one machine paging `AccountChanges` over
   one stored cursor.  Property: each process applies each change of its
   session, across overlapping syncs and restarts.
3. **AutomationWorker**: the claim timer and the assignment cache; discharges
   the fairness of claims that `AutomationRuns` assumes.
