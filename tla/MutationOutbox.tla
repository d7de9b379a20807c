---------------------------- MODULE MutationOutbox ----------------------------
(***************************************************************************)
(* createSessionMutationOutbox: the durable outbox through which a CLI     *)
(* process tells the server what happened to one session - turns begun and *)
(* ended, snapshots of transcript messages, the end of the session - with  *)
(* the file that keeps what the server has not acknowledged.               *)
(*                                                                         *)
(* A mutation is accepted when enqueue returns: it has been written to the *)
(* file.  A flush takes the queue as its batch and delivers it item by     *)
(* item; mutations enqueued meanwhile go to a new queue.  The file is      *)
(* always written from both.  The processes of one session write the same  *)
(* file: its runner, and the daemon when it reports the runner's end.      *)
(*                                                                         *)
(* What runs between two awaits is one action.  A time of next attempt is  *)
(* the bit "waiting"; payloads are left out, and so are mutations the      *)
(* parser rejects and answers of servers that lack an endpoint.            *)
(***************************************************************************)
EXTENDS Ordering

CONSTANTS
  Process, Daemon,    \* who writes the file; Daemon speaks only for a dead runner
  Mutation,           \* records [kind, key, at, author, life], at distinct
  Plans,              \* bound: the sets of mutations a behaviour may be about
  MaxAttempts,        \* resolveSessionMutationMaxAttempts (12)
  SnapshotLimit,      \* resolveSessionMutationTranscriptFlushBatchLimit (25)
  MaxStarts,          \* bound: how often each process starts
  MaxTrouble,         \* bound: kinds of Trouble a behaviour sees, each once
  None

ASSUME BoundsAreNatural ==
  /\ MaxAttempts \in Nat \ {0} /\ SnapshotLimit \in Nat \ {0}
  /\ MaxStarts \in [Process -> Nat] /\ MaxTrouble \in Nat
ASSUME PlansAreOfMutations == Plans \subseteq SUBSET Mutation
ASSUME TimesDistinguish == \A m, n \in Mutation : m.at \in Nat /\ (m.at = n.at => m = n)

VARIABLES
  up, closed,         \* the outbox exists and is loaded; close() was called
  queue,              \* mutations
  stage, reason,      \* where the flush in flight stands, and what it was called for
  batch, kept,        \* its items still to do, and those it keeps (remaining)
  given,              \* its dead letters
  changed,            \* didChange, and loadedMutationsNeedPersist between flushes
  snapshots,          \* transcriptDeliveriesThisFlush
  wanted,             \* flushes called that wait for their turn
  timer,              \* is retryTimer set?
  saves, writing,     \* persistTail: who waits for a write, and what is being written
  file, deadFile,     \* the outbox file and the file of dead letters
  wire, log,          \* requests in flight, and what has reached the server, in order
  issued, accepted, abandoned,   \* passed to enqueue; enqueue returned; given up
  starts, trouble, plan

flush == <<stage, reason, batch, kept, given, changed, snapshots>>
disk == <<saves, writing, file, deadFile>>
net == <<wire, log>>
history == <<issued, accepted, abandoned, starts, trouble, plan>>
vars == <<up, closed, queue, flush, wanted, timer, disk, net, history>>

\* Bound.  The file cannot be written, the server rejects the token, or a
\* request arrives after its sender stopped waiting for the answer.
Trouble == {"write", "auth", "late"}
Strikes(t) ==
  /\ t \notin trouble /\ Cardinality(trouble) < MaxTrouble
  /\ trouble' = trouble \cup {t}

Entry == [m : Mutation, attempts : 0..MaxAttempts, waiting : BOOLEAN]
Fresh(m) == [m |-> m, attempts |-> 0, waiting |-> FALSE]
Items(s) == {s[i] : i \in DOMAIN s}
Facts(s) == {e.m : e \in Items(s)}

\* begin, change and settle are session_turn mutations: settle is the daemon's
\* end_session, which names no turn.  The key of a snapshot is its localId.
IsTurn(m) == m.kind \in {"begin", "change", "settle"}

\* Faulty variant: every snapshot of a message is a mutation of its own.
SameSlotIfSame(m, n) == m = n

\* readQueuedMutationCoalesceKey and the mutationId.
SameSlot(m, n) == IF IsTurn(m) THEN m = n ELSE m.kind = n.kind /\ m.key = n.key

\* shouldReplaceCoalescedMutation, for two mutations of one slot.
Replaces(new, old) == new.at >= old.at

\* mergeQueuedSessionMutations, for lists that each hold a slot once.
Merge(earlier, later) ==
  LET Newer(e) == {f \in Items(later) : SameSlot(f.m, e.m) /\ Replaces(f.m, e.m)} IN
  [i \in DOMAIN earlier |-> IF Newer(earlier[i]) = {} THEN earlier[i]
                            ELSE CHOOSE f \in Newer(earlier[i]) : TRUE]
    \o AtPlaces(later, {j \in DOMAIN later : \A e \in Items(earlier) : ~SameSlot(later[j].m, e.m)})

\* pruneSessionEndsSupersededByLaterTurnBegins.
Superseded(e, s) == e.m.kind = "end" /\ \E f \in Items(s) : f.m.kind = "begin" /\ f.m.at > e.m.at
Prune(s) == AtPlaces(s, {i \in DOMAIN s : ~Superseded(s[i], s)})

\* Where inFlightMutations points while a flush delivers.
InFlight(p) == Merge(kept[p], batch[p])

\* Faulty variant: persist forgets what the flush holds.
ContentOfQueue(p) == Prune(queue[p])

\* What persist writes.
Content(p) == Prune(Merge(InFlight(p), queue[p]))

\* The type of every variable.
OutboxTypeOK ==
  /\ \A v \in {up, closed, changed, timer} : v \in [Process -> BOOLEAN]
  /\ \A v \in {queue, batch, kept} : DOMAIN v = Process /\ \A p \in Process : Items(v[p]) \subseteq Entry
  /\ stage \in [Process -> {"idle", "sending", "awaiting", "recording", "saving"}]
  /\ reason \in [Process -> {"soft", "flush", "close"}]
  /\ given \in [Process -> SUBSET Mutation]
  /\ snapshots \in [Process -> 0..SnapshotLimit]
  /\ wanted \in [Process -> SUBSET {"soft", "flush", "close"}]
  /\ \A p \in Process : /\ Items(saves[p]) \subseteq [of : {"enqueue", "flush", "close"}, m : Mutation \cup {None}]
                        /\ writing[p] # None => saves[p] # <<>> /\ Items(writing[p]) \subseteq Entry
  /\ Items(file) \subseteq Entry
  /\ \A s \in {deadFile, wire, Items(log), issued, accepted, abandoned} : s \subseteq Mutation
  /\ starts \in [Process -> Nat] /\ trouble \in SUBSET Trouble /\ plan \in Plans

Init ==
  /\ up = [p \in Process |-> FALSE] /\ closed = [p \in Process |-> FALSE]
  /\ queue = [p \in Process |-> <<>>]
  /\ stage = [p \in Process |-> "idle"] /\ reason = [p \in Process |-> "soft"]
  /\ batch = [p \in Process |-> <<>>] /\ kept = [p \in Process |-> <<>>]
  /\ given = [p \in Process |-> {}] /\ changed = [p \in Process |-> FALSE]
  /\ snapshots = [p \in Process |-> 0]
  /\ wanted = [p \in Process |-> {}] /\ timer = [p \in Process |-> FALSE]
  /\ saves = [p \in Process |-> <<>>] /\ writing = [p \in Process |-> None]
  /\ file = <<>> /\ deadFile = {} /\ wire = {} /\ log = <<>>
  /\ issued = {} /\ accepted = {} /\ abandoned = {}
  /\ starts = [p \in Process |-> 0] /\ trouble = {}
  /\ plan \in Plans

-----------------------------------------------------------------------------
\* The outbox comes into being and loads the file.  A runner's lives as long as
\* its process; the daemon makes one per session, when it first reports an end.
MayStart(p) == ~up[p] /\ starts[p] < MaxStarts[p] /\ \A q \in Process : ~up[q] \/ q = Daemon

Start(p) ==
  /\ MayStart(p)
  /\ p = Daemon => \E q \in Process \ {p} : starts[q] > 0
  /\ up' = [up EXCEPT ![p] = TRUE]
  /\ starts' = [starts EXCEPT ![p] = @ + 1]
  /\ queue' = [queue EXCEPT ![p] = Prune(file)]
  /\ changed' = [changed EXCEPT ![p] = Len(Prune(file)) # Len(file)]
  /\ wanted' = [wanted EXCEPT ![p] = {"soft"}]
  /\ UNCHANGED <<closed, stage, reason, batch, kept, given, snapshots, timer, disk, net,
                 issued, accepted, abandoned, trouble, plan>>

\* The memory of process p is gone; saves[p] and a write not renamed go with it.
Forget(p) ==
  /\ up' = [up EXCEPT ![p] = FALSE] /\ closed' = [closed EXCEPT ![p] = FALSE]
  /\ queue' = [queue EXCEPT ![p] = <<>>]
  /\ stage' = [stage EXCEPT ![p] = "idle"] /\ reason' = [reason EXCEPT ![p] = "soft"]
  /\ batch' = [batch EXCEPT ![p] = <<>>] /\ kept' = [kept EXCEPT ![p] = <<>>]
  /\ given' = [given EXCEPT ![p] = {}] /\ changed' = [changed EXCEPT ![p] = FALSE]
  /\ snapshots' = [snapshots EXCEPT ![p] = 0]
  /\ wanted' = [wanted EXCEPT ![p] = {}] /\ timer' = [timer EXCEPT ![p] = FALSE]
  /\ saves' = [saves EXCEPT ![p] = <<>>] /\ writing' = [writing EXCEPT ![p] = None]

\* The process is killed.  Bound: only if it may start again.
Crash(p) ==
  /\ up[p] /\ starts[p] < MaxStarts[p]
  /\ Forget(p)
  /\ UNCHANGED <<file, deadFile, net, history>>

\* Who waits for a write.
Save(of, m) == [of |-> of, m |-> m]
Saver(p) == Head(saves[p])

\* enqueue, up to the wait for its write.  A process observes its facts in order.
Enqueue(p, m) ==
  /\ up[p] /\ ~closed[p]
  /\ m.author = p /\ m.life = starts[p] /\ \A n \in issued : n.at < m.at
  /\ \A n \in plan : n.author = p /\ n.life = m.life /\ n.at < m.at => n \in issued
  /\ p = Daemon => \A q \in Process \ {p} : ~up[q]
  /\ issued' = issued \cup {m}
  /\ queue' = [queue EXCEPT ![p] = Prune(Merge(@, <<Fresh(m)>>))]
  /\ saves' = [saves EXCEPT ![p] = Append(@, Save("enqueue", m))]
  /\ UNCHANGED <<up, closed, flush, wanted, timer, writing, file, deadFile, net,
                 accepted, abandoned, starts, trouble, plan>>

\* persist: the next write starts, of what the process holds now.
BeginWrite(p) ==
  /\ saves[p] # <<>> /\ writing[p] = None
  /\ writing' = [writing EXCEPT ![p] = Content(p)]
  /\ UNCHANGED <<up, closed, queue, flush, wanted, timer, saves, file, deadFile, net, history>>

\* Faulty variant: only mutations that are due count for the retry timer.
RetryTimerIfDue(p, q) ==
  timer' = [timer EXCEPT ![p] = ~closed[p] /\ \E e \in Items(q) : ~e.waiting]

\* scheduleRetry, at the end of a flush.
RetryTimer(p, q) == timer' = [timer EXCEPT ![p] = ~closed[p] /\ q # <<>>]

\* flush's promise settles: close() writes the file once more.
Settles(p, s) == saves' = [saves EXCEPT ![p] = IF reason'[p] = "close" THEN Append(s, Save("close", None)) ELSE s]

\* The write ends: enqueue returns and flushes; a flush that ended sets the
\* retry timer; close() returns and the process leaves.
EndWrite(p) ==
  /\ writing[p] # None
  /\ file' = writing[p]
  /\ \/ /\ Saver(p).of = "close"
        /\ Forget(p)
        /\ UNCHANGED accepted
     \/ /\ Saver(p).of = "flush"
        /\ stage' = [stage EXCEPT ![p] = "idle"]
        /\ RetryTimer(p, queue[p])
        /\ writing' = [writing EXCEPT ![p] = None]
        /\ UNCHANGED <<up, closed, queue, reason, batch, kept, given, changed, snapshots,
                       wanted, accepted>>
        /\ Settles(p, Tail(saves[p]))
     \/ /\ Saver(p).of = "enqueue"
        /\ accepted' = accepted \cup {Saver(p).m}
        /\ wanted' = [wanted EXCEPT ![p] = IF closed[p] THEN @ ELSE @ \cup {"soft"}]
        /\ saves' = [saves EXCEPT ![p] = Tail(@)]
        /\ writing' = [writing EXCEPT ![p] = None]
        /\ UNCHANGED <<up, closed, queue, flush, timer>>
  /\ UNCHANGED <<deadFile, net, issued, abandoned, starts, trouble, plan>>

\* close() waits for the flush in flight, which is its own or comes before it.
CloseWaits(p) == reason[p] = "close" \/ "close" \in wanted[p]

\* The write fails and its caller with it: enqueue throws without flushing; a
\* flush throws without setting the timer, and so do the flushes that wait for
\* it; close() throws, and the process leaves.
FailWrite(p) ==
  /\ writing[p] # None /\ Strikes("write")
  /\ \/ /\ Saver(p).of = "close" \/ (Saver(p).of = "flush" /\ CloseWaits(p))
        /\ Forget(p)
     \/ /\ Saver(p).of = "enqueue" \/ (Saver(p).of = "flush" /\ ~CloseWaits(p))
        /\ stage' = [stage EXCEPT ![p] = IF Saver(p).of = "flush" THEN "idle" ELSE @]
        /\ wanted' = [wanted EXCEPT ![p] = IF Saver(p).of = "flush" THEN {} ELSE @]
        /\ saves' = [saves EXCEPT ![p] = Tail(@)]
        /\ writing' = [writing EXCEPT ![p] = None]
        /\ UNCHANGED <<up, closed, queue, reason, batch, kept, given, changed, snapshots, timer>>
  /\ UNCHANGED <<file, deadFile, net, issued, accepted, abandoned, starts, plan>>

-----------------------------------------------------------------------------
\* The loop over the batch goes on with items b, or is over.  q is the queue, k
\* what the flush keeps, g its dead letters, c didChange.
Over(p, q, g, c) ==
  /\ queue' = [queue EXCEPT ![p] = q]
  /\ batch' = [batch EXCEPT ![p] = <<>>] /\ kept' = [kept EXCEPT ![p] = <<>>]
  /\ given' = [given EXCEPT ![p] = g] /\ changed' = [changed EXCEPT ![p] = FALSE]
  /\ \/ /\ ~c
        /\ stage' = [stage EXCEPT ![p] = "idle"]
        /\ RetryTimer(p, q)
        /\ Settles(p, saves[p])
     \/ /\ c /\ g # {}
        /\ stage' = [stage EXCEPT ![p] = "recording"]
        /\ timer' = [timer EXCEPT ![p] = FALSE]
        /\ UNCHANGED saves
     \/ /\ c /\ g = {}
        /\ stage' = [stage EXCEPT ![p] = "saving"]
        /\ timer' = [timer EXCEPT ![p] = FALSE]
        /\ saves' = [saves EXCEPT ![p] = Append(@, Save("flush", None))]

GoOn(p, q, k, b, g, c) ==
  \/ /\ b = <<>>
     /\ Over(p, Merge(k, q), g, c)
  \/ /\ b # <<>>
     /\ queue' = [queue EXCEPT ![p] = q]
     /\ batch' = [batch EXCEPT ![p] = b] /\ kept' = [kept EXCEPT ![p] = k]
     /\ given' = [given EXCEPT ![p] = g] /\ changed' = [changed EXCEPT ![p] = c]
     /\ stage' = [stage EXCEPT ![p] = "sending"]
     /\ timer' = [timer EXCEPT ![p] = FALSE]
     /\ UNCHANGED saves

\* flush, once no other is in flight.
StartFlush(p, r) ==
  /\ up[p] /\ stage[p] = "idle" /\ (closed[p] => r # "soft")
  /\ reason' = [reason EXCEPT ![p] = r]
  /\ snapshots' = [snapshots EXCEPT ![p] = 0]
  /\ LET b == Prune(queue[p]) IN
       GoOn(p, <<>>, <<>>, b, {}, changed[p] \/ Len(b) # Len(queue[p]))
  /\ UNCHANGED <<up, closed, writing, file, deadFile, net, history>>

RunFlush(p) == \E r \in wanted[p] : StartFlush(p, r) /\ wanted' = [wanted EXCEPT ![p] = @ \ {r}]

\* scheduleRetry's timer: due when the earliest attempt is.
TimerFires(p) ==
  /\ timer[p] /\ \E e \in Items(queue[p]) : ~e.waiting
  /\ StartFlush(p, "soft")
  /\ UNCHANGED wanted

\* The time of the next attempt of a queued mutation comes.
BackoffEnds(p) ==
  \E i \in DOMAIN queue[p] :
    /\ queue[p][i].waiting
    /\ queue' = [queue EXCEPT ![p][i].waiting = FALSE]
    /\ UNCHANGED <<up, closed, flush, wanted, timer, disk, net, history>>

\* The socket connected: onConnected flushes.
Connect(p) ==
  /\ up[p] /\ ~closed[p] /\ queue[p] # <<>>
  /\ wanted' = [wanted EXCEPT ![p] = @ \cup {"soft"}]
  /\ UNCHANGED <<up, closed, queue, flush, timer, disk, net, history>>

\* The session client drains before it ends: a flush that heeds neither times
\* nor limits.  Bound: only if the process may start again.
Drain(p) ==
  /\ up[p] /\ ~closed[p] /\ queue[p] # <<>> /\ starts[p] < MaxStarts[p]
  /\ wanted' = [wanted EXCEPT ![p] = @ \cup {"flush"}]
  /\ UNCHANGED <<up, closed, queue, flush, timer, disk, net, history>>

\* close(): such a flush, and a last write.  The same bound.
Close(p) ==
  /\ up[p] /\ ~closed[p] /\ starts[p] < MaxStarts[p]
  /\ closed' = [closed EXCEPT ![p] = TRUE]
  /\ timer' = [timer EXCEPT ![p] = FALSE]
  /\ wanted' = [wanted EXCEPT ![p] = {"close"} \cup (@ \ {"soft"})]
  /\ UNCHANGED <<up, queue, flush, disk, net, history>>

-----------------------------------------------------------------------------
\* The item the flush has come to.
Sending(p) == stage[p] = "sending"
This(p) == Head(batch[p])
NotDue(p) == reason[p] = "soft" /\ This(p).waiting

\* Faulty variant: one snapshot too many.
OverLimitByOne(p) == /\ reason[p] = "soft" /\ This(p).m.kind = "snapshot"
                     /\ snapshots[p] > SnapshotLimit

OverLimit(p) == /\ reason[p] = "soft" /\ This(p).m.kind = "snapshot"
                /\ snapshots[p] >= SnapshotLimit
Same(p) == UNCHANGED <<up, closed, reason, wanted, writing, file, deadFile, issued, accepted, starts, plan>>

\* Faulty variant: a failed item goes to the end.
RemainingBehind(p, e) == kept[p] \o Tail(batch[p]) \o <<e>>

\* remaining, when the flush ends at its item, which is now e.
Remaining(p, e) == kept[p] \o <<e>> \o Tail(batch[p])

\* Not due: a snapshot is passed over, anything else holds up what follows.
PassOver(p) ==
  /\ Sending(p) /\ NotDue(p) /\ This(p).m.kind = "snapshot"
  /\ Same(p) /\ UNCHANGED <<snapshots, net, abandoned, trouble>>
  /\ GoOn(p, queue[p], Append(kept[p], This(p)), Tail(batch[p]), given[p], changed[p])

HoldUp(p) ==
  /\ Sending(p) /\ NotDue(p) /\ This(p).m.kind # "snapshot"
  /\ Same(p) /\ UNCHANGED <<snapshots, net, abandoned, trouble>>
  /\ Over(p, Merge(Remaining(p, This(p)), queue[p]), given[p], changed[p])

\* A flush delivers a limited number of snapshots; the others wait.
Defer(p) ==
  /\ Sending(p) /\ ~NotDue(p) /\ OverLimit(p)
  /\ Same(p) /\ UNCHANGED <<snapshots, net, abandoned, trouble>>
  /\ GoOn(p, queue[p], Append(kept[p], [This(p) EXCEPT !.waiting = TRUE]), Tail(batch[p]), given[p], TRUE)

\* deliver: over the socket, or HTTP when that fails; either may arrive late,
\* or never.
Send(p) ==
  /\ Sending(p) /\ ~NotDue(p) /\ ~OverLimit(p)
  /\ stage' = [stage EXCEPT ![p] = "awaiting"]
  /\ snapshots' = [snapshots EXCEPT ![p] =
       IF reason[p] = "soft" /\ This(p).m.kind = "snapshot" THEN @ + 1 ELSE @]
  /\ wire' = wire \cup {This(p).m}
  /\ UNCHANGED <<queue, batch, kept, given, changed, timer, saves, log, abandoned, trouble>>
  /\ Same(p)

Arrive(m) ==
  /\ m \in wire
  /\ wire' = wire \ {m}
  /\ log' = IF m \in Items(log) THEN log ELSE Append(log, m)
  /\ UNCHANGED <<up, closed, queue, flush, wanted, timer, disk, history>>

\* The server acknowledges.
Ack(p) ==
  /\ stage[p] = "awaiting" /\ This(p).m \in Items(log) \ wire
  /\ Same(p) /\ UNCHANGED <<snapshots, net, abandoned, trouble>>
  /\ GoOn(p, queue[p], kept[p], Tail(batch[p]), given[p], TRUE)

\* Faulty variant: attempts are not counted.
RetriedUncounted(p, n) == [This(p) EXCEPT !.waiting = TRUE]

\* The item as it will be tried again, after n more attempts.
Retried(p, n) == [This(p) EXCEPT !.attempts = @ + n, !.waiting = TRUE]

\* An answer that is an authentication error costs no attempt; the flush ends.
AuthFails(p) ==
  /\ stage[p] = "awaiting" /\ Strikes("auth")
  /\ Same(p) /\ UNCHANGED <<snapshots, net, abandoned>>
  /\ Over(p, Merge(Remaining(p, Retried(p, 0)), queue[p]), given[p], TRUE)

\* No acknowledgement, because the request or the answer was lost or is late:
\* the mutation waits for its next attempt and the flush ends, or its attempts
\* are exhausted and it becomes a dead letter, together with the mutations of
\* the same turn right behind it.
Unanswered(p) ==
  /\ stage[p] = "awaiting"
  /\ \/ wire' = wire \ {This(p).m} /\ UNCHANGED trouble
     \/ This(p).m \in wire /\ Strikes("late") /\ UNCHANGED wire
  /\ Same(p) /\ UNCHANGED <<snapshots, log>>

Fail(p) ==
  /\ Unanswered(p) /\ This(p).attempts + 1 < MaxAttempts
  /\ UNCHANGED abandoned
  /\ Over(p, Merge(Remaining(p, Retried(p, 1)), queue[p]), given[p], TRUE)

Dependents(m, b) ==
  {i \in DOMAIN b : /\ m.kind \in {"begin", "change"}
                    /\ \A j \in 1..i : b[j].m.kind \in {"begin", "change"} /\ b[j].m.key = m.key}

GiveUp(p) ==
  /\ Unanswered(p) /\ This(p).attempts + 1 >= MaxAttempts
  /\ LET rest == Tail(batch[p])
         n == Cardinality(Dependents(This(p).m, rest))
         gone == {This(p).m} \cup Facts(SubSeq(rest, 1, n))
     IN /\ abandoned' = abandoned \cup gone
        /\ GoOn(p, queue[p], kept[p], SubSeq(rest, n + 1, Len(rest)), given[p] \cup gone, TRUE)

\* appendSessionMutationDeadLetters, then persist.
Record(p) ==
  /\ stage[p] = "recording"
  /\ deadFile' = deadFile \cup given[p]
  /\ given' = [given EXCEPT ![p] = {}]
  /\ stage' = [stage EXCEPT ![p] = "saving"]
  /\ saves' = [saves EXCEPT ![p] = Append(@, Save("flush", None))]
  /\ UNCHANGED <<up, closed, queue, reason, batch, kept, changed, snapshots, wanted, timer,
                 writing, file, net, history>>

\* The dead letters cannot be written: the flush throws.
RecordFails(p) ==
  /\ stage[p] = "recording" /\ Strikes("write")
  /\ \/ /\ CloseWaits(p)
        /\ Forget(p)
     \/ /\ ~CloseWaits(p)
        /\ given' = [given EXCEPT ![p] = {}]
        /\ stage' = [stage EXCEPT ![p] = "idle"]
        /\ wanted' = [wanted EXCEPT ![p] = {}]
        /\ UNCHANGED <<up, closed, queue, reason, batch, kept, changed, snapshots, timer, saves, writing>>
  /\ UNCHANGED <<file, deadFile, net, issued, accepted, abandoned, starts, plan>>

-----------------------------------------------------------------------------
Next ==
  \/ \E p \in Process :
       \/ Start(p) \/ Crash(p) \/ BeginWrite(p) \/ EndWrite(p) \/ FailWrite(p)
       \/ RunFlush(p) \/ TimerFires(p) \/ BackoffEnds(p)
       \/ Connect(p) \/ Drain(p) \/ Close(p)
       \/ PassOver(p) \/ HoldUp(p) \/ Defer(p) \/ Send(p)
       \/ Ack(p) \/ AuthFails(p) \/ Fail(p) \/ GiveUp(p)
       \/ Record(p) \/ RecordFails(p)
       \/ \E m \in plan : Enqueue(p, m)
  \/ \E m \in wire : Arrive(m)

Spec == Init /\ [][Next]_vars

\* The event loop runs what can run, timers and backoffs come due, an answer
\* comes or the wait for it ends, and a session whose process died is resumed.
\* Backoffs end while a flush holds the queue too: hence the strong fairness.
Fairness == \A p \in Process :
  /\ WF_vars(Start(p)) /\ WF_vars(BeginWrite(p)) /\ WF_vars(EndWrite(p) \/ FailWrite(p))
  /\ WF_vars(RunFlush(p)) /\ WF_vars(TimerFires(p)) /\ SF_vars(BackoffEnds(p))
  /\ WF_vars(PassOver(p) \/ HoldUp(p) \/ Defer(p) \/ Send(p))
  /\ WF_vars(Record(p) \/ RecordFails(p))
  /\ WF_vars(Ack(p) \/ AuthFails(p) \/ Fail(p) \/ GiveUp(p))
FairSpec == Spec /\ Fairness

-----------------------------------------------------------------------------
Kept(m) == m \in Facts(file) \cup Items(log) \cup abandoned

\* n says all that m says: a later snapshot of the same message, a later end of
\* the session, or a turn begun after that end.
Supersedes(n, m) ==
  /\ ~IsTurn(m) /\ n # m
  /\ \/ m.kind = n.kind /\ m.key = n.key /\ n.at >= m.at
     \/ m.kind = "end" /\ n.kind = "begin" /\ n.at > m.at

\* A mutation whose enqueue returned is never lost, whenever the process is
\* killed and whatever write fails: it is in the file, the server has it, its
\* attempts were exhausted, or this holds of one that supersedes it.
NothingAcceptedIsLost ==
  \A m \in accepted : Kept(m) \/ \E n \in issued : Supersedes(n, m) /\ Kept(n)

\* Accepted turns reach the server before any turn observed after them, over
\* retries, coalescing, restarts and requests that arrive late, unless given up.
TurnsArriveInOrder ==
  \A i, j \in DOMAIN log :
    /\ i < j /\ IsTurn(log[i]) /\ IsTurn(log[j])
    /\ log[j] \in accepted \ abandoned
    => log[i].at < log[j].at

\* m is an older snapshot of the message of n.
OlderSnapshot(m, n) == m.kind = "snapshot" /\ m.key = n.key /\ m.at < n.at

\* Once a snapshot is accepted, the file never holds an older one of the same
\* message, and none is sent after it, whichever of the two was being retried.
AcceptedSnapshotStands ==
  \A n \in accepted : n.kind = "snapshot" =>
    /\ \A p \in Process : stage[p] = "awaiting" /\ n \in wire \cup Items(log) =>
         ~OlderSnapshot(This(p).m, n)
    /\ \A e \in Items(file) : ~OlderSnapshot(e.m, n)

\* What waits in the queue of an open outbox is attended to: a timer is set, or
\* something is under way that flushes or sets it.
Attended(p) ==
  up[p] /\ ~closed[p] /\ queue[p] # <<>> =>
    timer[p] \/ stage[p] # "idle" \/ wanted[p] # {} \/ saves[p] # <<>>

\* The same, as long as no write of the file has failed.
AttendedWhileDiskWorks == "write" \notin trouble => \A p \in Process : Attended(p)

\* Whatever is accepted reaches the server, is given up or superseded in the
\* end, over crashes and lost messages, as long as no write has failed.
Settled(m) == \E n \in Items(log) \cup abandoned : n = m \/ Supersedes(n, m)
AcceptedSettles == []<>(\A m \in accepted : Settled(m) \/ "write" \in trouble)
=============================================================================
