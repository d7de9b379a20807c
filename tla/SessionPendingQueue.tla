------------------------ MODULE SessionPendingQueue ------------------------
(***************************************************************************)
(* The server's pending queue of one session: prompts that users queue     *)
(* while the agent is busy or offline, and that a runner (the CLI process  *)
(* that drives the agent) moves one by one into the session transcript.    *)
(*                                                                         *)
(* Every service function runs its reads and writes in one serializable    *)
(* transaction (inTx retries on a write conflict), so each is one action.  *)
(* materializeNextPendingMessage is the exception: it reads the session    *)
(* and, on its fast path, the queue, before it opens the transaction, and  *)
(* the socket handler in front of it consults a cache of "nothing pending" *)
(* answers; each of those awaits is a step of its own.                     *)
(*                                                                         *)
(* Calls that write nothing (a repeated enqueue, discarding what is not    *)
(* queued, a bad reorder) are stuttering steps and have no action.         *)
(***************************************************************************)
EXTENDS Integers, FiniteSets, Functions

CONSTANTS
  LocalId,      \* client-chosen ids, the idempotency keys of prompts
  Content,      \* contents a prompt can have
  Policies,     \* sets of contents a deployment's storage policy may accept
  Participant,  \* the accounts of the session: its owner and those it is shared with
  Runner,       \* connections that may call materialize-next (owner only)
  None,         \* no content, no cached answer, no reply
  MaxChanges,   \* bound: users stop when every Account.seq has reached it
  MaxDeploys    \* bound: how often the server process is replaced

ASSUME LocalIdFinite == IsFiniteSet(LocalId)
ASSUME PoliciesAccept == Policies # {} /\ \A P \in Policies : P \subseteq Content
ASSUME NoneIsFresh == None \notin Content /\ None \notin [count : Nat, version : Nat]
ASSUME BoundsAreNat == MaxChanges \in Nat /\ MaxDeploys \in Nat

VARIABLES
  status, position, content,   \* SessionPendingMessage rows, by localId
  pendingCount, pendingVersion, pendingQueueSeq, seq,   \* columns of Session
  msgSeq, msgContent,          \* SessionMessage rows, by localId (0: no row)
  accountSeq, change,          \* Account.seq and the session's AccountChange row
  policy, deploys,             \* contents the server accepts now; its restarts so far
  noopCache,                   \* pendingMaterializeNoopByUserSession
  call, reply,                 \* the runners' calls and the last "nothing" reply
  kept                         \* history: prompts enqueued and not deleted since

rows == <<status, position, content>>
session == <<pendingCount, pendingVersion, pendingQueueSeq>>
transcript == <<seq, msgSeq, msgContent>>
feed == <<accountSeq, change>>
server == <<policy, deploys>>
runners == <<noopCache, call, reply>>
vars == <<rows, session, transcript, feed, server, runners, kept>>

Queued == {l \in LocalId : status[l] = "queued"}

Answer == [count : Nat, version : Nat]
PendingHint(n, v) == [kind |-> "pending", count |-> n, version |-> v]
MessageHint(n) == [kind |-> "message", seq |-> n]
Hint == [kind : {"pending"}, count : Nat, version : Nat]
          \cup [kind : {"message"}, seq : Nat]
          \cup {[kind |-> "none"]}

Call(pc, socket, n, v) == [pc |-> pc, socket |-> socket, count |-> n, version |-> v]
Idle == Call("idle", FALSE, 0, 0)
Calls == [pc : {"idle", "consult", "start", "probe", "ready"},
          socket : BOOLEAN, count : Nat, version : Nat]

TypeOK ==
  /\ status \in [LocalId -> {"none", "queued", "discarded"}]
  /\ position \in [LocalId -> Nat]
  /\ content \in [LocalId -> Content \cup {None}]
  /\ pendingCount \in Nat /\ pendingVersion \in Nat
  /\ pendingQueueSeq \in Nat /\ seq \in Nat
  /\ msgSeq \in [LocalId -> Nat]
  /\ msgContent \in [LocalId -> Content \cup {None}]
  /\ accountSeq \in [Participant -> Nat]
  /\ change \in [Participant -> [cursor : Nat, hint : Hint]]
  /\ policy \in Policies /\ deploys \in Nat
  /\ noopCache \in Answer \cup {None}
  /\ call \in [Runner -> Calls]
  /\ reply \in [Runner -> Answer \cup {None}]
  /\ kept \in SUBSET LocalId

NewSession ==
  /\ accountSeq = [p \in Participant |-> 0]
  /\ change = [p \in Participant |-> [cursor |-> 0, hint |-> [kind |-> "none"]]]
  /\ pendingVersion = 0 /\ seq = 0
  /\ msgSeq = [l \in LocalId |-> 0] /\ msgContent = [l \in LocalId |-> None]
  /\ policy \in Policies /\ deploys = 0
  /\ noopCache = None
  /\ call = [r \in Runner |-> Idle] /\ reply = [r \in Runner |-> None]

Init ==
  /\ NewSession
  /\ status = [l \in LocalId |-> "none"]
  /\ position = [l \in LocalId |-> 0] /\ content = [l \in LocalId |-> None]
  /\ pendingCount = 0 /\ pendingQueueSeq = 0
  /\ kept = {}

(***************************************************************************)
(* The state the repair code exists for: rows queued under a pendingCount  *)
(* that does not count them, and a pendingQueueSeq behind their positions. *)
(***************************************************************************)
InitDrifted ==
  /\ NewSession
  /\ \E Q \in SUBSET LocalId : \E order \in Bijection(Q, 1..Cardinality(Q)) :
       /\ status = [l \in LocalId |-> IF l \in Q THEN "queued" ELSE "none"]
       /\ position = [l \in LocalId |-> IF l \in Q THEN order[l] ELSE 0]
       /\ \E c \in policy : content = [l \in LocalId |-> IF l \in Q THEN c ELSE None]
       /\ pendingCount \in 0..(Cardinality(Q) + 1)
       /\ pendingQueueSeq \in {0, Cardinality(Q)}
       /\ kept = Q
-----------------------------------------------------------------------------
(***************************************************************************)
(* Change tracking inside the transactions.                                *)
(***************************************************************************)

\* markSessionParticipantsChanged, called `calls` times: every participant's
\* Account.seq grows by one a call, and the one AccountChange row of the
\* session keeps the last cursor and the last hint.
MarkParticipants(calls, lastHint) ==
  /\ accountSeq' = [p \in Participant |-> accountSeq[p] + calls]
  /\ change' = [p \in Participant |->
                  [cursor |-> accountSeq[p] + calls, hint |-> lastHint]]

\* Faulty variant: the version is not counted up when the count stays.
VersionFollowsCount(delta) ==
  /\ pendingCount' = IF pendingCount + delta < 0 THEN 0 ELSE pendingCount + delta
  /\ pendingVersion' = pendingVersion + (IF delta = 0 THEN 0 ELSE 1)
  /\ MarkParticipants(1, PendingHint(pendingCount', pendingVersion'))

\* Faulty variant: the hint is built from the row read before the update.
HintFromOldRow(delta) ==
  /\ pendingCount' = IF pendingCount + delta < 0 THEN 0 ELSE pendingCount + delta
  /\ pendingVersion' = pendingVersion + 1
  /\ MarkParticipants(1, PendingHint(pendingCount, pendingVersion))

\* Faulty variant: the count is decremented without the floor at zero.
CountUnclamped(delta) ==
  /\ pendingCount' = pendingCount + delta
  /\ pendingVersion' = pendingVersion + 1
  /\ MarkParticipants(1, PendingHint(pendingCount', pendingVersion'))

\* applyPendingSessionStateChange: the count moves by delta and never below
\* zero, the version always grows, and the participants are told of both.
ApplyPendingStateChange(delta) ==
  /\ pendingCount' = IF pendingCount + delta < 0 THEN 0 ELSE pendingCount + delta
  /\ pendingVersion' = pendingVersion + 1
  /\ MarkParticipants(1, PendingHint(pendingCount', pendingVersion'))

\* reserveNextPendingQueuePosition
HighestQueued ==
  IF Queued = {} THEN 0
  ELSE CHOOSE n \in {position[l] : l \in Queued} : \A l \in Queued : position[l] <= n
\* Faulty variant: only the reserved numbers are looked at, not the rows.
PositionAfterSeq == pendingQueueSeq + 1
NextPosition ==
  (IF HighestQueued > pendingQueueSeq THEN HighestQueued ELSE pendingQueueSeq) + 1
-----------------------------------------------------------------------------
(***************************************************************************)
(* What users with edit access do to the queue.                            *)
(***************************************************************************)
UserMayChange == \A p \in Participant : accountSeq[p] < MaxChanges

EnqueuePendingMessage(l, c) ==
  /\ UserMayChange
  /\ c \in policy
  /\ status[l] = "none"
  /\ status' = [status EXCEPT ![l] = "queued"]
  /\ position' = [position EXCEPT ![l] = NextPosition]
  /\ content' = [content EXCEPT ![l] = c]
  /\ pendingQueueSeq' = NextPosition
  /\ ApplyPendingStateChange(1)
  /\ kept' = kept \cup {l}
  /\ UNCHANGED <<transcript, server, runners>>

UpdatePendingMessage(l, c) ==
  /\ UserMayChange
  /\ c \in policy
  /\ status[l] # "none"
  /\ content' = [content EXCEPT ![l] = c]
  /\ ApplyPendingStateChange(0)
  /\ UNCHANGED <<status, position, pendingQueueSeq, transcript, server, runners, kept>>

DeletePendingMessage(l) ==
  /\ UserMayChange
  /\ status[l] # "none"
  /\ status' = [status EXCEPT ![l] = "none"]
  /\ position' = [position EXCEPT ![l] = 0]
  /\ content' = [content EXCEPT ![l] = None]
  /\ ApplyPendingStateChange(IF status[l] = "queued" THEN -1 ELSE 0)
  /\ kept' = kept \ {l}
  /\ UNCHANGED <<pendingQueueSeq, transcript, server, runners>>

\* Faulty variant: discarding forgets that the row no longer counts.
DiscardKeepsCount(l) ==
  /\ UserMayChange
  /\ status[l] = "queued"
  /\ status' = [status EXCEPT ![l] = "discarded"]
  /\ ApplyPendingStateChange(0)
  /\ UNCHANGED <<position, content, pendingQueueSeq, transcript, server, runners, kept>>

DiscardPendingMessage(l) ==
  /\ UserMayChange
  /\ status[l] = "queued"
  /\ status' = [status EXCEPT ![l] = "discarded"]
  /\ ApplyPendingStateChange(-1)
  /\ UNCHANGED <<position, content, pendingQueueSeq, transcript, server, runners, kept>>

\* Restoring a row that is queued already moves nothing but is still counted
\* as a change of the queue.
RestorePendingMessage(l) ==
  /\ UserMayChange
  /\ \/ /\ status[l] = "discarded"
        /\ status' = [status EXCEPT ![l] = "queued"]
        /\ position' = [position EXCEPT ![l] = NextPosition]
        /\ pendingQueueSeq' = NextPosition
        /\ ApplyPendingStateChange(1)
     \/ /\ status[l] = "queued"
        /\ ApplyPendingStateChange(0)
        /\ UNCHANGED <<status, position, pendingQueueSeq>>
  /\ UNCHANGED <<content, transcript, server, runners, kept>>

\* The request must name exactly the queued rows; they get positions 1, 2, ...
ReorderPendingMessages(order) ==
  /\ UserMayChange
  /\ Queued # {}
  /\ position' = [l \in LocalId |-> IF l \in Queued THEN order[l] ELSE position[l]]
  /\ ApplyPendingStateChange(0)
  /\ UNCHANGED <<status, content, pendingQueueSeq, transcript, server, runners, kept>>

\* Faulty variant: nobody looks whether the localId has a message already.
ResendTakesNewSeq(l, c) ==
  /\ UserMayChange
  /\ c \in policy
  /\ msgContent' = [msgContent EXCEPT ![l] = c]
  /\ seq' = seq + 1
  /\ msgSeq' = [msgSeq EXCEPT ![l] = seq + 1]
  /\ MarkParticipants(1, MessageHint(msgSeq'[l]))
  /\ UNCHANGED <<rows, session, server, runners, kept>>

\* createSessionMessage with a localId: a prompt sent straight to the
\* transcript, or a repeat of one that is there (same content: no write;
\* other content: edited in place, keeping its seq).
CreateSessionMessage(l, c) ==
  /\ UserMayChange
  /\ c \in policy
  /\ msgContent[l] # c
  /\ msgContent' = [msgContent EXCEPT ![l] = c]
  /\ \/ /\ msgSeq[l] = 0
        /\ seq' = seq + 1
        /\ msgSeq' = [msgSeq EXCEPT ![l] = seq + 1]
     \/ /\ msgSeq[l] # 0
        /\ UNCHANGED <<seq, msgSeq>>
  /\ MarkParticipants(1, MessageHint(msgSeq'[l]))
  /\ UNCHANGED <<rows, session, server, runners, kept>>
-----------------------------------------------------------------------------
(***************************************************************************)
(* materialize-next, step by step.                                         *)
(***************************************************************************)
GoTo(r, to) ==
  call' = [call EXCEPT ![r] = Call(to, call[r].socket, call[r].count, call[r].version)]

\* The call ends with "nothing pending": the runner gets the count and the
\* version, and the socket handler remembers them for the throttle window.
ReplyNoop(r, n, v) ==
  /\ reply' = [reply EXCEPT ![r] = [count |-> n, version |-> v]]
  /\ noopCache' = IF call[r].socket THEN [count |-> n, version |-> v] ELSE noopCache
  /\ call' = [call EXCEPT ![r] = Idle]

\* pending-materialize-next on the socket. With a live cached answer, and a
\* client that knows of no later version, the handler first reads the current
\* counters; a client that does know a later one makes it forget the answer.
CallOnSocket(r) ==
  /\ call[r].pc = "idle"
  /\ \/ /\ noopCache # None
        /\ call' = [call EXCEPT ![r] =
                      Call("consult", TRUE, noopCache.count, noopCache.version)]
        /\ UNCHANGED noopCache
     \/ /\ noopCache # None => noopCache.version < pendingVersion
        /\ call' = [call EXCEPT ![r] = Call("start", TRUE, 0, 0)]
        /\ noopCache' = None
  /\ UNCHANGED <<rows, session, transcript, feed, server, reply, kept>>

\* Faulty variant: the session is read for its version only.
ServeCachedAnswer(r) ==
  /\ call[r].pc = "consult"
  /\ reply' = [reply EXCEPT ![r] = [count |-> call[r].count, version |-> pendingVersion]]
  /\ call' = [call EXCEPT ![r] = Idle]
  /\ UNCHANGED <<rows, session, transcript, feed, server, noopCache, kept>>

ConsultCache(r) ==
  /\ call[r].pc = "consult"
  /\ \/ /\ pendingVersion <= call[r].version /\ pendingCount <= call[r].count
        /\ reply' = [reply EXCEPT ![r] = [count |-> call[r].count,
                                          version |-> call[r].version]]
        /\ call' = [call EXCEPT ![r] = Idle]
        /\ UNCHANGED noopCache
     \/ /\ ~ (pendingVersion <= call[r].version /\ pendingCount <= call[r].count)
        /\ GoTo(r, "start")
        /\ noopCache' = None
        /\ UNCHANGED reply
  /\ UNCHANGED <<rows, session, transcript, feed, server, kept>>

\* POST .../pending/materialize-next, the fallback when the socket fails.
CallOnHttp(r) ==
  /\ call[r].pc = "idle"
  /\ call' = [call EXCEPT ![r] = Call("start", FALSE, 0, 0)]
  /\ UNCHANGED <<rows, session, transcript, feed, server, noopCache, reply, kept>>

\* The read before the transaction. pendingCount is only a hint: at zero the
\* handler looks at the queue as well.
ReadSession(r) ==
  /\ call[r].pc = "start"
  /\ call' = [call EXCEPT ![r] = Call(IF pendingCount = 0 THEN "probe" ELSE "ready",
                                      call[r].socket, pendingCount, pendingVersion)]
  /\ UNCHANGED <<rows, session, transcript, feed, server, noopCache, reply, kept>>

ProbeQueue(r) ==
  /\ call[r].pc = "probe"
  /\ \/ /\ Queued # {}
        /\ GoTo(r, "ready")
        /\ UNCHANGED <<noopCache, reply>>
     \/ /\ Queued = {}
        /\ ReplyNoop(r, call[r].count, call[r].version)
  /\ UNCHANGED <<rows, session, transcript, feed, server, kept>>

\* The transaction finds no queued row; a count that says otherwise is reset.
\* Faulty variants: the wrong count stays; the repair takes no new version.
LeaveWrongCount(r) ==
  /\ call[r].pc = "ready"
  /\ Queued = {}
  /\ ReplyNoop(r, pendingCount, pendingVersion)
  /\ UNCHANGED <<rows, session, transcript, feed, server, kept>>
RepairSilently(r) ==
  /\ call[r].pc = "ready"
  /\ Queued = {}
  /\ pendingCount' = 0
  /\ ReplyNoop(r, 0, pendingVersion)
  /\ UNCHANGED <<rows, pendingVersion, pendingQueueSeq, transcript, feed, server, kept>>

MaterializeNothing(r) ==
  /\ call[r].pc = "ready"
  /\ Queued = {}
  /\ pendingCount' = 0
  /\ pendingVersion' = pendingVersion + (IF pendingCount > 0 THEN 1 ELSE 0)
  /\ ReplyNoop(r, pendingCount', pendingVersion')
  /\ UNCHANGED <<rows, pendingQueueSeq, transcript, feed, server, kept>>

\* The first queued row by position. Ties, which PositionsDistinct excludes,
\* would be broken by creation time; here any of them could be the head.
\* Faulty variant: the row that was queued last is taken.
IsLast(l) == l \in Queued /\ \A k \in Queued : position[l] >= position[k]
IsHead(l) == l \in Queued /\ \A k \in Queued : position[l] <= position[k]

\* Faulty variant: a head the policy rejects is dropped instead of refused.
DropRejectedHead(r, l) ==
  /\ call[r].pc = "ready"
  /\ IsHead(l)
  /\ \/ /\ msgSeq[l] = 0 /\ content[l] \in policy
        /\ seq' = seq + 1
        /\ msgSeq' = [msgSeq EXCEPT ![l] = seq + 1]
        /\ msgContent' = [msgContent EXCEPT ![l] = content[l]]
     \/ /\ msgSeq[l] # 0 \/ content[l] \notin policy
        /\ UNCHANGED transcript
  /\ status' = [status EXCEPT ![l] = "none"]
  /\ position' = [position EXCEPT ![l] = 0]
  /\ content' = [content EXCEPT ![l] = None]
  /\ pendingCount' = IF pendingCount > 0 THEN pendingCount - 1 ELSE 0
  /\ pendingVersion' = pendingVersion + 1
  /\ MarkParticipants(2, PendingHint(pendingCount', pendingVersion'))
  /\ call' = [call EXCEPT ![r] = Idle]
  /\ reply' = [reply EXCEPT ![r] = None]
  /\ UNCHANGED <<noopCache, pendingQueueSeq, server, kept>>

\* createSessionMessageFromPending: a localId that is in the transcript already
\* is not written again, and keeps the content it has there.
CreateFromPending(l) ==
  \/ /\ msgSeq[l] = 0
     /\ seq' = seq + 1
     /\ msgSeq' = [msgSeq EXCEPT ![l] = seq + 1]
     /\ msgContent' = [msgContent EXCEPT ![l] = content[l]]
  \/ /\ msgSeq[l] # 0
     /\ UNCHANGED transcript

\* The head row becomes a transcript message and leaves the queue; the two
\* change marks share one row, so the pending hint replaces the message hint.
MaterializeHead(r, l) ==
  /\ call[r].pc = "ready"
  /\ IsHead(l)
  /\ content[l] \in policy
  /\ CreateFromPending(l)
  /\ status' = [status EXCEPT ![l] = "none"]
  /\ position' = [position EXCEPT ![l] = 0]
  /\ content' = [content EXCEPT ![l] = None]
  /\ pendingCount' = IF pendingCount > 0 THEN pendingCount - 1 ELSE 0
  /\ pendingVersion' = pendingVersion + 1
  /\ MarkParticipants(2, PendingHint(pendingCount', pendingVersion'))
  /\ call' = [call EXCEPT ![r] = Idle]
  /\ reply' = [reply EXCEPT ![r] = None]
  /\ noopCache' = IF call[r].socket THEN None ELSE noopCache
  /\ UNCHANGED <<pendingQueueSeq, server, kept>>

\* The call ends with an error and no effect: the policy of the deployment
\* does not accept the head's content, or the transaction failed.
MaterializeFails(r) ==
  /\ call[r].pc = "ready"
  /\ call' = [call EXCEPT ![r] = Idle]
  /\ UNCHANGED <<rows, session, transcript, feed, server, noopCache, reply, kept>>
-----------------------------------------------------------------------------
\* A cached answer outlives its throttle window only until the next prune.
ExpireNoop ==
  /\ noopCache # None
  /\ noopCache' = None
  /\ UNCHANGED <<rows, session, transcript, feed, server, call, reply, kept>>

\* The server process is replaced: its memory is empty, the calls in flight
\* are lost, and the storage policy may differ.
Redeploy ==
  /\ deploys < MaxDeploys
  /\ deploys' = deploys + 1
  /\ policy' \in Policies
  /\ noopCache' = None
  /\ call' = [r \in Runner |-> Idle]
  /\ UNCHANGED <<rows, session, transcript, feed, reply, kept>>
-----------------------------------------------------------------------------
UserStep ==
  \E l \in LocalId :
    \/ \E c \in Content :
         \/ EnqueuePendingMessage(l, c)
         \/ UpdatePendingMessage(l, c)
         \/ CreateSessionMessage(l, c)
    \/ DeletePendingMessage(l)
    \/ DiscardPendingMessage(l)
    \/ RestorePendingMessage(l)

ReorderStep ==
  \E order \in Bijection(Queued, 1..Cardinality(Queued)) : ReorderPendingMessages(order)

Materialize(r) == MaterializeNothing(r) \/ \E l \in LocalId : MaterializeHead(r, l)

RunnerStep(r) ==
  \/ CallOnSocket(r) \/ ConsultCache(r) \/ CallOnHttp(r)
  \/ ReadSession(r) \/ ProbeQueue(r)
  \/ Materialize(r) \/ MaterializeFails(r)

Next ==
  \/ UserStep
  \/ ReorderStep
  \/ \E r \in Runner : RunnerStep(r)
  \/ ExpireNoop
  \/ Redeploy

Spec == Init /\ [][Next]_vars
DriftedSpec == InitDrifted /\ [][Next]_vars
-----------------------------------------------------------------------------
(***************************************************************************)
(* Properties.                                                             *)
(***************************************************************************)

\* The denormalized Session.pendingCount is the number of queued rows after
\* every transaction of pendingMessageService and materializeNextPendingMessage.
CountMatchesQueue == pendingCount = Cardinality(Queued)

\* How far pendingCount is from the number of queued rows.
Drift ==
  LET d == pendingCount - Cardinality(Queued) IN IF d < 0 THEN -d ELSE d

\* Queued rows have distinct positions, although a reorder renumbers from 1,
\* restores reserve anew and pendingQueueSeq may lag behind: the order in which
\* findFirst picks the head never depends on its createdAt tie-break.
PositionsDistinct ==
  \A l, k \in Queued : position[l] = position[k] => l = k

\* Transcript seqs are handed out once each and without gaps, whichever mix of
\* direct sends and materializations wrote the messages.
SeqsDense ==
  /\ {msgSeq[l] : l \in LocalId} \ {0} = 1..seq
  /\ \A l, k \in LocalId : msgSeq[l] = msgSeq[k] /\ msgSeq[l] # 0 => l = k

\* A prompt that was accepted and that nobody deleted is queued, discarded or
\* in the transcript: no reorder, policy change, retry or restart loses it.
NoPromptLost ==
  \A l \in kept : status[l] # "none" \/ msgSeq[l] # 0

\* "Nothing pending at version v", told to a runner or kept in the socket
\* handler's cache, is true of the queue for as long as the version is v. A
\* runner stops draining on such an answer until it hears of a later version.
TrueWhileCurrent(a) ==
  a # None => /\ a.version <= pendingVersion
              /\ a.version = pendingVersion => Queued = {}
NothingPendingIsTrue ==
  /\ \A r \in Runner : TrueWhileCurrent(reply[r])
  /\ TrueWhileCurrent(noopCache)

\* The session's AccountChange row carries the participant's newest cursor and,
\* when its hint is about the queue, the counters as they are now: a client
\* that reads the row after a reconnect is not handed an older count.
HintIsCurrent ==
  \A p \in Participant :
    /\ change[p].cursor = accountSeq[p]
    /\ change[p].hint.kind = "pending"
          => change[p].hint = PendingHint(pendingCount, pendingVersion)

\* Whatever a user can see of the queue changes only together with
\* pendingVersion and with every participant's cursor.
ChangesAreVersioned ==
  [][<<rows, pendingCount>>' # <<rows, pendingCount>> =>
       /\ pendingVersion' > pendingVersion
       /\ \A p \in Participant : accountSeq'[p] > accountSeq[p]]_vars

\* A localId is given one place in the transcript and keeps it, however often
\* the same prompt is enqueued again, edited, sent directly and materialized.
TranscriptPlaceIsFinal ==
  [][\A l \in LocalId : msgSeq[l] # 0 => msgSeq'[l] = msgSeq[l]]_vars

\* Where pendingCount disagrees with the queue, no operation makes it worse.
DriftNeverGrows ==
  [][Drift' <= Drift]_vars
=============================================================================
