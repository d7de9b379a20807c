--------------------- MODULE SessionPendingQueueProofs ---------------------
(***************************************************************************)
(* Proofs about the pending queue, for any number of prompts, contents,    *)
(* participants and runners.                                               *)
(***************************************************************************)
EXTENDS SessionPendingQueueRefinement, OrderingProofs

-----------------------------------------------------------------------------
(***************************************************************************)
(* The inductive invariant: the queue part, and what hangs off the queue.  *)
(***************************************************************************)

\* A reserved position is never ahead of the counter it was drawn from, and
\* the counter leaves room for the positions 1, 2, ... of a reorder.
Reserved ==
  /\ \A l \in Queued : position[l] \in 1..pendingQueueSeq
  /\ Cardinality(Queued) <= pendingQueueSeq

QueueInv == TypeOK /\ CountMatchesQueue /\ PositionsDistinct /\ Reserved

LEMMA QueuedFinite == IsFiniteSet(Queued) /\ Cardinality(Queued) \in Nat
BY LocalIdFinite, FS_Subset, FS_CardinalityType DEF Queued

\* reserveNextPendingQueuePosition returns a number beyond every queued
\* position and every number it returned before.
LEMMA NextPositionIsNew ==
  ASSUME TypeOK, Reserved
  PROVE  /\ NextPosition \in Nat /\ NextPosition >= 1
         /\ NextPosition > pendingQueueSeq
         /\ \A l \in Queued : position[l] < NextPosition
<1> DEFINE P == {position[l] : l \in Queued}
<1>1. P \subseteq Nat /\ pendingQueueSeq \in Nat /\ Queued \subseteq LocalId
  BY DEF TypeOK, Queued
<1>2. CASE Queued = {}
  BY <1>1, <1>2 DEF NextPosition, HighestQueued
<1>3. CASE Queued # {}
  <2>1. P # {} /\ \A n \in P : n <= pendingQueueSeq
    BY <1>1, <1>3 DEF Reserved
  <2>2. \E n \in P : \A k \in P : k <= n
    BY <1>1, <2>1, GreatestExists
  <2>3. \E n \in P : \A l \in Queued : position[l] <= n
    BY <2>2
  <2>4. HighestQueued \in P /\ \A l \in Queued : position[l] <= HighestQueued
    BY <1>3, <2>3 DEF HighestQueued
  <2>5. HighestQueued \in Nat
    BY <1>1, <2>4
  <2>6. \A l \in Queued : position[l] \in Nat
    BY <1>1
  <2>7. QED
    BY <1>1, <2>4, <2>5, <2>6 DEF NextPosition
<1>4. QED
  BY <1>2, <1>3
-----------------------------------------------------------------------------
(***************************************************************************)
(* What a change of pendingCount and the change marks keep.                *)
(***************************************************************************)
LEMMA MarkTypes ==
  ASSUME TypeOK, NEW n \in Nat, NEW h \in Hint, MarkParticipants(n, h)
  PROVE  /\ accountSeq' \in [Participant -> Nat]
         /\ change' \in [Participant -> [cursor : Nat, hint : Hint]]
BY DEF TypeOK, MarkParticipants

LEMMA HintTypes ==
  ASSUME NEW n \in Nat, NEW v \in Nat
  PROVE  PendingHint(n, v) \in Hint /\ MessageHint(n) \in Hint
BY DEF PendingHint, MessageHint, Hint

LEMMA ApplyTypes ==
  ASSUME TypeOK, NEW d \in {-1, 0, 1}, ApplyPendingStateChange(d)
  PROVE  /\ pendingCount' \in Nat
         /\ pendingCount + d >= 0 => pendingCount' = pendingCount + d
         /\ pendingVersion' \in Nat /\ pendingVersion' = pendingVersion + 1
         /\ accountSeq' \in [Participant -> Nat]
         /\ change' \in [Participant -> [cursor : Nat, hint : Hint]]
<1>1. /\ pendingCount' \in Nat
      /\ pendingCount + d >= 0 => pendingCount' = pendingCount + d
      /\ pendingVersion' \in Nat /\ pendingVersion' = pendingVersion + 1
  BY DEF TypeOK, ApplyPendingStateChange
<1>2. QED
  BY <1>1, MarkTypes, HintTypes DEF ApplyPendingStateChange
-----------------------------------------------------------------------------
(***************************************************************************)
(* The queue part, one lemma per operation that writes it.                 *)
(***************************************************************************)
LEMMA EnqueueQueue ==
  ASSUME QueueInv, NEW l \in LocalId, NEW c \in Content, EnqueuePendingMessage(l, c)
  PROVE  QueueInv'
<1>1. /\ NextPosition \in Nat /\ NextPosition >= 1
      /\ NextPosition > pendingQueueSeq
      /\ \A k \in Queued : position[k] < NextPosition
  BY NextPositionIsNew DEF QueueInv
<1>2. /\ pendingCount' \in Nat /\ pendingCount' = pendingCount + 1
      /\ pendingVersion' \in Nat
      /\ accountSeq' \in [Participant -> Nat]
      /\ change' \in [Participant -> [cursor : Nat, hint : Hint]]
  BY ApplyTypes DEF QueueInv, TypeOK, EnqueuePendingMessage
<1>3. l \notin Queued /\ Queued' = Queued \cup {l}
  BY DEF QueueInv, TypeOK, EnqueuePendingMessage, Queued
<1>4. Cardinality(Queued') = Cardinality(Queued) + 1
  BY <1>3, QueuedFinite, FS_AddElement
<1>5. TypeOK'
  BY <1>1, <1>2 DEF QueueInv, TypeOK, EnqueuePendingMessage, transcript, server, runners
<1>6. CountMatchesQueue'
  BY <1>2, <1>4 DEF QueueInv, CountMatchesQueue
<1>7. position' = [position EXCEPT ![l] = NextPosition] /\ pendingQueueSeq' = NextPosition
  BY DEF EnqueuePendingMessage
<1>8. \A k \in Queued : position'[k] = position[k]
  BY <1>3, <1>7 DEF QueueInv, TypeOK
<1>9. position'[l] = NextPosition
  BY <1>7 DEF QueueInv, TypeOK
<1>10. \A k \in Queued : position[k] \in Nat /\ position[k] >= 1
  BY DEF QueueInv, Reserved
<1>11. PositionsDistinct'
  BY <1>1, <1>3, <1>8, <1>9, <1>10 DEF QueueInv, PositionsDistinct
<1>12. Reserved'
  BY <1>1, <1>3, <1>4, <1>7, <1>8, <1>9, <1>10, QueuedFinite
     DEF QueueInv, Reserved, TypeOK
<1>13. QED
  BY <1>5, <1>6, <1>11, <1>12 DEF QueueInv

LEMMA UpdateQueue ==
  ASSUME QueueInv, NEW l \in LocalId, NEW c \in Content, UpdatePendingMessage(l, c)
  PROVE  QueueInv'
<1>1. /\ pendingCount' \in Nat /\ pendingCount' = pendingCount
      /\ pendingVersion' \in Nat
      /\ accountSeq' \in [Participant -> Nat]
      /\ change' \in [Participant -> [cursor : Nat, hint : Hint]]
  BY ApplyTypes DEF QueueInv, TypeOK, UpdatePendingMessage
<1>2. TypeOK'
  BY <1>1 DEF QueueInv, TypeOK, UpdatePendingMessage, transcript, server, runners
<1>3. UNCHANGED <<Queued, position, pendingQueueSeq>>
  BY DEF UpdatePendingMessage, Queued
<1>4. QED
  BY <1>1, <1>2, <1>3
     DEF QueueInv, CountMatchesQueue, PositionsDistinct, Reserved

\* A row leaves the queue; the positions of the others stay as they are.
LEMMA LeaveQueue ==
  ASSUME QueueInv, NEW l \in Queued,
         Queued' = Queued \ {l}, pendingCount' = pendingCount - 1,
         \A k \in Queued \ {l} : position'[k] = position[k],
         UNCHANGED pendingQueueSeq
  PROVE  CountMatchesQueue' /\ PositionsDistinct' /\ Reserved'
<1>1. Cardinality(Queued') = Cardinality(Queued) - 1
  BY QueuedFinite, FS_RemoveElement
<1>2. QED
  BY <1>1, QueuedFinite
     DEF QueueInv, TypeOK, CountMatchesQueue, PositionsDistinct, Reserved

LEMMA CountOfQueued ==
  ASSUME QueueInv, NEW l \in Queued
  PROVE  pendingCount - 1 \in Nat
BY QueuedFinite, FS_EmptySet DEF QueueInv, CountMatchesQueue

LEMMA DeleteQueue ==
  ASSUME QueueInv, NEW l \in LocalId, DeletePendingMessage(l)
  PROVE  QueueInv'
<1>1. /\ pendingCount' \in Nat
      /\ pendingCount' = IF l \in Queued THEN pendingCount - 1 ELSE pendingCount
      /\ pendingVersion' \in Nat
      /\ accountSeq' \in [Participant -> Nat]
      /\ change' \in [Participant -> [cursor : Nat, hint : Hint]]
  <2>1. CASE l \in Queued
    <3>1. ApplyPendingStateChange(-1)
      BY <2>1 DEF DeletePendingMessage, Queued
    <3>2. QED
      BY <2>1, <3>1, ApplyTypes, CountOfQueued DEF QueueInv, TypeOK
  <2>2. CASE l \notin Queued
    <3>1. ApplyPendingStateChange(0)
      BY <2>2 DEF DeletePendingMessage, Queued
    <3>2. QED
      BY <2>2, <3>1, ApplyTypes DEF QueueInv, TypeOK
  <2>3. QED
    BY <2>1, <2>2
<1>2. TypeOK'
  BY <1>1 DEF QueueInv, TypeOK, DeletePendingMessage, transcript, server, runners
<1>3. /\ Queued' = Queued \ {l}
      /\ \A k \in Queued \ {l} : position'[k] = position[k]
      /\ UNCHANGED pendingQueueSeq
  BY DEF QueueInv, TypeOK, DeletePendingMessage, Queued
<1>4. CASE l \in Queued
  BY <1>1, <1>2, <1>3, <1>4, LeaveQueue DEF QueueInv
<1>5. CASE l \notin Queued
  <2>1. Queued' = Queued /\ pendingCount' = pendingCount
    BY <1>1, <1>3, <1>5
  <2>2. QED
    BY <1>2, <1>3, <1>5, <2>1
       DEF QueueInv, CountMatchesQueue, PositionsDistinct, Reserved
<1>6. QED
  BY <1>4, <1>5

LEMMA DiscardQueue ==
  ASSUME QueueInv, NEW l \in LocalId, DiscardPendingMessage(l)
  PROVE  QueueInv'
<1>1. l \in Queued
  BY DEF DiscardPendingMessage, Queued
<1>2. /\ pendingCount' \in Nat /\ pendingCount' = pendingCount - 1
      /\ pendingVersion' \in Nat
      /\ accountSeq' \in [Participant -> Nat]
      /\ change' \in [Participant -> [cursor : Nat, hint : Hint]]
  BY <1>1, ApplyTypes, CountOfQueued DEF QueueInv, TypeOK, DiscardPendingMessage
<1>3. TypeOK'
  BY <1>2 DEF QueueInv, TypeOK, DiscardPendingMessage, transcript, server, runners
<1>4. Queued' = Queued \ {l} /\ UNCHANGED <<position, pendingQueueSeq>>
  BY DEF QueueInv, TypeOK, DiscardPendingMessage, Queued
<1>5. QED
  BY <1>1, <1>2, <1>3, <1>4, LeaveQueue DEF QueueInv

LEMMA RestoreQueue ==
  ASSUME QueueInv, NEW l \in LocalId, RestorePendingMessage(l)
  PROVE  QueueInv'
<1>1. CASE status[l] = "queued"
  <2>1. /\ pendingCount' \in Nat /\ pendingCount' = pendingCount
        /\ pendingVersion' \in Nat
        /\ accountSeq' \in [Participant -> Nat]
        /\ change' \in [Participant -> [cursor : Nat, hint : Hint]]
        /\ UNCHANGED <<status, position, pendingQueueSeq>>
    BY <1>1, ApplyTypes DEF QueueInv, TypeOK, RestorePendingMessage
  <2>2. TypeOK'
    BY <2>1 DEF QueueInv, TypeOK, RestorePendingMessage, transcript, server, runners
  <2>3. UNCHANGED Queued
    BY <2>1 DEF Queued
  <2>4. QED
    BY <2>1, <2>2, <2>3 DEF QueueInv, CountMatchesQueue, PositionsDistinct, Reserved
<1>2. CASE status[l] = "discarded"
  <2>1. /\ NextPosition \in Nat /\ NextPosition >= 1
        /\ NextPosition > pendingQueueSeq
        /\ \A k \in Queued : position[k] < NextPosition
    BY NextPositionIsNew DEF QueueInv
  <2>2. /\ pendingCount' \in Nat /\ pendingCount' = pendingCount + 1
        /\ pendingVersion' \in Nat
        /\ accountSeq' \in [Participant -> Nat]
        /\ change' \in [Participant -> [cursor : Nat, hint : Hint]]
        /\ status' = [status EXCEPT ![l] = "queued"]
        /\ position' = [position EXCEPT ![l] = NextPosition]
        /\ pendingQueueSeq' = NextPosition
    BY <1>2, ApplyTypes DEF QueueInv, TypeOK, RestorePendingMessage
  <2>3. l \notin Queued /\ Queued' = Queued \cup {l}
    BY <1>2, <2>2 DEF QueueInv, TypeOK, Queued
  <2>4. Cardinality(Queued') = Cardinality(Queued) + 1
    BY <2>3, QueuedFinite, FS_AddElement
  <2>5. TypeOK'
    BY <2>1, <2>2 DEF QueueInv, TypeOK, RestorePendingMessage, transcript, server, runners
  <2>6. /\ \A k \in Queued : position'[k] = position[k] /\ position[k] \in Nat
                                              /\ position[k] >= 1
        /\ position'[l] = NextPosition
    BY <2>2, <2>3 DEF QueueInv, TypeOK, Reserved
  <2>7. CountMatchesQueue'
    BY <2>2, <2>4 DEF QueueInv, CountMatchesQueue
  <2>8. PositionsDistinct'
    BY <2>1, <2>3, <2>6 DEF QueueInv, PositionsDistinct
  <2>9. Reserved'
    BY <2>1, <2>2, <2>3, <2>4, <2>6, QueuedFinite DEF QueueInv, Reserved, TypeOK
  <2>10. QED
    BY <2>5, <2>7, <2>8, <2>9 DEF QueueInv
<1>3. QED
  BY <1>1, <1>2 DEF RestorePendingMessage

LEMMA ReorderQueue ==
  ASSUME QueueInv, NEW order \in Bijection(Queued, 1..Cardinality(Queued)),
         ReorderPendingMessages(order)
  PROVE  QueueInv'
<1>1. /\ pendingCount' \in Nat /\ pendingCount' = pendingCount
      /\ pendingVersion' \in Nat
      /\ accountSeq' \in [Participant -> Nat]
      /\ change' \in [Participant -> [cursor : Nat, hint : Hint]]
  BY ApplyTypes DEF QueueInv, TypeOK, ReorderPendingMessages
<1>2. /\ \A k \in Queued : order[k] \in 1..Cardinality(Queued)
      /\ \A k, l \in Queued : order[k] = order[l] => k = l
  BY DEF Bijection, Injection, IsInjective
<1>3. /\ UNCHANGED <<Queued, pendingQueueSeq>>
      /\ position' = [l \in LocalId |-> IF l \in Queued THEN order[l] ELSE position[l]]
  BY DEF ReorderPendingMessages, Queued
<1>4. \A l \in Queued : position'[l] = order[l] /\ order[l] \in Nat
  BY <1>2, <1>3, QueuedFinite DEF Queued
<1>5. position' \in [LocalId -> Nat]
  BY <1>3, <1>4 DEF QueueInv, TypeOK
<1>6. TypeOK'
  BY <1>1, <1>5
     DEF QueueInv, TypeOK, ReorderPendingMessages, transcript, server, runners
<1>7. Reserved'
  <2>1. /\ pendingQueueSeq \in Nat /\ Cardinality(Queued) \in Nat
        /\ Cardinality(Queued) <= pendingQueueSeq
    BY QueuedFinite DEF QueueInv, Reserved, TypeOK
  <2>2. \A l \in Queued : position'[l] \in 1..pendingQueueSeq
    BY <1>2, <1>4, <2>1
  <2>3. QED
    BY <1>3, <2>1, <2>2 DEF Reserved
<1>8. PositionsDistinct' /\ CountMatchesQueue'
  BY <1>1, <1>2, <1>3, <1>4 DEF QueueInv, PositionsDistinct, CountMatchesQueue
<1>9. QED
  BY <1>6, <1>7, <1>8 DEF QueueInv

LEMMA CreateQueue ==
  ASSUME QueueInv, NEW l \in LocalId, NEW c \in Content, CreateSessionMessage(l, c)
  PROVE  QueueInv'
<1>1. seq' \in Nat /\ msgSeq' \in [LocalId -> Nat]
  BY DEF QueueInv, TypeOK, CreateSessionMessage
<1>2. /\ accountSeq' \in [Participant -> Nat]
      /\ change' \in [Participant -> [cursor : Nat, hint : Hint]]
  <2>1. msgSeq'[l] \in Nat
    BY <1>1
  <2>2. QED
    BY <2>1, MarkTypes, HintTypes DEF QueueInv, CreateSessionMessage
<1>3. TypeOK'
  BY <1>1, <1>2
     DEF QueueInv, TypeOK, CreateSessionMessage, rows, session, server, runners
<1>4. UNCHANGED <<Queued, position, pendingCount, pendingQueueSeq>>
  BY DEF CreateSessionMessage, rows, session, Queued
<1>5. QED
  BY <1>3, <1>4 DEF QueueInv, CountMatchesQueue, PositionsDistinct, Reserved

LEMMA MaterializeNothingQueue ==
  ASSUME QueueInv, NEW r \in Runner, MaterializeNothing(r)
  PROVE  QueueInv' /\ UNCHANGED <<pendingCount, pendingVersion>>
<1>1. pendingCount = 0 /\ pendingCount' = 0
  BY QueuedFinite, FS_EmptySet DEF QueueInv, CountMatchesQueue, MaterializeNothing
<1>2. UNCHANGED <<pendingCount, pendingVersion>>
  BY <1>1 DEF QueueInv, TypeOK, MaterializeNothing
<1>3. TypeOK'
  <2>1. /\ Idle \in Calls
        /\ [count |-> pendingCount', version |-> pendingVersion'] \in Answer
    BY <1>2 DEF QueueInv, TypeOK, Idle, Call, Calls, Answer
  <2>2. QED
    BY <1>2, <2>1 DEF QueueInv, TypeOK, MaterializeNothing, ReplyNoop, rows,
                      transcript, feed, server
<1>4. UNCHANGED <<Queued, position, pendingQueueSeq>>
  BY DEF MaterializeNothing, rows, Queued
<1>5. QED
  BY <1>2, <1>3, <1>4 DEF QueueInv, CountMatchesQueue, PositionsDistinct, Reserved

LEMMA MaterializeHeadQueue ==
  ASSUME QueueInv, NEW r \in Runner, NEW l \in LocalId, MaterializeHead(r, l)
  PROVE  QueueInv' /\ pendingVersion' = pendingVersion + 1
<1>1. l \in Queued /\ pendingCount - 1 \in Nat
  BY CountOfQueued DEF MaterializeHead, IsHead
<1>2. /\ pendingCount' \in Nat /\ pendingCount' = pendingCount - 1
      /\ pendingVersion' \in Nat /\ pendingVersion' = pendingVersion + 1
  BY <1>1 DEF QueueInv, TypeOK, MaterializeHead
<1>3. /\ accountSeq' \in [Participant -> Nat]
      /\ change' \in [Participant -> [cursor : Nat, hint : Hint]]
  BY <1>2, MarkTypes, HintTypes DEF QueueInv, MaterializeHead
<1>4. /\ seq' \in Nat /\ msgSeq' \in [LocalId -> Nat]
      /\ msgContent' \in [LocalId -> Content \cup {None}]
  BY DEF QueueInv, TypeOK, MaterializeHead, CreateFromPending, transcript
<1>5. TypeOK'
  BY <1>2, <1>3, <1>4 DEF QueueInv, TypeOK, MaterializeHead, Idle, Call, Calls, server
<1>6. /\ Queued' = Queued \ {l} /\ UNCHANGED pendingQueueSeq
      /\ \A k \in Queued \ {l} : position'[k] = position[k]
  BY DEF QueueInv, TypeOK, MaterializeHead, Queued
<1>7. QED
  BY <1>1, <1>2, <1>5, <1>6, LeaveQueue DEF QueueInv

\* The steps that leave the rows and the session's counters alone.
LEMMA CallQueue ==
  ASSUME QueueInv, UNCHANGED <<rows, session>>, TypeOK'
  PROVE  QueueInv'
BY DEF QueueInv, CountMatchesQueue, PositionsDistinct, Reserved, Queued, rows, session

LEMMA GoToTypes ==
  ASSUME TypeOK, NEW r \in Runner, NEW to \in {"start", "ready"}, GoTo(r, to)
  PROVE  call' \in [Runner -> Calls]
<1>1. call[r] \in Calls
  BY DEF TypeOK
<1>2. Call(to, call[r].socket, call[r].count, call[r].version) \in Calls
  BY <1>1 DEF Call, Calls
<1>3. QED
  BY <1>2 DEF TypeOK, GoTo

LEMMA CallTypes ==
  ASSUME TypeOK, NEW r \in Runner,
         \/ CallOnSocket(r) \/ ConsultCache(r) \/ CallOnHttp(r)
         \/ ReadSession(r) \/ ProbeQueue(r) \/ MaterializeFails(r)
  PROVE  TypeOK' /\ UNCHANGED <<rows, session>>
<1> USE DEF rows, session, transcript, feed, server
<1>0. /\ TypeOK /\ Idle \in Calls
      /\ call[r].count \in Nat /\ call[r].version \in Nat
      /\ [count |-> call[r].count, version |-> call[r].version] \in Answer
  BY DEF TypeOK, Idle, Call, Calls, Answer
<1>1. CASE CallOnSocket(r)
  <2>1. CASE noopCache # None /\ UNCHANGED noopCache
                /\ call' = [call EXCEPT ![r] =
                              Call("consult", TRUE, noopCache.count, noopCache.version)]
    <3>1. noopCache.count \in Nat /\ noopCache.version \in Nat
      BY <1>0, <2>1 DEF TypeOK, Answer
    <3>2. Call("consult", TRUE, noopCache.count, noopCache.version) \in Calls
      BY <3>1 DEF Call, Calls
    <3>3. QED
      BY <1>0, <1>1, <2>1, <3>2 DEF CallOnSocket, TypeOK
  <2>2. CASE noopCache' = None
                /\ call' = [call EXCEPT ![r] = Call("start", TRUE, 0, 0)]
    <3>1. Call("start", TRUE, 0, 0) \in Calls
      BY DEF Call, Calls
    <3>2. QED
      BY <1>0, <1>1, <2>2, <3>1 DEF CallOnSocket, TypeOK
  <2>3. QED
    BY <1>1, <2>1, <2>2 DEF CallOnSocket
<1>2. CASE ConsultCache(r)
  <2>1. call' \in [Runner -> Calls]
    <3>1. CASE call' = [call EXCEPT ![r] = Idle]
      BY <1>0, <3>1 DEF TypeOK
    <3>2. CASE GoTo(r, "start")
      BY <1>0, <3>2, GoToTypes
    <3>3. QED
      BY <1>2, <3>1, <3>2 DEF ConsultCache
  <2>2. /\ reply' \in [Runner -> Answer \cup {None}]
        /\ noopCache' \in Answer \cup {None}
    BY <1>0, <1>2 DEF ConsultCache, TypeOK
  <2>3. QED
    BY <1>0, <1>2, <2>1, <2>2 DEF ConsultCache, TypeOK
<1>3. CASE CallOnHttp(r)
  BY <1>0, <1>3 DEF CallOnHttp, TypeOK, Call, Calls
<1>4. CASE ReadSession(r)
  <2>1. Call(IF pendingCount = 0 THEN "probe" ELSE "ready",
             call[r].socket, pendingCount, pendingVersion) \in Calls
    BY <1>0 DEF TypeOK, Call, Calls
  <2>2. QED
    BY <1>0, <1>4, <2>1 DEF ReadSession, TypeOK
<1>5. CASE ProbeQueue(r)
  <2>1. CASE ReplyNoop(r, call[r].count, call[r].version)
    BY <1>0, <1>5, <2>1 DEF ProbeQueue, ReplyNoop, TypeOK
  <2>2. CASE GoTo(r, "ready") /\ UNCHANGED <<noopCache, reply>>
    BY <1>0, <1>5, <2>2, GoToTypes DEF ProbeQueue, TypeOK
  <2>3. QED
    BY <1>5, <2>1, <2>2 DEF ProbeQueue
<1>6. CASE MaterializeFails(r)
  BY <1>0, <1>6 DEF MaterializeFails, TypeOK
<1>7. QED
  BY <1>1, <1>2, <1>3, <1>4, <1>5, <1>6

LEMMA ServerTypes ==
  ASSUME TypeOK, ExpireNoop \/ Redeploy \/ UNCHANGED vars
  PROVE  TypeOK' /\ UNCHANGED <<rows, session>>
<1> USE DEF TypeOK, rows, session, transcript, feed, server, runners, Idle, Call, Calls
<1>1. CASE ExpireNoop
  BY <1>1 DEF ExpireNoop
<1>2. CASE Redeploy
  BY <1>2 DEF Redeploy
<1>3. CASE UNCHANGED vars
  BY <1>3 DEF vars
<1>4. QED
  BY <1>1, <1>2, <1>3

LEMMA QueueInit ==
  ASSUME Init
  PROVE  QueueInv
<1>1. Queued = {} /\ Cardinality(Queued) = 0
  BY FS_EmptySet DEF Init, Queued
<1>2. TypeOK
  BY PoliciesAccept DEF Init, NewSession, TypeOK, Hint, Idle, Call, Calls
<1>3. QED
  BY <1>1, <1>2
     DEF Init, QueueInv, CountMatchesQueue, PositionsDistinct, Reserved

LEMMA QueueNext ==
  ASSUME QueueInv, [Next]_vars
  PROVE  QueueInv'
<1>1. ASSUME NEW l \in LocalId, NEW c \in Content,
             \/ EnqueuePendingMessage(l, c) \/ UpdatePendingMessage(l, c)
             \/ CreateSessionMessage(l, c)
      PROVE  QueueInv'
  BY <1>1, EnqueueQueue, UpdateQueue, CreateQueue
<1>2. ASSUME NEW l \in LocalId,
             \/ DeletePendingMessage(l) \/ DiscardPendingMessage(l)
             \/ RestorePendingMessage(l)
      PROVE  QueueInv'
  BY <1>2, DeleteQueue, DiscardQueue, RestoreQueue
<1>3. CASE ReorderStep
  BY <1>3, ReorderQueue DEF ReorderStep
<1>4. ASSUME NEW r \in Runner, RunnerStep(r)
      PROVE  QueueInv'
  <2>1. CASE Materialize(r)
    BY <2>1, MaterializeNothingQueue, MaterializeHeadQueue DEF Materialize
  <2>2. CASE ~ Materialize(r)
    BY <1>4, <2>2, CallTypes, CallQueue DEF QueueInv, RunnerStep
  <2>3. QED
    BY <2>1, <2>2
<1>5. CASE ExpireNoop \/ Redeploy \/ UNCHANGED vars
  BY <1>5, ServerTypes, CallQueue DEF QueueInv
<1>6. QED
  BY <1>1, <1>2, <1>3, <1>4, <1>5 DEF Next, UserStep

\* The tables keep their types under every interleaving of users, runners and
\* restarts; the counters in particular never leave the natural numbers.
THEOREM TypeCorrect == Spec => []TypeOK
<1>1. QueueInv => TypeOK
  BY DEF QueueInv
<1>2. QED
  BY QueueInit, QueueNext, <1>1, PTL DEF Spec

\* Session.pendingCount is the number of queued rows after every transaction.
THEOREM CountIsExact == Spec => []CountMatchesQueue
<1>1. QueueInv => CountMatchesQueue
  BY DEF QueueInv
<1>2. QED
  BY QueueInit, QueueNext, <1>1, PTL DEF Spec

\* No two queued rows share a position, so the queue has one order.
THEOREM OrderIsTotal == Spec => []PositionsDistinct
<1>1. QueueInv => PositionsDistinct
  BY DEF QueueInv
<1>2. QED
  BY QueueInit, QueueNext, <1>1, PTL DEF Spec
-----------------------------------------------------------------------------
(***************************************************************************)
(* The version.  Every step either leaves the queue as it is or counts the *)
(* version and every participant's cursor up.                              *)
(***************************************************************************)
Versioned ==
  \/ /\ UNCHANGED <<rows, pendingCount, pendingVersion>>
  \/ /\ pendingVersion' = pendingVersion + 1
     /\ \A p \in Participant : accountSeq'[p] > accountSeq[p]

LEMMA ApplyVersions ==
  ASSUME TypeOK, NEW d \in {-1, 0, 1}, ApplyPendingStateChange(d)
  PROVE  Versioned
BY DEF TypeOK, ApplyPendingStateChange, MarkParticipants, Versioned

LEMMA StepIsVersioned ==
  ASSUME QueueInv, [Next]_vars
  PROVE  Versioned
<1>0. TypeOK
  BY DEF QueueInv
<1>1. ASSUME NEW l \in LocalId, NEW c \in Content,
             \/ EnqueuePendingMessage(l, c) \/ UpdatePendingMessage(l, c)
             \/ CreateSessionMessage(l, c)
      PROVE  Versioned
  <2>1. CASE EnqueuePendingMessage(l, c)
    BY <1>0, <2>1, ApplyVersions DEF EnqueuePendingMessage
  <2>2. CASE UpdatePendingMessage(l, c)
    BY <1>0, <2>2, ApplyVersions DEF UpdatePendingMessage
  <2>3. CASE CreateSessionMessage(l, c)
    BY <2>3 DEF CreateSessionMessage, Versioned, session
  <2>4. QED
    BY <1>1, <2>1, <2>2, <2>3
<1>2. ASSUME NEW l \in LocalId,
             \/ DeletePendingMessage(l) \/ DiscardPendingMessage(l)
             \/ RestorePendingMessage(l)
      PROVE  Versioned
  <2>1. CASE DeletePendingMessage(l)
    <3>1. ApplyPendingStateChange(-1) \/ ApplyPendingStateChange(0)
      BY <2>1 DEF DeletePendingMessage
    <3>2. QED
      BY <1>0, <3>1, ApplyVersions
  <2>2. CASE DiscardPendingMessage(l)
    BY <1>0, <2>2, ApplyVersions DEF DiscardPendingMessage
  <2>3. CASE RestorePendingMessage(l)
    BY <1>0, <2>3, ApplyVersions DEF RestorePendingMessage
  <2>4. QED
    BY <1>2, <2>1, <2>2, <2>3
<1>3. CASE ReorderStep
  BY <1>0, <1>3, ApplyVersions DEF ReorderStep, ReorderPendingMessages
<1>4. ASSUME NEW r \in Runner, RunnerStep(r)
      PROVE  Versioned
  <2>1. CASE MaterializeNothing(r)
    BY <2>1, MaterializeNothingQueue DEF MaterializeNothing, Versioned
  <2>2. ASSUME NEW l \in LocalId, MaterializeHead(r, l)
        PROVE  Versioned
    BY <1>0, <2>2, MaterializeHeadQueue
       DEF TypeOK, MaterializeHead, CreateFromPending, MarkParticipants, Versioned
  <2>3. CASE ~ Materialize(r)
    BY <1>0, <1>4, <2>3, CallTypes DEF RunnerStep, Versioned, session
  <2>4. QED
    BY <2>1, <2>2, <2>3 DEF Materialize
<1>5. CASE ExpireNoop \/ Redeploy \/ UNCHANGED vars
  BY <1>0, <1>5, ServerTypes DEF Versioned, session
<1>6. QED
  BY <1>1, <1>2, <1>3, <1>4, <1>5 DEF Next, UserStep

\* What users see of the queue changes only together with pendingVersion and
\* every participant's change cursor.
THEOREM QueueIsVersioned == Spec => ChangesAreVersioned
<1>1. ASSUME QueueInv, [Next]_vars
      PROVE  [<<rows, pendingCount>>' # <<rows, pendingCount>> =>
                /\ pendingVersion' > pendingVersion
                /\ \A p \in Participant : accountSeq'[p] > accountSeq[p]]_vars
  BY <1>1, StepIsVersioned DEF Versioned, QueueInv, TypeOK
<1>2. QED
  BY QueueInit, QueueNext, <1>1, PTL DEF Spec, ChangesAreVersioned
-----------------------------------------------------------------------------
(***************************************************************************)
(* Empty answers.  Those on their way count too: the one a call took from  *)
(* the cache and has not checked yet, and the version a call read before   *)
(* it probed the queue.                                                    *)
(***************************************************************************)
OnTheWay(r) == [count |-> call[r].count, version |-> call[r].version]

\* The queue moves only to a later version.
Moves == UNCHANGED <<rows, pendingVersion>> \/ pendingVersion' = pendingVersion + 1

AnswersInv ==
  /\ NothingPendingIsTrue
  /\ \A r \in Runner :
       /\ call[r].pc = "consult" => TrueWhileCurrent(OnTheWay(r))
       /\ call[r].pc = "probe" => call[r].version <= pendingVersion

\* A true answer stays true.
LEMMA TruthLasts ==
  ASSUME TypeOK, Moves, NEW a \in Answer \cup {None}, TrueWhileCurrent(a)
  PROVE  a # None => /\ a.version <= pendingVersion'
                     /\ a.version = pendingVersion' => Queued' = {}
<1> SUFFICES ASSUME a # None
             PROVE  /\ a.version <= pendingVersion'
                    /\ a.version = pendingVersion' => Queued' = {}
  OBVIOUS
<1>1. a.version \in Nat /\ pendingVersion \in Nat
  BY DEF TypeOK, Answer
<1>2. CASE UNCHANGED <<rows, pendingVersion>>
  <2>1. UNCHANGED Queued
    BY <1>2 DEF rows, Queued
  <2>2. QED
    BY <1>2, <2>1 DEF TrueWhileCurrent
<1>3. CASE pendingVersion' = pendingVersion + 1
  BY <1>1, <1>3 DEF TrueWhileCurrent
<1>4. QED
  BY <1>2, <1>3 DEF Moves

CallSound(r) ==
  /\ call[r].pc = "consult" => TrueWhileCurrent(OnTheWay(r))
  /\ call[r].pc = "probe" => call[r].version <= pendingVersion

\* A step keeps the invariant if every answer it replaces is true after it.
LEMMA AnswersStay ==
  ASSUME TypeOK, AnswersInv, Moves,
         noopCache' = noopCache \/ TrueWhileCurrent(noopCache)',
         \A r \in Runner : reply'[r] = reply[r] \/ TrueWhileCurrent(reply[r])',
         \A r \in Runner : call'[r] = call[r] \/ CallSound(r)'
  PROVE  AnswersInv'
<1>1. \A r \in Runner : reply[r] \in Answer \cup {None} /\ OnTheWay(r) \in Answer
  BY DEF TypeOK, OnTheWay, Calls, Answer
<1>2. noopCache \in Answer \cup {None}
  BY DEF TypeOK
<1>3. TrueWhileCurrent(noopCache)'
  BY <1>2, TruthLasts DEF AnswersInv, NothingPendingIsTrue, TrueWhileCurrent
<1>4. ASSUME NEW r \in Runner
      PROVE  TrueWhileCurrent(reply[r])' /\ CallSound(r)'
  <2>1. TrueWhileCurrent(reply[r])'
    BY <1>1, TruthLasts DEF AnswersInv, NothingPendingIsTrue, TrueWhileCurrent
  <2>2. CASE call'[r] = call[r]
    <3>1. OnTheWay(r)' = OnTheWay(r)
      BY <2>2 DEF OnTheWay
    <3>2. call[r].pc = "consult" =>
            (OnTheWay(r) # None => /\ OnTheWay(r).version <= pendingVersion'
                                   /\ OnTheWay(r).version = pendingVersion' => Queued' = {})
      <4> SUFFICES ASSUME call[r].pc = "consult"
                   PROVE  OnTheWay(r) # None =>
                            /\ OnTheWay(r).version <= pendingVersion'
                            /\ OnTheWay(r).version = pendingVersion' => Queued' = {}
        OBVIOUS
      <4>1. TrueWhileCurrent(OnTheWay(r)) /\ OnTheWay(r) \in Answer
        BY <1>1 DEF AnswersInv
      <4>2. PICK a \in Answer : a = OnTheWay(r)
        BY <4>1
      <4>3. TrueWhileCurrent(a)
        BY <4>1, <4>2 DEF TrueWhileCurrent
      <4>4. a # None => /\ a.version <= pendingVersion'
                        /\ a.version = pendingVersion' => Queued' = {}
        BY <4>3, TruthLasts
      <4>5. QED
        BY <4>2, <4>4
    <3>3. call[r].pc = "probe" => call[r].version <= pendingVersion'
      <4>1. call[r].version \in Nat /\ pendingVersion \in Nat
        BY DEF TypeOK, Calls
      <4>2. QED
        BY <4>1 DEF AnswersInv, Moves
    <3>4. QED
      BY <2>1, <2>2, <3>1, <3>2, <3>3 DEF CallSound, TrueWhileCurrent
  <2>3. QED
    BY <2>1, <2>2
<1>5. QED
  BY <1>3, <1>4 DEF AnswersInv, CallSound, NothingPendingIsTrue

LEMMA AnswersUntouched ==
  ASSUME TypeOK, AnswersInv, Moves, UNCHANGED runners
  PROVE  AnswersInv'
BY AnswersStay DEF runners

LEMMA AnswersInit ==
  ASSUME NewSession
  PROVE  AnswersInv
BY DEF NewSession, AnswersInv, NothingPendingIsTrue, TrueWhileCurrent, Idle, Call

\* An answer made while the queue is empty, at a version that has been reached,
\* is true; so are the cache and the call after ReplyNoop returns it.
LEMMA EmptyAnswer ==
  ASSUME TypeOK, AnswersInv, Moves, NEW r \in Runner, NEW n \in Nat, NEW v \in Nat,
         ReplyNoop(r, n, v), Queued' = {}, v <= pendingVersion'
  PROVE  AnswersInv'
<1>1. /\ noopCache' = noopCache \/ noopCache' = [count |-> n, version |-> v]
      /\ reply'[r] = [count |-> n, version |-> v] /\ call'[r] = Idle
      /\ \A q \in Runner \ {r} : reply'[q] = reply[q] /\ call'[q] = call[q]
  BY DEF TypeOK, ReplyNoop
<1>2. TrueWhileCurrent(reply[r])'
  BY <1>1 DEF TrueWhileCurrent
<1>3. noopCache' = noopCache \/ TrueWhileCurrent(noopCache)'
  BY <1>1 DEF TrueWhileCurrent
<1>4. CallSound(r)'
  BY <1>1 DEF CallSound, Idle, Call
<1>5. QED
  BY <1>1, <1>2, <1>3, <1>4, AnswersStay

LEMMA AnswersRunner ==
  ASSUME TypeOK, AnswersInv, Moves, NEW r \in Runner, RunnerStep(r)
  PROVE  AnswersInv'
<1>0. /\ TypeOK /\ pendingVersion \in Nat /\ pendingCount \in Nat
      /\ call[r].count \in Nat /\ call[r].version \in Nat
      /\ \A q \in Runner : reply[q] \in Answer \cup {None}
  BY DEF TypeOK, Calls
<1>1. CASE CallOnSocket(r)
  <2>1. /\ UNCHANGED <<reply, rows, session>>
        /\ \A q \in Runner \ {r} : call'[q] = call[q]
    BY <1>0, <1>1 DEF CallOnSocket, TypeOK
  <2>2. noopCache' = noopCache \/ TrueWhileCurrent(noopCache)'
    BY <1>1 DEF CallOnSocket, TrueWhileCurrent
  <2>3. CallSound(r)'
    <3>1. CASE /\ noopCache # None
               /\ call'[r] = Call("consult", TRUE, noopCache.count, noopCache.version)
      <4>1. UNCHANGED Queued /\ UNCHANGED pendingVersion
        BY <2>1 DEF rows, session, Queued
      <4>2. QED
        BY <3>1, <4>1 DEF AnswersInv, NothingPendingIsTrue, TrueWhileCurrent,
                          CallSound, OnTheWay, Call
    <3>2. CASE call'[r] = Call("start", TRUE, 0, 0)
      BY <3>2 DEF CallSound, Call
    <3>3. QED
      BY <1>0, <1>1, <3>1, <3>2 DEF CallOnSocket, TypeOK
  <2>4. QED
    BY <2>1, <2>2, <2>3, AnswersStay
<1>2. CASE ConsultCache(r)
  <2>1. /\ UNCHANGED <<rows, session>>
        /\ \A q \in Runner \ {r} : call'[q] = call[q] /\ reply'[q] = reply[q]
    BY <1>0, <1>2 DEF ConsultCache, GoTo, TypeOK
  <2>2. noopCache' = noopCache \/ TrueWhileCurrent(noopCache)'
    BY <1>2 DEF ConsultCache, TrueWhileCurrent
  <2>3. CallSound(r)'
    BY <1>0, <1>2 DEF ConsultCache, GoTo, TypeOK, CallSound, Idle, Call
  <2>4. reply'[r] = reply[r] \/ TrueWhileCurrent(reply[r])'
    <3>1. UNCHANGED Queued /\ UNCHANGED pendingVersion
      BY <2>1 DEF rows, session, Queued
    <3>2. TrueWhileCurrent(OnTheWay(r)) /\ OnTheWay(r) # None
      BY <1>0, <1>2, NoneIsFresh DEF AnswersInv, ConsultCache, OnTheWay
    <3>3. reply'[r] = reply[r] \/ reply'[r] = OnTheWay(r)
      BY <1>0, <1>2 DEF ConsultCache, TypeOK, OnTheWay
    <3>4. QED
      BY <3>1, <3>2, <3>3 DEF TrueWhileCurrent
  <2>5. QED
    BY <2>1, <2>2, <2>3, <2>4, AnswersStay
<1>3. CASE CallOnHttp(r) \/ ReadSession(r) \/ MaterializeFails(r)
  <2>1. /\ UNCHANGED <<reply, noopCache, rows, session>>
        /\ \A q \in Runner \ {r} : call'[q] = call[q]
    BY <1>0, <1>3 DEF CallOnHttp, ReadSession, MaterializeFails, TypeOK
  <2>2. CallSound(r)'
    BY <1>0, <1>3, <2>1 DEF CallOnHttp, ReadSession, MaterializeFails, TypeOK, CallSound,
                            Idle, Call, session
  <2>3. QED
    BY <2>1, <2>2, AnswersStay
<1>4. CASE ProbeQueue(r)
  <2>1. CASE Queued = {} /\ ReplyNoop(r, call[r].count, call[r].version)
    <3>1. Queued' = {} /\ UNCHANGED pendingVersion
      BY <1>4, <2>1 DEF ProbeQueue, rows, session, Queued
    <3>2. call[r].version <= pendingVersion
      BY <1>4 DEF AnswersInv, ProbeQueue
    <3>3. QED
      BY <1>0, <2>1, <3>1, <3>2, EmptyAnswer
  <2>2. CASE GoTo(r, "ready") /\ UNCHANGED <<noopCache, reply>>
    <3>1. \A q \in Runner \ {r} : call'[q] = call[q]
      BY <1>0, <2>2 DEF GoTo, TypeOK
    <3>2. CallSound(r)'
      BY <1>0, <2>2 DEF GoTo, TypeOK, CallSound, Call
    <3>3. QED
      BY <2>2, <3>1, <3>2, AnswersStay
  <2>3. QED
    BY <1>4, <2>1, <2>2 DEF ProbeQueue
<1>5. CASE MaterializeNothing(r)
  <2>1. Queued' = {} /\ pendingCount' \in Nat /\ pendingVersion' \in Nat
    BY <1>0, <1>5 DEF MaterializeNothing, rows, Queued
  <2>2. ReplyNoop(r, pendingCount', pendingVersion')
    BY <1>5 DEF MaterializeNothing
  <2>3. QED
    BY <2>1, <2>2, EmptyAnswer
<1>6. ASSUME NEW l \in LocalId, MaterializeHead(r, l)
      PROVE  AnswersInv'
  <2>1. /\ \A q \in Runner \ {r} : call'[q] = call[q] /\ reply'[q] = reply[q]
        /\ call'[r] = Idle /\ reply'[r] = None
        /\ noopCache' = noopCache \/ noopCache' = None
    BY <1>0, <1>6 DEF MaterializeHead, CreateFromPending, TypeOK
  <2>2. /\ CallSound(r)' /\ TrueWhileCurrent(reply[r])'
        /\ noopCache' = noopCache \/ TrueWhileCurrent(noopCache)'
    BY <2>1 DEF CallSound, TrueWhileCurrent, Idle, Call
  <2>3. QED
    BY <2>1, <2>2, AnswersStay
<1>7. QED
  BY <1>1, <1>2, <1>3, <1>4, <1>5, <1>6 DEF RunnerStep, Materialize

LEMMA AnswersNext ==
  ASSUME TypeOK, AnswersInv, Moves, [Next]_vars
  PROVE  AnswersInv'
<1>1. CASE UserStep \/ ReorderStep \/ UNCHANGED vars
  <2>1. UNCHANGED runners
    BY <1>1 DEF UserStep, ReorderStep, vars, EnqueuePendingMessage, UpdatePendingMessage,
         CreateSessionMessage, DeletePendingMessage, DiscardPendingMessage,
         RestorePendingMessage, ReorderPendingMessages
  <2>2. QED
    BY <2>1, AnswersUntouched
<1>2. CASE \E r \in Runner : RunnerStep(r)
  BY <1>2, AnswersRunner
<1>3. CASE ExpireNoop
  BY <1>3, AnswersStay DEF ExpireNoop, TrueWhileCurrent
<1>4. CASE Redeploy
  <2>1. /\ \A r \in Runner : call'[r] = Idle /\ reply'[r] = reply[r]
        /\ noopCache' = None
    BY <1>4 DEF Redeploy
  <2>2. /\ \A r \in Runner : CallSound(r)'
        /\ TrueWhileCurrent(noopCache)'
    BY <2>1 DEF CallSound, TrueWhileCurrent, Idle, Call
  <2>3. QED
    BY <2>1, <2>2, AnswersStay
<1>5. QED
  BY <1>1, <1>2, <1>3, <1>4 DEF Next

\* "Nothing pending at this version" is true wherever it is kept or has been
\* told, through races of socket, HTTP, users and other runners.
THEOREM EmptyAnswersAreTrue == Spec => []NothingPendingIsTrue
<1>1. Init => QueueInv /\ AnswersInv
  BY QueueInit, AnswersInit DEF Init
<1>2. QueueInv /\ AnswersInv /\ [Next]_vars => (QueueInv /\ AnswersInv)'
  BY QueueNext, StepIsVersioned, AnswersNext DEF QueueInv, Versioned, Moves
<1>3. AnswersInv => NothingPendingIsTrue
  BY DEF AnswersInv
<1>4. QED
  BY <1>1, <1>2, <1>3, PTL DEF Spec
-----------------------------------------------------------------------------
(***************************************************************************)
(* The transcript.  Only createSessionMessage and materialize-next write   *)
(* it, and both give the next seq to a localId that has none.              *)
(***************************************************************************)
Grows ==
  \/ UNCHANGED <<seq, msgSeq>>
  \/ \E l \in LocalId : /\ msgSeq[l] = 0
                        /\ seq' = seq + 1
                        /\ msgSeq' = [msgSeq EXCEPT ![l] = seq + 1]

LEMMA TranscriptGrows ==
  ASSUME [Next]_vars
  PROVE  Grows
<1>1. CASE UserStep
  BY <1>1 DEF UserStep, Grows, transcript, EnqueuePendingMessage, UpdatePendingMessage,
       CreateSessionMessage, DeletePendingMessage, DiscardPendingMessage,
       RestorePendingMessage
<1>2. CASE \E r \in Runner : RunnerStep(r)
  BY <1>2 DEF RunnerStep, Materialize, Grows, transcript, CallOnSocket, ConsultCache,
       CallOnHttp, ReadSession, ProbeQueue, MaterializeNothing, MaterializeHead, CreateFromPending,
       MaterializeFails
<1>3. CASE ReorderStep \/ ExpireNoop \/ Redeploy \/ UNCHANGED vars
  BY <1>3 DEF ReorderStep, ReorderPendingMessages, ExpireNoop, Redeploy, vars,
       transcript, Grows
<1>4. QED
  BY <1>1, <1>2, <1>3 DEF Next

\* A prompt's place in the transcript, once given, never changes.
THEOREM PlacesAreFinal == Spec => TranscriptPlaceIsFinal
<1>1. ASSUME QueueInv, [Next]_vars
      PROVE  [\A l \in LocalId : msgSeq[l] # 0 => msgSeq'[l] = msgSeq[l]]_vars
  BY <1>1, TranscriptGrows DEF Grows, QueueInv, TypeOK
<1>2. QED
  BY QueueInit, QueueNext, <1>1, PTL DEF Spec, TranscriptPlaceIsFinal

LEMMA SeqsNext ==
  ASSUME TypeOK, SeqsDense, [Next]_vars
  PROVE  SeqsDense'
<1>0. msgSeq \in [LocalId -> Nat] /\ seq \in Nat
  BY DEF TypeOK
<1>1. CASE UNCHANGED <<seq, msgSeq>>
  BY <1>1 DEF SeqsDense
<1>2. ASSUME NEW l \in LocalId, msgSeq[l] = 0, seq' = seq + 1,
             msgSeq' = [msgSeq EXCEPT ![l] = seq + 1]
      PROVE  SeqsDense'
  <2>1. \A k \in LocalId : msgSeq'[k] = IF k = l THEN seq + 1 ELSE msgSeq[k]
    BY <1>0, <1>2
  <2>2. \A k \in LocalId : msgSeq[k] # 0 => msgSeq[k] \in 1..seq
    BY DEF SeqsDense
  <2>3. \A n \in 1..seq : \E k \in LocalId : msgSeq[k] = n
    BY DEF SeqsDense
  <2>4. \A k \in LocalId : msgSeq'[k] # 0 => msgSeq'[k] \in 1..(seq + 1)
    BY <1>0, <2>1, <2>2
  <2>5. \A n \in 1..(seq + 1) : \E k \in LocalId : msgSeq'[k] = n
    <3> TAKE n \in 1..(seq + 1)
    <3>1. CASE n = seq + 1
      BY <2>1, <3>1
    <3>2. CASE n # seq + 1
      <4>1. n \in 1..seq
        BY <1>0, <3>2
      <4>2. PICK k \in LocalId : msgSeq[k] = n
        BY <2>3, <4>1
      <4>3. k # l
        BY <1>2, <4>1, <4>2
      <4>4. QED
        BY <2>1, <4>2, <4>3
    <3>3. QED
      BY <3>1, <3>2
  <2>6. {msgSeq'[k] : k \in LocalId} \ {0} = 1..(seq + 1)
    BY <1>0, <2>4, <2>5
  <2>7. \A k, j \in LocalId : msgSeq'[k] = msgSeq'[j] /\ msgSeq'[k] # 0 => k = j
    BY <1>0, <2>1, <2>2 DEF SeqsDense
  <2>8. QED
    BY <1>2, <2>6, <2>7 DEF SeqsDense
<1>3. QED
  BY <1>1, <1>2, TranscriptGrows DEF Grows

\* The transcript's seqs are 1, 2, ... up to Session.seq, each given once.
THEOREM TranscriptIsDense == Spec => []SeqsDense
<1>1. Init => SeqsDense
  BY DEF Init, NewSession, SeqsDense
<1>2. QueueInv => TypeOK
  BY DEF QueueInv
<1>3. QED
  BY QueueInit, QueueNext, <1>1, <1>2, SeqsNext, PTL DEF Spec
-----------------------------------------------------------------------------
\* A prompt that nobody deleted is in a table.
LEMMA KeptNext ==
  ASSUME TypeOK, NoPromptLost, [Next]_vars
  PROVE  NoPromptLost'
<1>0. /\ TypeOK
      /\ \A l \in LocalId : msgSeq[l] # 0 => msgSeq'[l] # 0
  BY TranscriptGrows DEF TypeOK, Grows
<1>1. ASSUME NEW l \in LocalId, NEW c \in Content,
             \/ EnqueuePendingMessage(l, c) \/ UpdatePendingMessage(l, c)
             \/ CreateSessionMessage(l, c)
      PROVE  NoPromptLost'
  BY <1>0, <1>1 DEF EnqueuePendingMessage, UpdatePendingMessage, CreateSessionMessage,
       NoPromptLost, TypeOK, rows
<1>2. ASSUME NEW l \in LocalId,
             \/ DeletePendingMessage(l) \/ DiscardPendingMessage(l)
             \/ RestorePendingMessage(l)
      PROVE  NoPromptLost'
  BY <1>0, <1>2 DEF DeletePendingMessage, DiscardPendingMessage, RestorePendingMessage,
       NoPromptLost, TypeOK
<1>3. ASSUME NEW r \in Runner, NEW l \in LocalId, MaterializeHead(r, l)
      PROVE  NoPromptLost'
  <2>1. msgSeq'[l] # 0
    BY <1>0, <1>3 DEF MaterializeHead, CreateFromPending, transcript, TypeOK
  <2>2. \A k \in LocalId \ {l} : status'[k] = status[k]
    BY <1>0, <1>3 DEF MaterializeHead, TypeOK
  <2>3. kept' = kept /\ kept \subseteq LocalId
    BY <1>0, <1>3 DEF MaterializeHead, TypeOK
  <2>4. QED
    BY <1>0, <2>1, <2>2, <2>3 DEF NoPromptLost
<1>4. CASE UNCHANGED <<status, kept>>
  BY <1>0, <1>4 DEF NoPromptLost, TypeOK
<1>5. CASE ReorderStep \/ ExpireNoop \/ Redeploy \/ UNCHANGED vars
  BY <1>4, <1>5 DEF ReorderStep, ReorderPendingMessages, ExpireNoop, Redeploy, vars, rows
<1>6. ASSUME NEW r \in Runner, RunnerStep(r)
      PROVE  NoPromptLost'
  BY <1>3, <1>4, <1>6 DEF RunnerStep, Materialize, CallOnSocket, ConsultCache, CallOnHttp,
       ReadSession, ProbeQueue, MaterializeNothing, MaterializeFails, rows
<1>7. QED
  BY <1>1, <1>2, <1>5, <1>6 DEF Next, UserStep

\* No accepted prompt vanishes, whatever the queue operations, the runners,
\* the storage policy and restarts do.
THEOREM PromptsAreKept == Spec => []NoPromptLost
<1>1. Init => NoPromptLost
  BY DEF Init, NoPromptLost
<1>2. QueueInv => TypeOK
  BY DEF QueueInv
<1>3. QED
  BY QueueInit, QueueNext, <1>1, <1>2, KeptNext, PTL DEF Spec
-----------------------------------------------------------------------------
\* Marking leaves the newest cursor and the given hint in every row.
LEMMA MarkedHint ==
  ASSUME TypeOK, NEW n \in Nat, NEW h, MarkParticipants(n, h)
  PROVE  \A p \in Participant : change'[p].cursor = accountSeq'[p] /\ change'[p].hint = h
BY DEF TypeOK, MarkParticipants

LEMMA AppliedHint ==
  ASSUME TypeOK, NEW d \in {-1, 0, 1}, ApplyPendingStateChange(d)
  PROVE  HintIsCurrent'
<1>1. \A p \in Participant :
        /\ change'[p].cursor = accountSeq'[p]
        /\ change'[p].hint = PendingHint(pendingCount', pendingVersion')
  BY MarkedHint DEF ApplyPendingStateChange
<1>2. QED
  BY <1>1 DEF HintIsCurrent, PendingHint

LEMMA HintNext ==
  ASSUME QueueInv, HintIsCurrent, [Next]_vars
  PROVE  HintIsCurrent'
<1>0. TypeOK
  BY DEF QueueInv
<1>1. ASSUME NEW l \in LocalId, NEW c \in Content,
             EnqueuePendingMessage(l, c) \/ UpdatePendingMessage(l, c)
      PROVE  HintIsCurrent'
  BY <1>0, <1>1, AppliedHint DEF EnqueuePendingMessage, UpdatePendingMessage
<1>2. ASSUME NEW l \in LocalId, NEW c \in Content, CreateSessionMessage(l, c)
      PROVE  HintIsCurrent'
  <2>1. \A p \in Participant :
          /\ change'[p].cursor = accountSeq'[p]
          /\ change'[p].hint = MessageHint(msgSeq'[l])
    BY <1>0, <1>2, MarkedHint DEF CreateSessionMessage
  <2>2. QED
    BY <2>1 DEF HintIsCurrent, MessageHint
<1>3. ASSUME NEW l \in LocalId, DeletePendingMessage(l)
      PROVE  HintIsCurrent'
  <2>1. ApplyPendingStateChange(-1) \/ ApplyPendingStateChange(0)
    BY <1>3 DEF DeletePendingMessage
  <2>2. QED
    BY <1>0, <2>1, AppliedHint
<1>4. ASSUME NEW l \in LocalId, DiscardPendingMessage(l) \/ RestorePendingMessage(l)
      PROVE  HintIsCurrent'
  BY <1>0, <1>4, AppliedHint DEF DiscardPendingMessage, RestorePendingMessage
<1>5. CASE ReorderStep
  BY <1>0, <1>5, AppliedHint DEF ReorderStep, ReorderPendingMessages
<1>6. CASE UNCHANGED <<feed, pendingCount, pendingVersion>>
  BY <1>6 DEF HintIsCurrent, feed
<1>7. ASSUME NEW r \in Runner, RunnerStep(r)
      PROVE  HintIsCurrent'
  <2>1. CASE MaterializeNothing(r)
    BY <1>6, <2>1, MaterializeNothingQueue DEF MaterializeNothing
  <2>2. ASSUME NEW l \in LocalId, MaterializeHead(r, l)
        PROVE  HintIsCurrent'
    <3>1. \A p \in Participant :
            /\ change'[p].cursor = accountSeq'[p]
            /\ change'[p].hint = PendingHint(pendingCount', pendingVersion')
      BY <1>0, <2>2, MarkedHint DEF MaterializeHead
    <3>2. QED
      BY <3>1 DEF HintIsCurrent, PendingHint
  <2>3. CASE ~ Materialize(r)
    <3>1. UNCHANGED feed
      BY <1>7, <2>3 DEF RunnerStep, CallOnSocket, ConsultCache, CallOnHttp, ReadSession,
           ProbeQueue, MaterializeFails
    <3>2. QED
      BY <1>0, <1>6, <1>7, <2>3, <3>1, CallTypes DEF RunnerStep, session
  <2>4. QED
    BY <2>1, <2>2, <2>3 DEF Materialize
<1>8. CASE ExpireNoop \/ Redeploy \/ UNCHANGED vars
  BY <1>6, <1>8 DEF ExpireNoop, Redeploy, vars, session
<1>9. QED
  BY <1>1, <1>2, <1>3, <1>4, <1>5, <1>7, <1>8 DEF Next, UserStep

\* What a participant reads of the queue after a reconnect is not out of date.
THEOREM HintsAreCurrent == Spec => []HintIsCurrent
<1>1. Init => HintIsCurrent
  BY DEF Init, NewSession, HintIsCurrent
<1>2. QED
  BY QueueInit, QueueNext, <1>1, HintNext, PTL DEF Spec
-----------------------------------------------------------------------------
(***************************************************************************)
(* The queue of a session that starts with counters that do not fit its    *)
(* rows (DriftedSpec).  Every step moves rows and count in one of five     *)
(* ways; what each way does to the order of the rows and to the drift of   *)
(* the count is proved once.                                               *)
(***************************************************************************)

\* A bound for the positions: without it nothing says that a highest exists.
Bounded == \E b \in Nat : \A l \in Queued : position[l] <= b

DriftInv == TypeOK /\ PositionsDistinct /\ Bounded

LEMMA NextIsNew ==
  ASSUME TypeOK, Bounded
  PROVE  /\ NextPosition \in Nat
         /\ \A l \in Queued : position[l] < NextPosition
<1> DEFINE P == {position[l] : l \in Queued}
<1>1. P \subseteq Nat /\ pendingQueueSeq \in Nat /\ \A l \in Queued : position[l] \in Nat
  BY DEF TypeOK, Queued
<1>2. CASE Queued = {}
  BY <1>1, <1>2 DEF NextPosition, HighestQueued
<1>3. CASE Queued # {}
  <2>1. PICK b \in Nat : \A n \in P : n <= b
    BY DEF Bounded
  <2>2. P # {}
    BY <1>3
  <2>3. \E n \in P : \A k \in P : k <= n
    BY <1>1, <2>1, <2>2, GreatestExists
  <2>4. \E n \in P : \A l \in Queued : position[l] <= n
    BY <2>3
  <2>5. HighestQueued \in P /\ \A l \in Queued : position[l] <= HighestQueued
    BY <1>3, <2>4 DEF HighestQueued
  <2> QED BY <1>1, <2>5 DEF NextPosition
<1> QED BY <1>2, <1>3

\* The ways.

Joins(l) ==
  /\ l \notin Queued /\ Queued' = Queued \cup {l} /\ pendingCount' = pendingCount + 1
  /\ position' = [position EXCEPT ![l] = NextPosition]

Leaves(l) ==
  /\ l \in Queued /\ Queued' = Queued \ {l}
  /\ pendingCount' = IF pendingCount > 0 THEN pendingCount - 1 ELSE 0
  /\ \A k \in Queued \ {l} : position'[k] = position[k]

Stays ==
  /\ Queued' = Queued /\ pendingCount' = pendingCount
  /\ \A k \in Queued : position'[k] = position[k]

Renumbers ==
  /\ Queued' = Queued /\ pendingCount' = pendingCount
  /\ \E order \in Bijection(Queued, 1..Cardinality(Queued)) :
       \A k \in Queued : position'[k] = order[k]

Repairs == Queued = {} /\ Queued' = {} /\ pendingCount' = 0

OneWay == Stays \/ Renumbers \/ Repairs \/ \E l \in LocalId : Joins(l) \/ Leaves(l)

\* The rows keep one order, whichever way they move.
LEMMA WaysKeepOrder ==
  ASSUME DriftInv, OneWay
  PROVE  PositionsDistinct' /\ Bounded'
<1>0. Queued \subseteq LocalId /\ \A k \in Queued : position[k] \in Nat
  BY DEF DriftInv, TypeOK, Queued
<1>1. PICK b \in Nat : \A k \in Queued : position[k] <= b
  BY DEF DriftInv, Bounded
<1>2. CASE Stays
  BY <1>0, <1>1, <1>2 DEF Stays, DriftInv, PositionsDistinct, Bounded
<1>3. CASE Renumbers
  <2>1. PICK order \in Bijection(Queued, 1..Cardinality(Queued)) :
               \A k \in Queued : position'[k] = order[k]
    BY <1>3 DEF Renumbers
  <2>2. /\ \A k \in Queued : order[k] \in 1..Cardinality(Queued)
        /\ \A k, l \in Queued : order[k] = order[l] => k = l
    BY DEF Bijection, Injection, IsInjective
  <2>3. \A k \in Queued : order[k] <= Cardinality(Queued)
    BY <2>2, QueuedFinite
  <2> QED BY <1>3, <2>1, <2>2, <2>3, QueuedFinite DEF Renumbers, PositionsDistinct, Bounded
<1>4. CASE Repairs
  BY <1>4 DEF Repairs, PositionsDistinct, Bounded
<1>5. ASSUME NEW l \in LocalId, Joins(l)
      PROVE  PositionsDistinct' /\ Bounded'
  <2>1. NextPosition \in Nat /\ \A k \in Queued : position[k] < NextPosition
    BY NextIsNew DEF DriftInv
  <2>2. position'[l] = NextPosition /\ \A k \in Queued : position'[k] = position[k]
    BY <1>0, <1>5 DEF Joins, DriftInv, TypeOK
  <2>3. \A k \in Queued' : position'[k] <= NextPosition
    BY <1>0, <1>5, <2>1, <2>2 DEF Joins
  <2>4. PositionsDistinct'
    BY <1>0, <1>5, <2>1, <2>2 DEF Joins, DriftInv, PositionsDistinct
  <2> QED BY <2>1, <2>3, <2>4 DEF Bounded
<1>6. ASSUME NEW l \in LocalId, Leaves(l)
      PROVE  PositionsDistinct' /\ Bounded'
  BY <1>0, <1>1, <1>6 DEF Leaves, DriftInv, PositionsDistinct, Bounded
<1> QED BY <1>2, <1>3, <1>4, <1>5, <1>6 DEF OneWay

\* The count is as far from the rows as before, or less.
LEMMA WaysKeepDrift ==
  ASSUME TypeOK, OneWay
  PROVE  Drift' <= Drift
<1>0. pendingCount \in Nat /\ IsFiniteSet(Queued) /\ Cardinality(Queued) \in Nat
  BY QueuedFinite DEF TypeOK
<1>1. CASE Stays \/ Renumbers
  BY <1>0, <1>1 DEF Stays, Renumbers, Drift
<1>2. CASE Repairs
  BY <1>0, <1>2, FS_EmptySet DEF Repairs, Drift
<1>3. ASSUME NEW l \in LocalId, Joins(l)
      PROVE  Drift' <= Drift
  <2>1. Cardinality(Queued') = Cardinality(Queued) + 1
    BY <1>0, <1>3, FS_AddElement DEF Joins
  <2> QED BY <1>0, <1>3, <2>1 DEF Joins, Drift
<1>4. ASSUME NEW l \in LocalId, Leaves(l)
      PROVE  Drift' <= Drift
  <2>1. Cardinality(Queued') = Cardinality(Queued) - 1
    BY <1>0, <1>4, FS_RemoveElement DEF Leaves
  <2>2. Cardinality(Queued) > 0
    BY <1>0, <1>4, FS_EmptySet DEF Leaves
  <2> QED BY <1>0, <1>4, <2>1, <2>2 DEF Leaves, Drift
<1> QED BY <1>1, <1>2, <1>3, <1>4 DEF OneWay

\* Every step goes one of the ways.

\* What applyPendingSessionStateChange does to the count.
LEMMA ApplyMoves ==
  ASSUME TypeOK, NEW d \in {-1, 0, 1}, ApplyPendingStateChange(d)
  PROVE  /\ Moves
         /\ d = 1 => pendingCount' = pendingCount + 1
         /\ d = 0 => pendingCount' = pendingCount
         /\ d = -1 => pendingCount' = IF pendingCount > 0 THEN pendingCount - 1 ELSE 0
BY DEF TypeOK, ApplyPendingStateChange, Moves

Fits == TypeOK' /\ OneWay /\ Moves

LEMMA EnqueueFits ==
  ASSUME DriftInv, NEW l \in LocalId, NEW c \in Content, EnqueuePendingMessage(l, c)
  PROVE  Fits
<1>1. NextPosition \in Nat /\ TypeOK
  BY NextIsNew DEF DriftInv
<1>2. Moves /\ pendingCount' = pendingCount + 1
  BY <1>1, ApplyMoves DEF EnqueuePendingMessage
<1>3. Joins(l)
  BY <1>1, <1>2 DEF EnqueuePendingMessage, Joins, Queued, TypeOK
<1>4. TypeOK'
  BY <1>1, ApplyTypes DEF EnqueuePendingMessage, TypeOK, transcript, server, runners
<1> QED BY <1>2, <1>3, <1>4 DEF Fits, OneWay

LEMMA UpdateFits ==
  ASSUME DriftInv, NEW l \in LocalId, NEW c \in Content,
         UpdatePendingMessage(l, c) \/ CreateSessionMessage(l, c)
  PROVE  Fits
<1>0. TypeOK
  BY DEF DriftInv
<1>1. CASE UpdatePendingMessage(l, c)
  <2>1. Moves /\ pendingCount' = pendingCount
    BY <1>0, <1>1, ApplyMoves DEF UpdatePendingMessage
  <2>2. Stays
    BY <1>1, <2>1 DEF UpdatePendingMessage, Stays, Queued
  <2>3. TypeOK'
    BY <1>0, <1>1, ApplyTypes DEF UpdatePendingMessage, TypeOK, transcript, server, runners
  <2> QED BY <2>1, <2>2, <2>3 DEF Fits, OneWay
<1>2. CASE CreateSessionMessage(l, c)
  <2>1. Stays /\ Moves
    BY <1>2 DEF CreateSessionMessage, Stays, Moves, Queued, rows, session
  <2>2. seq' \in Nat /\ msgSeq' \in [LocalId -> Nat]
    BY <1>0, <1>2 DEF TypeOK, CreateSessionMessage
  <2>3. /\ accountSeq' \in [Participant -> Nat]
        /\ change' \in [Participant -> [cursor : Nat, hint : Hint]]
    <3>1. msgSeq'[l] \in Nat
      BY <2>2
    <3> QED BY <1>0, <1>2, <3>1, MarkTypes, HintTypes DEF CreateSessionMessage
  <2>4. TypeOK'
    BY <1>0, <1>2, <2>2, <2>3 DEF TypeOK, CreateSessionMessage, rows, session, server, runners
  <2> QED BY <2>1, <2>4 DEF Fits, OneWay
<1> QED BY <1>1, <1>2

LEMMA DeleteFits ==
  ASSUME DriftInv, NEW l \in LocalId, DeletePendingMessage(l)
  PROVE  Fits
<1>0. TypeOK
  BY DEF DriftInv
<1>1. /\ Queued' = Queued \ {l} /\ \A k \in Queued \ {l} : position'[k] = position[k]
      /\ ApplyPendingStateChange(IF l \in Queued THEN -1 ELSE 0)
  BY <1>0 DEF DeletePendingMessage, Queued, TypeOK
<1>2. PICK d \in {-1, 0, 1} : d = (IF l \in Queued THEN -1 ELSE 0)
  OBVIOUS
<1>3. ApplyPendingStateChange(d)
  BY <1>1, <1>2
<1>4. TypeOK'
  BY <1>0, <1>3, ApplyTypes DEF DeletePendingMessage, TypeOK, transcript, server, runners
<1>5. CASE l \in Queued
  BY <1>0, <1>1, <1>2, <1>3, <1>4, <1>5, ApplyMoves DEF Fits, OneWay, Leaves
<1>6. CASE l \notin Queued
  <2>1. Queued' = Queued /\ \A k \in Queued : position'[k] = position[k]
    BY <1>1, <1>6
  <2> QED BY <1>0, <1>2, <1>3, <1>4, <1>6, <2>1, ApplyMoves DEF Fits, OneWay, Stays
<1> QED BY <1>5, <1>6

LEMMA DiscardFits ==
  ASSUME DriftInv, NEW l \in LocalId, DiscardPendingMessage(l)
  PROVE  Fits
<1>0. TypeOK
  BY DEF DriftInv
<1>1. Moves /\ pendingCount' = IF pendingCount > 0 THEN pendingCount - 1 ELSE 0
  BY <1>0, ApplyMoves DEF DiscardPendingMessage
<1>2. Leaves(l)
  BY <1>0, <1>1 DEF DiscardPendingMessage, Leaves, Queued, TypeOK
<1>3. TypeOK'
  BY <1>0, ApplyTypes DEF DiscardPendingMessage, TypeOK, transcript, server, runners
<1> QED BY <1>1, <1>2, <1>3 DEF Fits, OneWay

LEMMA RestoreFits ==
  ASSUME DriftInv, NEW l \in LocalId, RestorePendingMessage(l)
  PROVE  Fits
<1>0. TypeOK /\ NextPosition \in Nat
  BY NextIsNew DEF DriftInv
<1>1. CASE status[l] = "discarded"
  <2>1. Moves /\ pendingCount' = pendingCount + 1
    BY <1>0, <1>1, ApplyMoves DEF RestorePendingMessage
  <2>2. Joins(l)
    BY <1>0, <1>1, <2>1 DEF RestorePendingMessage, Joins, Queued, TypeOK
  <2>3. TypeOK'
    BY <1>0, <1>1, ApplyTypes DEF RestorePendingMessage, TypeOK, transcript, server, runners
  <2> QED BY <2>1, <2>2, <2>3 DEF Fits, OneWay
<1>2. CASE status[l] # "discarded"
  <2>1. Moves /\ pendingCount' = pendingCount
    BY <1>0, <1>2, ApplyMoves DEF RestorePendingMessage
  <2>2. Stays
    BY <1>2, <2>1 DEF RestorePendingMessage, Stays, Queued
  <2>3. TypeOK'
    BY <1>0, <1>2, ApplyTypes DEF RestorePendingMessage, TypeOK, transcript, server, runners
  <2> QED BY <2>1, <2>2, <2>3 DEF Fits, OneWay
<1> QED BY <1>1, <1>2

LEMMA ReorderFits ==
  ASSUME DriftInv, ReorderStep
  PROVE  Fits
<1>0. TypeOK
  BY DEF DriftInv
<1>1. PICK order \in Bijection(Queued, 1..Cardinality(Queued)) : ReorderPendingMessages(order)
  BY DEF ReorderStep
<1>2. Moves /\ pendingCount' = pendingCount
  BY <1>0, <1>1, ApplyMoves DEF ReorderPendingMessages
<1>3. \A k \in Queued : order[k] \in Nat
  BY QueuedFinite DEF Bijection, Injection
<1>4. position' \in [LocalId -> Nat] /\ \A k \in Queued : position'[k] = order[k]
  BY <1>0, <1>1, <1>3 DEF ReorderPendingMessages, TypeOK, Queued
<1>5. Renumbers
  BY <1>1, <1>2, <1>4 DEF Renumbers, ReorderPendingMessages, Queued
<1>6. TypeOK'
  BY <1>0, <1>1, <1>4, ApplyTypes DEF ReorderPendingMessages, TypeOK, transcript, server, runners
<1> QED BY <1>2, <1>5, <1>6 DEF Fits, OneWay

LEMMA RunnerFits ==
  ASSUME DriftInv, NEW r \in Runner, RunnerStep(r)
  PROVE  Fits
<1>0. TypeOK /\ pendingCount \in Nat /\ pendingVersion \in Nat /\ Idle \in Calls
  BY DEF DriftInv, TypeOK, Idle, Call, Calls
<1>1. CASE MaterializeNothing(r)
  <2>1. pendingCount' = 0 /\ pendingVersion' \in Nat /\ Moves
    BY <1>0, <1>1 DEF MaterializeNothing, Moves, rows
  <2>2. [count |-> pendingCount', version |-> pendingVersion'] \in Answer
    BY <2>1 DEF Answer
  <2>3. TypeOK'
    BY <1>0, <1>1, <2>1, <2>2 DEF MaterializeNothing, ReplyNoop, TypeOK, rows, transcript, feed, server
  <2>4. Repairs
    BY <1>1, <2>1 DEF MaterializeNothing, Repairs, rows, Queued
  <2> QED BY <2>1, <2>3, <2>4 DEF Fits, OneWay
<1>2. ASSUME NEW l \in LocalId, MaterializeHead(r, l)
      PROVE  Fits
  <2>1. /\ pendingCount' \in Nat /\ pendingVersion' \in Nat /\ pendingVersion' = pendingVersion + 1
        /\ pendingCount' = IF pendingCount > 0 THEN pendingCount - 1 ELSE 0
    BY <1>0, <1>2 DEF MaterializeHead
  <2>2. /\ accountSeq' \in [Participant -> Nat]
        /\ change' \in [Participant -> [cursor : Nat, hint : Hint]]
    BY <1>0, <1>2, <2>1, MarkTypes, HintTypes DEF MaterializeHead
  <2>3. /\ seq' \in Nat /\ msgSeq' \in [LocalId -> Nat]
        /\ msgContent' \in [LocalId -> Content \cup {None}]
    BY <1>0, <1>2 DEF TypeOK, MaterializeHead, CreateFromPending, transcript
  <2>4. TypeOK'
    BY <1>0, <1>2, <2>1, <2>2, <2>3 DEF TypeOK, MaterializeHead, server
  <2>5. Leaves(l)
    BY <1>0, <1>2, <2>1 DEF MaterializeHead, IsHead, Leaves, Queued, TypeOK
  <2> QED BY <2>1, <2>4, <2>5 DEF Fits, OneWay, Moves
<1>3. CASE ~ Materialize(r)
  <2>1. TypeOK' /\ UNCHANGED <<rows, session>>
    BY <1>0, <1>3, CallTypes DEF RunnerStep
  <2> QED BY <2>1 DEF Fits, OneWay, Stays, Moves, Queued, rows, session
<1> QED BY <1>1, <1>2, <1>3 DEF Materialize

LEMMA StepFits ==
  ASSUME DriftInv, [Next]_vars
  PROVE  Fits
<1>1. CASE UserStep
  BY <1>1, EnqueueFits, UpdateFits, DeleteFits, DiscardFits, RestoreFits DEF UserStep
<1>2. CASE ReorderStep
  BY <1>2, ReorderFits
<1>3. CASE \E r \in Runner : RunnerStep(r)
  BY <1>3, RunnerFits
<1>4. CASE ExpireNoop \/ Redeploy \/ UNCHANGED vars
  <2>1. TypeOK' /\ UNCHANGED <<rows, session>>
    BY <1>4, ServerTypes DEF DriftInv
  <2> QED BY <2>1 DEF Fits, OneWay, Stays, Moves, Queued, rows, session
<1> QED BY <1>1, <1>2, <1>3, <1>4 DEF Next

\* The theorems.

LEMMA DriftStart ==
  ASSUME InitDrifted
  PROVE  DriftInv /\ NoPromptLost
<1>0. PICK Q \in SUBSET LocalId : \E order \in Bijection(Q, 1..Cardinality(Q)) :
        /\ status = [l \in LocalId |-> IF l \in Q THEN "queued" ELSE "none"]
        /\ position = [l \in LocalId |-> IF l \in Q THEN order[l] ELSE 0]
        /\ \E c \in policy : content = [l \in LocalId |-> IF l \in Q THEN c ELSE None]
        /\ pendingCount \in 0..(Cardinality(Q) + 1)
        /\ pendingQueueSeq \in {0, Cardinality(Q)}
        /\ kept = Q
  BY DEF InitDrifted
<1>1. PICK order \in Bijection(Q, 1..Cardinality(Q)) :
        /\ status = [l \in LocalId |-> IF l \in Q THEN "queued" ELSE "none"]
        /\ position = [l \in LocalId |-> IF l \in Q THEN order[l] ELSE 0]
        /\ \E c \in policy : content = [l \in LocalId |-> IF l \in Q THEN c ELSE None]
        /\ pendingCount \in 0..(Cardinality(Q) + 1)
        /\ pendingQueueSeq \in {0, Cardinality(Q)}
        /\ kept = Q
  BY <1>0
<1>2. Cardinality(Q) \in Nat
  BY LocalIdFinite, FS_Subset, FS_CardinalityType
<1>3. /\ \A l \in Q : order[l] \in 1..Cardinality(Q)
      /\ \A k, l \in Q : order[k] = order[l] => k = l
  BY DEF Bijection, Injection, IsInjective
<1>4. Queued = Q /\ \A l \in Q : position[l] = order[l]
  BY <1>1 DEF Queued
<1>5. PositionsDistinct
  BY <1>3, <1>4 DEF PositionsDistinct
<1>6. Bounded
  BY <1>2, <1>3, <1>4 DEF Bounded
<1>7. position \in [LocalId -> Nat] /\ pendingCount \in Nat /\ pendingQueueSeq \in Nat
  BY <1>1, <1>2, <1>3
<1>8. content \in [LocalId -> Content \cup {None}]
  BY <1>1, PoliciesAccept DEF InitDrifted, NewSession
<1>9. TypeOK
  BY <1>1, <1>7, <1>8 DEF InitDrifted, NewSession, TypeOK, Hint, Idle, Call, Calls
<1>10. NoPromptLost
  BY <1>1 DEF NoPromptLost
<1> QED BY <1>5, <1>6, <1>9, <1>10 DEF DriftInv

LEMMA DriftNext ==
  ASSUME DriftInv, [Next]_vars
  PROVE  DriftInv'
BY StepFits, WaysKeepOrder DEF DriftInv, Fits

LEMMA DriftInvariant == DriftedSpec => []DriftInv
BY DriftStart, DriftNext, PTL DEF DriftedSpec

\* The tables keep their types however wrong the counters are to begin with.
THEOREM DriftedTypeCorrect == DriftedSpec => []TypeOK
<1>1. DriftInv => TypeOK
  BY DEF DriftInv
<1> QED BY <1>1, DriftInvariant, PTL

\* Queued rows have one order even if pendingQueueSeq lags behind them.
THEOREM DriftedOrderIsTotal == DriftedSpec => []PositionsDistinct
<1>1. DriftInv => PositionsDistinct
  BY DEF DriftInv
<1> QED BY <1>1, DriftInvariant, PTL

\* No operation takes pendingCount further from the number of queued rows.
THEOREM DriftOnlyShrinks == DriftedSpec => DriftNeverGrows
<1>1. ASSUME DriftInv, [Next]_vars
      PROVE  [Drift' <= Drift]_vars
  BY <1>1, StepFits, WaysKeepDrift DEF DriftInv, Fits
<1> QED BY <1>1, DriftInvariant, PTL DEF DriftedSpec, DriftNeverGrows

\* "Nothing pending" is true at its version although the count may lie.
THEOREM DriftedEmptyAnswersAreTrue == DriftedSpec => []NothingPendingIsTrue
<1>1. InitDrifted => AnswersInv
  BY AnswersInit DEF InitDrifted
<1>2. DriftInv /\ AnswersInv /\ [Next]_vars => AnswersInv'
  BY StepFits, AnswersNext DEF DriftInv, Fits
<1>3. AnswersInv => NothingPendingIsTrue
  BY DEF AnswersInv
<1> QED BY <1>1, <1>2, <1>3, DriftInvariant, PTL DEF DriftedSpec

\* A wrong count loses no prompt: every one that nobody deleted is in a table.
THEOREM DriftedPromptsAreKept == DriftedSpec => []NoPromptLost
<1>1. DriftInv /\ NoPromptLost /\ [Next]_vars => NoPromptLost'
  BY KeptNext DEF DriftInv
<1> QED BY <1>1, DriftStart, DriftInvariant, PTL DEF DriftedSpec
-----------------------------------------------------------------------------
(***************************************************************************)
(* The tables implement the line of prompts (PromptQueue).  Positions and  *)
(* seqs order rows and messages, so each has one listing; what an          *)
(* operation does to its rows is what the abstract step does to the list.  *)
(***************************************************************************)

\* The invariants the mapping needs: one order of the rows, one of the messages.
Mapped == TypeOK /\ PositionsDistinct /\ SeqsDense

LEMMA RowsHaveOrder ==
  ASSUME TypeOK, PositionsDistinct
  PROVE  Orders(position, Queued)
BY QueuedFinite DEF TypeOK, PositionsDistinct, Queued, Orders

LEMMA RowsHaveOrderNext ==
  ASSUME TypeOK', PositionsDistinct'
  PROVE  Orders(position', Queued')
<1>1. IsFiniteSet(Queued')
  BY LocalIdFinite, FS_Subset DEF Queued
<1> QED BY <1>1 DEF TypeOK, PositionsDistinct, Queued, Orders

LEMMA MessagesHaveOrder ==
  ASSUME TypeOK, SeqsDense
  PROVE  Orders(msgSeq, Messages)
<1>1. IsFiniteSet(Messages)
  BY LocalIdFinite, FS_Subset DEF Messages
<1> QED BY <1>1 DEF TypeOK, SeqsDense, Messages, Orders

LEMMA MessagesHaveOrderNext ==
  ASSUME TypeOK', SeqsDense'
  PROVE  Orders(msgSeq', Messages')
<1>1. IsFiniteSet(Messages')
  BY LocalIdFinite, FS_Subset DEF Messages
<1> QED BY <1>1 DEF TypeOK, SeqsDense, Messages, Orders

\* A row reserved behind all others is the last of the line.
LEMMA LineGrows ==
  ASSUME Mapped, Mapped', Bounded, NEW l \in LocalId,
         l \notin Queued, Queued' = Queued \cup {l},
         position' = [position EXCEPT ![l] = NextPosition]
  PROVE  QueueOrder' = Append(QueueOrder, l)
<1>1. \A k \in Queued : position[k] < NextPosition
  BY NextIsNew DEF Mapped
<1>2. Orders(position, Queued) /\ Orders(position', Queued \cup {l})
  BY RowsHaveOrder, RowsHaveOrderNext DEF Mapped
<1>3. \A k \in Queued : position'[k] = position[k] /\ position'[k] < position'[l]
  BY <1>1 DEF Mapped, TypeOK, Queued
<1>4. JoinsLast(l, Queued', position', Queued, position)
  BY <1>2, <1>3 DEF JoinsLast
<1>5. IsWithLast(InOrder(Queued', position'), InOrder(Queued, position), l)
  BY <1>2, <1>4, InOrderWithLast
<1> QED BY <1>5 DEF QueueOrder, IsWithLast

\* A row leaves the line at its place in it.
LEMMA LineShrinks ==
  ASSUME Mapped, NEW l \in Queued, Queued' = Queued \ {l},
         \A k \in Queued \ {l} : position'[k] = position[k]
  PROVE  \E i \in DOMAIN QueueOrder : QueueOrder[i] = l /\ QueueOrder' = Abstract!Without(i)
<1> DEFINE n == Cardinality(Queued)
<1>1. Orders(position, Queued)
  BY RowsHaveOrder DEF Mapped
<1>2. /\ Len(QueueOrder) = n /\ DOMAIN QueueOrder = 1..n
      /\ {QueueOrder[i] : i \in DOMAIN QueueOrder} = Queued
  BY <1>1, ListingIsSequence DEF QueueOrder
<1>3. PICK i \in 1..n : QueueOrder[i] = l
  BY <1>2
<1>4. InOrder(Queued, position)[i] = l
  BY <1>3 DEF QueueOrder
<1>5. InOrder(Queued \ {InOrder(Queued, position)[i]}, position') =
        [j \in 1..(n - 1) |-> InOrder(Queued, position)[IF j < i THEN j ELSE j + 1]]
  <2>1. \A k \in Queued : k # InOrder(Queued, position)[i] => position'[k] = position[k]
    BY <1>4
  <2> QED BY <1>1, <2>1, InOrderWithout
<1>6. InOrder(Queued', position') =
        [j \in 1..(n - 1) |-> InOrder(Queued, position)[IF j < i THEN j ELSE j + 1]]
  BY <1>4, <1>5
<1>7. QueueOrder' = [j \in 1..(Len(QueueOrder) - 1) |-> QueueOrder[IF j < i THEN j ELSE j + 1]]
  BY <1>2, <1>6 DEF QueueOrder
<1>8. QueueOrder' = Abstract!Without(i)
  BY <1>7 DEF Abstract!Without
<1> QED BY <1>2, <1>3, <1>8

\* The head row is the first of the line.
LEMMA HeadIsFirst ==
  ASSUME Mapped, NEW l \in Queued, IsHead(l)
  PROVE  QueueOrder # <<>> /\ Head(QueueOrder) = l /\ QueueOrder[1] = l
<1> DEFINE n == Cardinality(Queued)
<1>1. Orders(position, Queued) /\ n \in Nat
  BY RowsHaveOrder, QueuedFinite DEF Mapped
<1>2. /\ QueueOrder \in Seq(Queued) /\ Len(QueueOrder) = n /\ DOMAIN QueueOrder = 1..n
      /\ {QueueOrder[i] : i \in DOMAIN QueueOrder} = Queued
  BY <1>1, ListingIsSequence DEF QueueOrder
<1>3. Lists(QueueOrder, Queued, position)
  BY <1>1, InOrderLists DEF QueueOrder
<1>4. PICK i \in 1..n : QueueOrder[i] = l
  BY <1>2
<1>5. 1 \in 1..n /\ QueueOrder[1] \in Queued
  BY <1>1, <1>2, <1>4
<1>6. ~ (1 < i)
  <2>1. SUFFICES ASSUME 1 < i PROVE FALSE
    OBVIOUS
  <2>2. position[QueueOrder[1]] < position[l]
    BY <1>3, <1>4, <1>5, <2>1 DEF Lists
  <2>3. position[l] <= position[QueueOrder[1]]
    BY <1>5 DEF IsHead
  <2>4. position[l] \in Int /\ position[QueueOrder[1]] \in Int
    BY <1>1, <1>5 DEF Orders
  <2> QED BY <2>2, <2>3, <2>4
<1>7. i = 1
  BY <1>4, <1>6
<1> QED BY <1>2, <1>4, <1>5, <1>7

\* A row has one place in the line.
LEMMA RowInOnePlace ==
  ASSUME Mapped, NEW i \in DOMAIN QueueOrder, NEW j \in DOMAIN QueueOrder,
         QueueOrder[i] = QueueOrder[j]
  PROVE  i = j
<1>1. Orders(position, Queued)
  BY RowsHaveOrder DEF Mapped
<1>2. DOMAIN QueueOrder = 1..Cardinality(Queued)
  BY <1>1, ListingIsSequence DEF QueueOrder
<1>3. Lists(QueueOrder, Queued, position)
  BY <1>1, InOrderLists DEF QueueOrder
<1>4. \A a, b \in 1..Cardinality(Queued) : QueueOrder[a] = QueueOrder[b] => a = b
  BY <1>1, <1>3, ListsAll
<1> QED BY <1>2, <1>4

\* Rows that keep their positions keep the line.
LEMMA LineStays ==
  ASSUME Mapped, UNCHANGED Queued, \A k \in Queued : position'[k] = position[k]
  PROVE  UNCHANGED QueueOrder
<1>1. Orders(position, Queued)
  BY RowsHaveOrder DEF Mapped
<1>2. InOrder(Queued, position') = InOrder(Queued, position)
  BY <1>1, InOrderSameKeys
<1> QED BY <1>2 DEF QueueOrder

\* New positions for the same rows rearrange the line.
LEMMA LineIsRearranged ==
  ASSUME Mapped, Mapped', UNCHANGED Queued
  PROVE  Abstract!In(QueueOrder') = Abstract!In(QueueOrder) /\ Len(QueueOrder') = Len(QueueOrder)
<1>1. Orders(position, Queued) /\ Orders(position', Queued)
  BY RowsHaveOrder, RowsHaveOrderNext DEF Mapped
<1>2. /\ Len(QueueOrder) = Cardinality(Queued)
      /\ {QueueOrder[i] : i \in DOMAIN QueueOrder} = Queued
  BY <1>1, ListingIsSequence DEF QueueOrder
<1>3. /\ Len(InOrder(Queued, position')) = Cardinality(Queued)
      /\ {InOrder(Queued, position')[i] : i \in DOMAIN InOrder(Queued, position')} = Queued
  BY <1>1, ListingIsSequence
<1>4. QueueOrder' = InOrder(Queued, position')
  BY DEF QueueOrder
<1> QED BY <1>2, <1>3, <1>4 DEF Abstract!In

\* A message with the next seq is the last of the transcript.
LEMMA LogGrows ==
  ASSUME Mapped, Mapped', NEW l \in LocalId, msgSeq[l] = 0,
         seq' = seq + 1, msgSeq' = [msgSeq EXCEPT ![l] = seq + 1]
  PROVE  TranscriptOrder' = Append(TranscriptOrder, l)
<1>1. Orders(msgSeq, Messages) /\ Orders(msgSeq', Messages')
  BY MessagesHaveOrder, MessagesHaveOrderNext DEF Mapped
<1>2. \A k \in Messages : msgSeq[k] <= seq
  BY DEF Mapped, TypeOK, SeqsDense, Messages
<1>3. JoinsLast(l, Messages', msgSeq', Messages, msgSeq)
  BY <1>1, <1>2 DEF Mapped, TypeOK, Messages, JoinsLast
<1>4. IsWithLast(InOrder(Messages', msgSeq'), InOrder(Messages, msgSeq), l)
  BY <1>1, <1>3, InOrderWithLast
<1> QED BY <1>4 DEF TranscriptOrder, IsWithLast

LEMMA LogStays ==
  ASSUME UNCHANGED msgSeq
  PROVE  UNCHANGED TranscriptOrder
BY DEF TranscriptOrder, Messages

\* What is in the line and in the log.
LEMMA LineHolds ==
  ASSUME Mapped
  PROVE  QueueOrder \in Seq(Queued) /\ Abstract!In(QueueOrder) = Queued
<1>1. Orders(position, Queued)
  BY RowsHaveOrder DEF Mapped
<1>2. /\ QueueOrder \in Seq(Queued) /\ Len(QueueOrder) = Cardinality(Queued)
      /\ {QueueOrder[i] : i \in DOMAIN QueueOrder} = Queued
  BY <1>1, ListingIsSequence DEF QueueOrder
<1> QED BY <1>2 DEF Abstract!In

LEMMA LogHolds ==
  ASSUME Mapped
  PROVE  Abstract!In(TranscriptOrder) = Messages /\ Abstract!Distinct(TranscriptOrder)
<1>1. Orders(msgSeq, Messages)
  BY MessagesHaveOrder DEF Mapped
<1>2. /\ DOMAIN TranscriptOrder = 1..Cardinality(Messages)
      /\ {TranscriptOrder[i] : i \in DOMAIN TranscriptOrder} = Messages
  BY <1>1, ListingIsSequence DEF TranscriptOrder
<1>3. Lists(TranscriptOrder, Messages, msgSeq)
  BY <1>1, InOrderLists DEF TranscriptOrder
<1>4. \A i, j \in 1..Cardinality(Messages) :
        TranscriptOrder[i] = TranscriptOrder[j] => i = j
  BY <1>1, <1>3, ListsAll
<1> QED BY <1>2, <1>4 DEF Abstract!In, Abstract!Distinct

-----------------------------------------------------------------------------
\* The mapping of the steps: one lemma per operation that writes the queue or the
\* transcript.
AbstractStep == [Abstract!Next]_(Abstract!vars)

\* Where rows, their order and the transcript stay, the abstract state does.
LEMMA Stutters ==
  ASSUME Mapped, UNCHANGED <<status, msgSeq>>, \A k \in Queued : position'[k] = position[k]
  PROVE  AbstractStep
<1>1. UNCHANGED <<Queued, Aside>>
  BY DEF Queued, Aside
<1>2. UNCHANGED <<QueueOrder, TranscriptOrder>>
  BY <1>1, LineStays, LogStays
<1> QED BY <1>1, <1>2 DEF AbstractStep, Abstract!vars

LEMMA EnqueueMaps ==
  ASSUME Mapped, Mapped', Bounded, NEW l \in LocalId, NEW c \in Content,
         EnqueuePendingMessage(l, c)
  PROVE  Abstract!Add(l)
<1>1. /\ l \notin Queued /\ Queued' = Queued \cup {l} /\ l \notin Aside /\ UNCHANGED Aside
      /\ position' = [position EXCEPT ![l] = NextPosition]
  BY DEF Mapped, TypeOK, EnqueuePendingMessage, Queued, Aside
<1>2. QueueOrder' = Append(QueueOrder, l)
  BY <1>1, LineGrows
<1>3. UNCHANGED TranscriptOrder
  BY LogStays DEF EnqueuePendingMessage, transcript
<1>4. l \notin Abstract!In(QueueOrder)
  BY <1>1, LineHolds
<1> QED BY <1>1, <1>2, <1>3, <1>4 DEF Abstract!Add

LEMMA DeleteMaps ==
  ASSUME Mapped, Mapped', NEW l \in LocalId, DeletePendingMessage(l)
  PROVE  Abstract!Remove(l)
<1>1. /\ Queued' = Queued \ {l} /\ Aside' = Aside \ {l}
      /\ \A k \in Queued \ {l} : position'[k] = position[k]
      /\ (l \in Queued /\ l \notin Aside) \/ (l \in Aside /\ l \notin Queued)
  BY DEF Mapped, TypeOK, DeletePendingMessage, Queued, Aside
<1>2. UNCHANGED TranscriptOrder
  BY LogStays DEF DeletePendingMessage, transcript
<1>3. CASE l \in Queued
  <2>1. Abstract!Leave(l)
    BY <1>1, <1>3, LineShrinks DEF Abstract!Leave
  <2>2. UNCHANGED Aside
    BY <1>1, <1>3
  <2> QED BY <1>2, <2>1, <2>2 DEF Abstract!Remove
<1>4. CASE l \notin Queued
  <2>1. UNCHANGED Queued /\ \A k \in Queued : position'[k] = position[k]
    BY <1>1, <1>4
  <2>2. UNCHANGED QueueOrder
    BY <2>1, LineStays
  <2> QED BY <1>1, <1>2, <1>4, <2>2 DEF Abstract!Remove
<1> QED BY <1>3, <1>4

LEMMA DiscardMaps ==
  ASSUME Mapped, NEW l \in LocalId, DiscardPendingMessage(l)
  PROVE  Abstract!SetAside(l)
<1>1. /\ l \in Queued /\ Queued' = Queued \ {l} /\ Aside' = Aside \cup {l}
      /\ UNCHANGED position
  BY DEF Mapped, TypeOK, DiscardPendingMessage, Queued, Aside
<1>2. UNCHANGED TranscriptOrder
  BY LogStays DEF DiscardPendingMessage, transcript
<1>3. Abstract!Leave(l)
  BY <1>1, LineShrinks DEF Abstract!Leave
<1> QED BY <1>1, <1>2, <1>3 DEF Abstract!SetAside

LEMMA RestoreMaps ==
  ASSUME Mapped, Mapped', Bounded, NEW l \in LocalId, RestorePendingMessage(l)
  PROVE  Abstract!BringBack(l) \/ AbstractStep
<1>1. UNCHANGED msgSeq
  BY DEF RestorePendingMessage, transcript
<1>2. CASE status[l] = "queued"
  <2>1. UNCHANGED <<status, position>>
    BY <1>2 DEF RestorePendingMessage
  <2> QED BY <1>1, <2>1, Stutters
<1>3. CASE status[l] = "discarded"
  <2>1. /\ l \notin Queued /\ Queued' = Queued \cup {l}
        /\ l \in Aside /\ Aside' = Aside \ {l}
        /\ position' = [position EXCEPT ![l] = NextPosition]
    BY <1>3 DEF Mapped, TypeOK, RestorePendingMessage, Queued, Aside
  <2>2. QueueOrder' = Append(QueueOrder, l)
    BY <2>1, LineGrows
  <2> QED BY <1>1, <2>1, <2>2, LogStays DEF Abstract!BringBack
<1> QED BY <1>2, <1>3 DEF RestorePendingMessage

LEMMA ReorderMaps ==
  ASSUME Mapped, Mapped', ReorderStep
  PROVE  Abstract!Rearrange
<1>1. UNCHANGED <<status, msgSeq>>
  BY DEF ReorderStep, ReorderPendingMessages, transcript
<1>2. UNCHANGED <<Queued, Aside>>
  BY <1>1 DEF Queued, Aside
<1> QED BY <1>1, <1>2, LineIsRearranged, LogStays DEF Abstract!Rearrange

LEMMA CreateMaps ==
  ASSUME Mapped, Mapped', NEW l \in LocalId, NEW c \in Content, CreateSessionMessage(l, c)
  PROVE  Abstract!Send(l) \/ AbstractStep
<1>1. UNCHANGED <<status, position>>
  BY DEF CreateSessionMessage, rows
<1>2. CASE UNCHANGED msgSeq
  BY <1>1, <1>2, Stutters
<1>3. CASE msgSeq[l] = 0 /\ seq' = seq + 1 /\ msgSeq' = [msgSeq EXCEPT ![l] = seq + 1]
  <2>1. TranscriptOrder' = Append(TranscriptOrder, l)
    BY <1>3, LogGrows
  <2>2. UNCHANGED <<Queued, Aside>>
    BY <1>1 DEF Queued, Aside
  <2>3. UNCHANGED QueueOrder
    BY <1>1, <2>2, LineStays
  <2>4. l \notin Abstract!In(TranscriptOrder)
    BY <1>3, LogHolds DEF Messages
  <2> QED BY <2>1, <2>2, <2>3, <2>4 DEF Abstract!Send
<1> QED BY <1>2, <1>3 DEF CreateSessionMessage

LEMMA MaterializeMaps ==
  ASSUME Mapped, Mapped', NEW r \in Runner, NEW l \in LocalId, MaterializeHead(r, l)
  PROVE  Abstract!Deliver
<1>1. /\ l \in Queued /\ Queued' = Queued \ {l} /\ UNCHANGED Aside
      /\ \A k \in Queued \ {l} : position'[k] = position[k]
      /\ IsHead(l)
  BY DEF Mapped, TypeOK, MaterializeHead, IsHead, Queued, Aside
<1>2. QueueOrder # <<>> /\ Head(QueueOrder) = l /\ QueueOrder[1] = l
  BY <1>1, HeadIsFirst
<1>3. QueueOrder' = Tail(QueueOrder)
  <2>1. PICK i \in DOMAIN QueueOrder : QueueOrder[i] = l /\ QueueOrder' = Abstract!Without(i)
    BY <1>1, LineShrinks
  <2>2. i = 1
    BY <1>1, <1>2, <2>1, RowInOnePlace
  <2>3. QueueOrder' = [j \in 1..(Len(QueueOrder) - 1) |-> QueueOrder[j + 1]]
    BY <2>1, <2>2 DEF Abstract!Without
  <2>4. QueueOrder \in Seq(Queued)
    BY LineHolds
  <2> QED BY <1>2, <2>3, <2>4, TailForm
<1>4. TranscriptOrder' = Abstract!Once(TranscriptOrder, l)
  <2>1. CASE msgSeq[l] = 0 /\ seq' = seq + 1 /\ msgSeq' = [msgSeq EXCEPT ![l] = seq + 1]
    <3>1. l \notin Abstract!In(TranscriptOrder)
      BY <2>1, LogHolds DEF Messages
    <3>2. TranscriptOrder' = Append(TranscriptOrder, l)
      BY <2>1, LogGrows
    <3> QED BY <3>1, <3>2 DEF Abstract!Once
  <2>2. CASE msgSeq[l] # 0 /\ UNCHANGED msgSeq
    <3>1. l \in Abstract!In(TranscriptOrder)
      BY <2>2, LogHolds DEF Messages
    <3>2. UNCHANGED TranscriptOrder
      BY <2>2, LogStays
    <3> QED BY <3>1, <3>2 DEF Abstract!Once
  <2> QED BY <2>1, <2>2 DEF MaterializeHead, CreateFromPending, transcript
<1> QED BY <1>1, <1>2, <1>3, <1>4 DEF Abstract!Deliver

LEMMA RunnerMaps ==
  ASSUME Mapped, Mapped', NEW r \in Runner, RunnerStep(r)
  PROVE  Abstract!Deliver \/ AbstractStep
<1>1. CASE \E l \in LocalId : MaterializeHead(r, l)
  BY <1>1, MaterializeMaps
<1>2. CASE ~ \E l \in LocalId : MaterializeHead(r, l)
  <2>1. UNCHANGED <<status, position, msgSeq>>
    BY <1>2 DEF RunnerStep, Materialize, CallOnSocket, ConsultCache, CallOnHttp, ReadSession,
         ProbeQueue, MaterializeNothing, MaterializeFails, rows, transcript
  <2> QED BY <2>1, Stutters
<1> QED BY <1>1, <1>2

\* Every step of the service is a step of the line of prompts, or none.
LEMMA StepMaps ==
  ASSUME Mapped, Mapped', Bounded, [Next]_vars
  PROVE  AbstractStep
<1>1. ASSUME NEW l \in LocalId, NEW c \in Content, EnqueuePendingMessage(l, c)
      PROVE  AbstractStep
  BY <1>1, EnqueueMaps DEF AbstractStep, Abstract!Next
<1>2. ASSUME NEW l \in LocalId, NEW c \in Content, UpdatePendingMessage(l, c)
      PROVE  AbstractStep
  BY <1>2, Stutters DEF UpdatePendingMessage, transcript
<1>3. ASSUME NEW l \in LocalId, NEW c \in Content, CreateSessionMessage(l, c)
      PROVE  AbstractStep
  <2>1. Abstract!Send(l) \/ AbstractStep
    BY <1>3, CreateMaps
  <2> QED BY <2>1 DEF AbstractStep, Abstract!Next
<1>4. ASSUME NEW l \in LocalId, DeletePendingMessage(l)
      PROVE  AbstractStep
  BY <1>4, DeleteMaps DEF AbstractStep, Abstract!Next
<1>5. ASSUME NEW l \in LocalId, DiscardPendingMessage(l)
      PROVE  AbstractStep
  BY <1>5, DiscardMaps DEF AbstractStep, Abstract!Next
<1>6. ASSUME NEW l \in LocalId, RestorePendingMessage(l)
      PROVE  AbstractStep
  <2>1. Abstract!BringBack(l) \/ AbstractStep
    BY <1>6, RestoreMaps
  <2> QED BY <2>1 DEF AbstractStep, Abstract!Next
<1>7. CASE ReorderStep
  BY <1>7, ReorderMaps DEF AbstractStep, Abstract!Next
<1>8. ASSUME NEW r \in Runner, RunnerStep(r)
      PROVE  AbstractStep
  <2>1. Abstract!Deliver \/ AbstractStep
    BY <1>8, RunnerMaps
  <2> QED BY <2>1 DEF AbstractStep, Abstract!Next
<1>9. CASE ExpireNoop \/ Redeploy \/ UNCHANGED vars
  <2>1. UNCHANGED <<status, position, msgSeq>>
    BY <1>9 DEF ExpireNoop, Redeploy, vars, rows, transcript
  <2> QED BY <2>1, Stutters
<1> QED BY <1>1, <1>2, <1>3, <1>4, <1>5, <1>6, <1>7, <1>8, <1>9 DEF Next, UserStep

\* Whatever rows a session starts with are a line of distinct prompts.
LEMMA StartMaps ==
  ASSUME Mapped
  PROVE  Abstract!Init
<1>1. Queued \cap Aside = {}
  BY DEF Queued, Aside
<1>2. Abstract!In(QueueOrder) \cap Aside = {}
  BY <1>1, LineHolds
<1>3. Abstract!Distinct(QueueOrder)
  BY RowInOnePlace DEF Abstract!Distinct
<1>4. Abstract!Distinct(TranscriptOrder)
  BY LogHolds
<1> QED BY <1>2, <1>3, <1>4 DEF Abstract!Init

\* What both specifications keep and the mapping of a step needs.
MappedInv == DriftInv /\ SeqsDense

LEMMA MappedStart ==
  ASSUME Init \/ InitDrifted
  PROVE  MappedInv
<1>1. SeqsDense
  BY DEF Init, InitDrifted, NewSession, SeqsDense
<1>2. CASE InitDrifted
  BY <1>1, <1>2, DriftStart DEF MappedInv
<1>3. CASE Init
  <2>1. QueueInv
    BY <1>3, QueueInit
  <2>2. pendingQueueSeq \in Nat /\ \A l \in Queued : position[l] <= pendingQueueSeq
    BY <2>1 DEF QueueInv, TypeOK, Reserved
  <2> QED BY <1>1, <2>1, <2>2 DEF QueueInv, MappedInv, DriftInv, Bounded
<1> QED BY <1>2, <1>3

LEMMA MappedNext ==
  ASSUME MappedInv, [Next]_vars
  PROVE  MappedInv' /\ AbstractStep
<1>1. DriftInv' /\ SeqsDense'
  BY DriftNext, SeqsNext DEF MappedInv, DriftInv
<1>2. Mapped /\ Mapped' /\ Bounded
  BY <1>1 DEF MappedInv, DriftInv, Mapped
<1> QED BY <1>1, <1>2, StepMaps DEF MappedInv

LEMMA MappedInvMaps == MappedInv => Abstract!Init
BY StartMaps DEF MappedInv, DriftInv, Mapped

\* The service implements the line of prompts: each of its transactions, and each
\* step of a runner's materialize call, adds, removes, sets aside, brings back,
\* rearranges, sends or delivers one prompt, or changes nothing users can tell.
THEOREM QueueIsALine == Spec => ImplementsPromptQueue
<1>1. Init => MappedInv
  BY MappedStart
<1>2. MappedInv /\ [Next]_vars => MappedInv' /\ [Abstract!Next]_(Abstract!vars)
  BY MappedNext DEF AbstractStep
<1> QED BY <1>1, <1>2, MappedInvMaps, PTL DEF Spec, ImplementsPromptQueue, Abstract!Spec

\* So it does from a session whose count and whose pendingQueueSeq are wrong:
\* the line depends on the rows only.
THEOREM DriftedQueueIsALine == DriftedSpec => ImplementsPromptQueue
<1>1. InitDrifted => MappedInv
  BY MappedStart
<1>2. MappedInv /\ [Next]_vars => MappedInv' /\ [Abstract!Next]_(Abstract!vars)
  BY MappedNext DEF AbstractStep
<1> QED BY <1>1, <1>2, MappedInvMaps, PTL DEF DriftedSpec, ImplementsPromptQueue, Abstract!Spec
=============================================================================
