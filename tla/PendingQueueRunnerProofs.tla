----------------------- MODULE PendingQueueRunnerProofs -----------------------
(***************************************************************************)
(* Theorems about PendingQueueRunner, for any number of prompts, accounts, *)
(* runners and senders, and for sessions with any count to begin with: the *)
(* count need not be right for what is known of it to be true.             *)
(***************************************************************************)
EXTENDS PendingQueueRunner, SessionPendingQueueProofs

Typed ==
  /\ pendingCount \in Nat /\ pendingVersion \in Nat
  /\ noopCache \in Answer \cup {None}
  /\ call \in [Runner -> Calls] /\ reply \in [Runner -> Answer \cup {None}]

\* What the counters were at that version.
Correct(c) ==
  c.version <= pendingVersion /\ (c.version = pendingVersion => c.count = pendingCount)

\* All that the server keeps or has under way.
ServerSays ==
  /\ noopCache # None => Correct(noopCache)
  /\ \A r \in Runner : /\ reply[r] # None => Correct(reply[r])
                       /\ call[r].pc \in {"consult", "probe"} => Correct(OnTheWay(r))

\* The count never changes without the version.
Counted ==
  \/ UNCHANGED <<pendingCount, pendingVersion>>
  \/ pendingVersion' = pendingVersion + 1 /\ pendingCount' \in Nat

LEMMA CorrectLasts ==
  ASSUME Typed, Counted, NEW c \in Answer, Correct(c)
  PROVE  c.version <= pendingVersion' /\ (c.version = pendingVersion' => c.count = pendingCount')
BY DEF Typed, Counted, Correct, Answer

LEMMA ApplyCounts ==
  ASSUME Typed, NEW d \in {-1, 0, 1}, ApplyPendingStateChange(d)
  PROVE  Counted /\ pendingCount' \in Nat /\ pendingVersion' \in Nat
BY DEF Typed, Counted, ApplyPendingStateChange

-------------------------------------------------------------------------------
(* The server *)

\* A step keeps what the server says if all that it replaces is correct after it.
LEMMA SaysStay ==
  ASSUME Typed, ServerSays, Counted,
         noopCache' = noopCache \/ (noopCache' \in Answer \cup {None} /\ (noopCache' # None => Correct(noopCache)')),
         call' \in [Runner -> Calls], reply' \in [Runner -> Answer \cup {None}],
         \A r \in Runner : reply'[r] = reply[r] \/ (reply'[r] # None => Correct(reply[r])'),
         \A r \in Runner : \/ call'[r] = call[r]
                           \/ call'[r].pc \in {"consult", "probe"} => Correct(OnTheWay(r))'
  PROVE  Typed' /\ ServerSays'
<1>1. Typed'
  BY DEF Typed, Counted
<1>2. noopCache' # None => Correct(noopCache)'
  <2>1. CASE noopCache' = noopCache
    <3> SUFFICES ASSUME noopCache # None
                 PROVE  noopCache.version <= pendingVersion' /\ (noopCache.version = pendingVersion' => noopCache.count = pendingCount')
      BY <2>1 DEF Correct
    <3>1. noopCache \in Answer /\ Correct(noopCache)
      BY DEF Typed, ServerSays
    <3> QED BY <3>1, CorrectLasts
  <2> QED BY <2>1
<1>3. ASSUME NEW r \in Runner, reply'[r] # None PROVE Correct(reply[r])'
  <2>1. CASE reply'[r] = reply[r]
    <3>1. reply[r] \in Answer /\ Correct(reply[r])
      BY <1>3, <2>1 DEF Typed, ServerSays
    <3> QED BY <2>1, <3>1, CorrectLasts DEF Correct
  <2> QED BY <1>3, <2>1
<1>4. ASSUME NEW r \in Runner, call'[r].pc \in {"consult", "probe"} PROVE Correct(OnTheWay(r))'
  <2>1. CASE call'[r] = call[r]
    <3>1. OnTheWay(r) \in Answer
      BY DEF Typed, OnTheWay, Calls, Answer
    <3>2. Correct(OnTheWay(r))
      BY <1>4, <2>1 DEF ServerSays
    <3>3. /\ OnTheWay(r).version <= pendingVersion'
          /\ OnTheWay(r).version = pendingVersion' => OnTheWay(r).count = pendingCount'
      BY <3>1, <3>2, CorrectLasts
    <3> QED BY <2>1, <3>3 DEF Correct, OnTheWay
  <2> QED BY <1>4, <2>1
<1> QED BY <1>1, <1>2, <1>3, <1>4 DEF ServerSays

LEMMA UsersCount ==
  ASSUME Typed, UserStep \/ ReorderStep
  PROVE  Counted /\ UNCHANGED runners
<1>1. ASSUME NEW l \in LocalId, NEW c \in Content,
             EnqueuePendingMessage(l, c) \/ UpdatePendingMessage(l, c) \/ CreateSessionMessage(l, c)
      PROVE  Counted /\ UNCHANGED runners
  <2>1. CASE EnqueuePendingMessage(l, c)
    BY <2>1, ApplyCounts DEF EnqueuePendingMessage
  <2>2. CASE UpdatePendingMessage(l, c)
    BY <2>2, ApplyCounts DEF UpdatePendingMessage
  <2>3. CASE CreateSessionMessage(l, c)
    BY <2>3 DEF CreateSessionMessage, Counted, session
  <2> QED BY <1>1, <2>1, <2>2, <2>3
<1>2. ASSUME NEW l \in LocalId,
             DeletePendingMessage(l) \/ DiscardPendingMessage(l) \/ RestorePendingMessage(l)
      PROVE  Counted /\ UNCHANGED runners
  <2>1. CASE DeletePendingMessage(l)
    <3>1. ApplyPendingStateChange(-1) \/ ApplyPendingStateChange(0)
      BY <2>1 DEF DeletePendingMessage
    <3> QED BY <2>1, <3>1, ApplyCounts DEF DeletePendingMessage
  <2>2. CASE DiscardPendingMessage(l)
    BY <2>2, ApplyCounts DEF DiscardPendingMessage
  <2>3. CASE RestorePendingMessage(l)
    BY <2>3, ApplyCounts DEF RestorePendingMessage
  <2> QED BY <1>2, <2>1, <2>2, <2>3
<1>3. CASE ReorderStep
  BY <1>3, ApplyCounts DEF ReorderStep, ReorderPendingMessages
<1> QED BY <1>1, <1>2, <1>3 DEF UserStep

\* The answer "nothing pending" is correct if its counters are.
LEMMA NoopSays ==
  ASSUME Typed, ServerSays, Counted, NEW r \in Runner, NEW n \in Nat, NEW v \in Nat, ReplyNoop(r, n, v),
         v <= pendingVersion', v = pendingVersion' => n = pendingCount'
  PROVE  Typed' /\ ServerSays'
<1>1. PICK a : a = [count |-> n, version |-> v]
  OBVIOUS
<1>2. a \in Answer /\ a.count = n /\ a.version = v /\ Idle \in Calls
  BY <1>1 DEF Answer, Idle, Call, Calls
<1>3. /\ noopCache' = noopCache \/ noopCache' = a
      /\ reply' = [reply EXCEPT ![r] = a] /\ call' = [call EXCEPT ![r] = Idle]
  BY <1>1 DEF ReplyNoop
<1>4. /\ call' \in [Runner -> Calls] /\ reply' \in [Runner -> Answer \cup {None}]
      /\ \A q \in Runner : reply'[q] = reply[q] \/ reply'[q] = a
      /\ \A q \in Runner : call'[q] = call[q] \/ call'[q] = Idle
  BY <1>2, <1>3 DEF Typed
<1>5. noopCache' = noopCache \/ (noopCache' \in Answer \cup {None} /\ (noopCache' # None => Correct(noopCache)'))
  BY <1>2, <1>3 DEF Correct
<1>6. \A q \in Runner : reply'[q] = reply[q] \/ (reply'[q] # None => Correct(reply[q])')
  BY <1>2, <1>4 DEF Correct
<1>7. \A q \in Runner : call'[q] = call[q] \/ (call'[q].pc \in {"consult", "probe"} => Correct(OnTheWay(q))')
  BY <1>4 DEF Idle, Call
<1> QED BY <1>4, <1>5, <1>6, <1>7, SaysStay

\* The call of one runner goes on; a reply, if there is one, is correct.
LEMMA CallSays ==
  ASSUME Typed, ServerSays, Counted, NEW r \in Runner, NEW k \in Calls, call' = [call EXCEPT ![r] = k],
         noopCache' \in {noopCache, None},
         \/ reply' = reply
         \/ \E a \in Answer \cup {None} : reply' = [reply EXCEPT ![r] = a] /\ (a # None => Correct(reply[r])'),
         k.pc \in {"consult", "probe"} => Correct([count |-> k.count, version |-> k.version])'
  PROVE  Typed' /\ ServerSays'
<1>1. /\ call' \in [Runner -> Calls] /\ call'[r] = k
      /\ \A q \in Runner : q # r => call'[q] = call[q]
  BY DEF Typed
<1>2. /\ reply' \in [Runner -> Answer \cup {None}]
      /\ \A q \in Runner : reply'[q] = reply[q] \/ (reply'[q] # None => Correct(reply[q])')
  BY DEF Typed
<1>3. \A q \in Runner : call'[q] = call[q] \/ (call'[q].pc \in {"consult", "probe"} => Correct(OnTheWay(q))')
  BY <1>1 DEF Correct, OnTheWay
<1> QED BY <1>1, <1>2, <1>3, SaysStay

LEMMA CallStepSays ==
  ASSUME Typed, ServerSays, NEW r \in Runner, RunnerStep(r)
  PROVE  Counted /\ Typed' /\ ServerSays'
<1>0. /\ pendingVersion \in Nat /\ pendingCount \in Nat /\ Idle \in Calls
      /\ call[r] \in Calls /\ call[r].count \in Nat /\ call[r].version \in Nat /\ call[r].socket \in BOOLEAN
      /\ Idle.pc = "idle"
  BY DEF Typed, Calls, Idle, Call
<1>1. CASE CallOnSocket(r)
  <2>1. Counted /\ reply' = reply /\ UNCHANGED session
    BY <1>1 DEF CallOnSocket, Counted, session
  <2>2. CASE /\ noopCache # None /\ UNCHANGED noopCache
             /\ call' = [call EXCEPT ![r] = Call("consult", TRUE, noopCache.count, noopCache.version)]
    <3>1. noopCache \in Answer /\ Correct(noopCache)
      BY <2>2 DEF Typed, ServerSays
    <3>2. PICK k : k = Call("consult", TRUE, noopCache.count, noopCache.version)
      OBVIOUS
    <3>3. k \in Calls /\ k.count = noopCache.count /\ k.version = noopCache.version
      BY <3>1, <3>2 DEF Call, Calls, Answer
    <3>4. Correct([count |-> k.count, version |-> k.version])'
      BY <3>1, <3>3, <2>1 DEF Correct, session
    <3> QED BY <2>1, <2>2, <3>2, <3>3, <3>4, CallSays
  <2>3. CASE noopCache' = None /\ call' = [call EXCEPT ![r] = Call("start", TRUE, 0, 0)]
    <3>1. PICK k : k = Call("start", TRUE, 0, 0)
      OBVIOUS
    <3>2. k \in Calls /\ k.pc = "start"
      BY <3>1 DEF Call, Calls
    <3> QED BY <2>1, <2>3, <3>1, <3>2, CallSays
  <2> QED BY <1>1, <2>1, <2>2, <2>3 DEF CallOnSocket
<1>2. CASE ConsultCache(r)
  <2>1. Counted /\ UNCHANGED session
    BY <1>2 DEF ConsultCache, Counted, session
  <2>2. CASE /\ reply' = [reply EXCEPT ![r] = [count |-> call[r].count, version |-> call[r].version]]
             /\ call' = [call EXCEPT ![r] = Idle] /\ UNCHANGED noopCache
    <3>1. PICK a : a = OnTheWay(r)
      OBVIOUS
    <3>2. a \in Answer /\ Correct(a)
      BY <1>0, <1>2, <3>1 DEF ServerSays, ConsultCache, OnTheWay, Answer
    <3>3. reply' = [reply EXCEPT ![r] = a] /\ reply'[r] = a
      BY <2>2, <3>1 DEF OnTheWay, Typed
    <3>4. Correct(reply[r])'
      BY <2>1, <3>2, <3>3 DEF Correct, session
    <3> QED BY <1>0, <2>1, <2>2, <3>2, <3>3, <3>4, CallSays
  <2>3. CASE GoTo(r, "start") /\ noopCache' = None /\ UNCHANGED reply
    <3>1. PICK k : k = Call("start", call[r].socket, call[r].count, call[r].version)
      OBVIOUS
    <3>2. k \in Calls /\ k.pc = "start" /\ call' = [call EXCEPT ![r] = k]
      BY <1>0, <2>3, <3>1 DEF Call, Calls, GoTo
    <3> QED BY <2>1, <2>3, <3>2, CallSays
  <2> QED BY <1>2, <2>1, <2>2, <2>3 DEF ConsultCache
<1>3. CASE CallOnHttp(r)
  <2>1. PICK k : k = Call("start", FALSE, 0, 0)
    OBVIOUS
  <2>2. k \in Calls /\ k.pc = "start"
    BY <2>1 DEF Call, Calls
  <2>3. Counted
    BY <1>3 DEF CallOnHttp, Counted, session
  <2> QED BY <1>3, <2>1, <2>2, <2>3, CallSays DEF CallOnHttp
<1>4. CASE ReadSession(r)
  <2>1. PICK k : k = Call(IF pendingCount = 0 THEN "probe" ELSE "ready", call[r].socket, pendingCount, pendingVersion)
    OBVIOUS
  <2>2. k \in Calls /\ k.count = pendingCount /\ k.version = pendingVersion
    BY <1>0, <2>1 DEF Call, Calls
  <2>3. Counted /\ UNCHANGED <<pendingCount, pendingVersion>>
    BY <1>4 DEF ReadSession, Counted, session
  <2>4. Correct([count |-> k.count, version |-> k.version])'
    BY <1>0, <2>2, <2>3 DEF Correct
  <2> QED BY <1>4, <2>1, <2>2, <2>3, <2>4, CallSays DEF ReadSession
<1>5. CASE ProbeQueue(r)
  <2>1. Counted /\ UNCHANGED <<pendingCount, pendingVersion>>
    BY <1>5 DEF ProbeQueue, Counted, session
  <2>2. CASE GoTo(r, "ready") /\ UNCHANGED <<noopCache, reply>>
    <3>1. PICK k : k = Call("ready", call[r].socket, call[r].count, call[r].version)
      OBVIOUS
    <3>2. k \in Calls /\ k.pc = "ready" /\ call' = [call EXCEPT ![r] = k]
      BY <1>0, <2>2, <3>1 DEF Call, Calls, GoTo
    <3> QED BY <2>1, <2>2, <3>2, CallSays
  <2>3. CASE ReplyNoop(r, call[r].count, call[r].version)
    <3>1. Correct(OnTheWay(r))
      BY <1>5 DEF ProbeQueue, ServerSays
    <3>2. call[r].version <= pendingVersion' /\ (call[r].version = pendingVersion' => call[r].count = pendingCount')
      BY <2>1, <3>1 DEF Correct, OnTheWay
    <3> QED BY <1>0, <2>1, <2>3, <3>2, NoopSays
  <2> QED BY <1>5, <2>1, <2>2, <2>3 DEF ProbeQueue
<1>6. CASE MaterializeNothing(r)
  <2>1. /\ pendingCount' = 0 /\ pendingVersion' = pendingVersion + (IF pendingCount > 0 THEN 1 ELSE 0)
        /\ ReplyNoop(r, pendingCount', pendingVersion')
    BY <1>6 DEF MaterializeNothing
  <2>2. Counted /\ pendingCount' \in Nat /\ pendingVersion' \in Nat
    BY <1>0, <2>1 DEF Counted
  <2>3. PICK n \in Nat, v \in Nat : n = pendingCount' /\ v = pendingVersion'
    BY <2>2
  <2>4. ReplyNoop(r, n, v) /\ v <= pendingVersion' /\ n = pendingCount'
    BY <2>1, <2>3
  <2> QED BY <2>2, <2>4, NoopSays
<1>7. ASSUME NEW l \in LocalId, MaterializeHead(r, l) PROVE Counted /\ Typed' /\ ServerSays'
  <2>1. /\ pendingCount' = IF pendingCount > 0 THEN pendingCount - 1 ELSE 0
        /\ pendingVersion' = pendingVersion + 1
        /\ call' = [call EXCEPT ![r] = Idle] /\ reply' = [reply EXCEPT ![r] = None]
        /\ noopCache' \in {noopCache, None}
    BY <1>7 DEF MaterializeHead
  <2>2. Counted
    BY <1>0, <2>1 DEF Counted
  <2> QED BY <1>0, <2>1, <2>2, CallSays
<1>8. CASE MaterializeFails(r)
  <2>1. Counted
    BY <1>8 DEF MaterializeFails, Counted, session
  <2> QED BY <1>0, <1>8, <2>1, CallSays DEF MaterializeFails
<1> QED BY <1>1, <1>2, <1>3, <1>4, <1>5, <1>6, <1>7, <1>8 DEF RunnerStep, Materialize

LEMMA QueueSays ==
  ASSUME Typed, ServerSays, [Next]_vars
  PROVE  Counted /\ Typed' /\ ServerSays'
<1>1. CASE UserStep \/ ReorderStep
  BY <1>1, UsersCount, SaysStay DEF runners, Typed
<1>2. CASE \E r \in Runner : RunnerStep(r)
  BY <1>2, CallStepSays
<1>3. CASE ExpireNoop
  <2>1. Counted
    BY <1>3 DEF ExpireNoop, Counted, session
  <2> QED BY <1>3, <2>1, SaysStay DEF ExpireNoop, Typed
<1>4. CASE Redeploy
  <2>1. Counted
    BY <1>4 DEF Redeploy, Counted, session
  <2>2. Idle \in Calls /\ Idle.pc = "idle"
    BY DEF Idle, Call, Calls
  <2>3. /\ call' \in [Runner -> Calls] /\ noopCache' = None /\ reply' = reply
        /\ \A r \in Runner : call'[r] = Idle
    BY <1>4, <2>2 DEF Redeploy
  <2> QED BY <2>1, <2>2, <2>3, SaysStay DEF Typed
<1>5. CASE UNCHANGED vars
  <2>1. Counted /\ UNCHANGED runners
    BY <1>5 DEF vars, Counted, session
  <2> QED BY <2>1, SaysStay DEF runners, Typed
<1> QED BY <1>1, <1>2, <1>3, <1>4, <1>5 DEF Next

-------------------------------------------------------------------------------
(* The runners *)

\* Counters that are correct now, in one word for all who hear of them.
RunnerInv == Typed /\ ServerSays /\ RunnerTypeOK /\ ViewIsTrue
             /\ (\A c \in published : Correct(c))
             /\ (\A r \in Runner : answer[r] # None => Correct(answer[r].counters))

LEMMA NoneIsNoAnswer == None \notin Answer
BY NoneIsFresh DEF Answer

\* A step keeps what is known if all that it replaces is correct after it.
LEMMA KnownStays ==
  ASSUME RunnerInv, Counted, Typed', ServerSays',
         turn' \in [Runner -> BOOLEAN],
         known' \in [Runner -> Answer \cup {None}],
         answer' \in [Runner -> [prompt : BOOLEAN, counters : Answer] \cup {None}],
         \A r \in Runner : known'[r] = known[r] \/ (known'[r] # None => Correct(known[r])'),
         \A r \in Runner : answer'[r] = answer[r] \/ (answer'[r] # None => Correct(answer[r].counters)'),
         \A c \in published' : c \in published \/ (c \in Answer /\ c = Counters')
  PROVE  RunnerInv'
<1>1. RunnerTypeOK'
  BY DEF RunnerInv, RunnerTypeOK
<1>2. \A c \in Answer : Correct(c) =>
        c.version <= pendingVersion' /\ (c.version = pendingVersion' => c.count = pendingCount')
  BY CorrectLasts DEF RunnerInv
<1>3. ASSUME NEW r \in Runner, known'[r] # None PROVE Correct(known[r])'
  <2>1. CASE known'[r] = known[r]
    <3>1. known[r] \in Answer /\ Correct(known[r])
      BY <1>3, <2>1 DEF RunnerInv, RunnerTypeOK, ViewIsTrue, Correct
    <3> QED BY <1>2, <2>1, <3>1 DEF Correct
  <2> QED BY <1>3, <2>1
<1>4. ASSUME NEW r \in Runner, answer'[r] # None PROVE Correct(answer[r].counters)'
  <2>1. CASE answer'[r] = answer[r]
    <3>1. answer[r].counters \in Answer /\ Correct(answer[r].counters)
      BY <1>4, <2>1 DEF RunnerInv, RunnerTypeOK
    <3> QED BY <1>2, <2>1, <3>1 DEF Correct
  <2> QED BY <1>4, <2>1
<1>5. ASSUME NEW c \in published' PROVE Correct(c)'
  <2>1. CASE c \in published
    <3>1. c \in Answer /\ Correct(c)
      BY <2>1 DEF RunnerInv, RunnerTypeOK
    <3> QED BY <1>2, <3>1 DEF Correct
  <2>2. CASE c = Counters'
    <3>1. pendingVersion' \in Nat
      BY DEF Typed
    <3> QED BY <2>2, <3>1 DEF Correct, Counters
  <2> QED BY <1>5, <2>1, <2>2
<1>6. ViewIsTrue'
  BY <1>3 DEF ViewIsTrue, Correct
<1> QED BY <1>1, <1>4, <1>5, <1>6 DEF RunnerInv

\* What a runner learns is one of two views that are correct.
LEMMA Learns ==
  ASSUME RunnerInv, UNCHANGED vars, NEW r \in Runner, NEW c \in Answer, Correct(c), Learn(r, c),
         turn' \in [Runner -> BOOLEAN],
         \A q \in Runner : answer'[q] \in {answer[q], None},
         answer' \in [Runner -> [prompt : BOOLEAN, counters : Answer] \cup {None}],
         UNCHANGED published
  PROVE  RunnerInv'
<1>1. Counted /\ Typed' /\ ServerSays'
  BY QueueSays DEF RunnerInv
<1>2. UNCHANGED <<pendingCount, pendingVersion>>
  BY DEF vars, session
<1>3. /\ known' \in [Runner -> Answer \cup {None}]
      /\ \A q \in Runner : known'[q] = known[q] \/ known'[q] = c
  BY DEF RunnerInv, RunnerTypeOK, Learn, Apply
<1>4. \A q \in Runner : known'[q] = known[q] \/ (known'[q] # None => Correct(known[q])')
  BY <1>2, <1>3 DEF Correct
<1> QED BY <1>1, <1>3, <1>4, KnownStays

\* The counters of a transaction are sent to all.
LEMMA Publishes ==
  ASSUME Typed', RunnerTypeOK, Publish
  PROVE  \A c \in published' : c \in published \/ (c \in Answer /\ c = Counters')
BY DEF Typed, Publish, Counters, Answer

LEMMA RunnerStart ==
  ASSUME Init \/ InitDrifted, RunnerInit
  PROVE  RunnerInv
<1>1. NewSession /\ pendingCount \in Nat
  <2>1. CASE Init
    BY <2>1 DEF Init
  <2>2. CASE InitDrifted
    BY <2>2 DEF InitDrifted
  <2> QED BY <2>1, <2>2
<1>2. Idle \in Calls /\ Idle.pc = "idle"
  BY DEF Idle, Call, Calls
<1>3. Typed /\ ServerSays
  BY <1>1, <1>2 DEF NewSession, Typed, ServerSays
<1> QED BY <1>3 DEF RunnerInit, RunnerInv, RunnerTypeOK, ViewIsTrue

LEMMA RunnerStepKeeps ==
  ASSUME RunnerInv, [RunnerNext]_allVars
  PROVE  RunnerInv'
<1>0. /\ Typed /\ ServerSays /\ RunnerTypeOK
      /\ known \in [Runner -> Answer \cup {None}] /\ turn \in [Runner -> BOOLEAN]
      /\ answer \in [Runner -> [prompt : BOOLEAN, counters : Answer] \cup {None}]
      /\ published \subseteq Answer
  BY DEF RunnerInv, RunnerTypeOK
<1>a. pendingVersion \in Nat /\ Counters \in Answer /\ Correct(Counters)
  BY <1>0 DEF Typed, Counters, Answer, Correct
\* Steps of the server that no runner hears of.
<1>1. ASSUME [Next]_vars, UNCHANGED <<known, turn>>,
             UNCHANGED published \/ Publish,
             answer' \in [Runner -> [prompt : BOOLEAN, counters : Answer] \cup {None}],
             \A r \in Runner : answer'[r] \in {answer[r], None} \/ (answer'[r] # None => Correct(answer[r].counters)')
      PROVE  RunnerInv'
  <2>1. Counted /\ Typed' /\ ServerSays'
    BY <1>0, <1>1, QueueSays
  <2>2. \A c \in published' : c \in published \/ (c \in Answer /\ c = Counters')
    BY <1>0, <1>1, <2>1, Publishes
  <2> QED BY <1>0, <1>1, <2>1, <2>2, KnownStays
<1>2. CASE UserChanges
  <2>1. Next /\ Publish /\ UNCHANGED <<known, answer>>
    BY <1>2 DEF UserChanges, Next
  <2>2. turn' \in [Runner -> BOOLEAN]
    BY <1>0, <1>2 DEF UserChanges
  <2>3. Counted /\ Typed' /\ ServerSays'
    BY <1>0, <2>1, QueueSays
  <2>4. \A c \in published' : c \in published \/ (c \in Answer /\ c = Counters')
    BY <1>0, <2>1, <2>3, Publishes
  <2> QED BY <1>0, <2>1, <2>2, <2>3, <2>4, KnownStays
<1>3. ASSUME NEW r \in Runner, ReceiveBroadcast(r) PROVE RunnerInv'
  <2>1. PICK c \in published : Learn(r, c)
    BY <1>3 DEF ReceiveBroadcast
  <2>2. c \in Answer /\ Correct(c)
    BY <1>0 DEF RunnerInv
  <2> QED BY <1>0, <1>3, <2>1, <2>2, Learns DEF ReceiveBroadcast
<1>4. ASSUME NEW r \in Runner, Reconcile(r) PROVE RunnerInv'
  <2>1. PICK c \in Answer : c = Counters
    BY <1>a
  <2>2. Learn(r, c) /\ Correct(c)
    BY <1>4, <1>a, <2>1 DEF Reconcile
  <2> QED BY <1>0, <1>4, <2>2, Learns DEF Reconcile
<1>5. ASSUME NEW r \in Runner, Ask(r) \/ Nudge(r) PROVE RunnerInv'
  <2>1. Next /\ UNCHANGED <<known, turn, answer, published>>
    BY <1>5 DEF Ask, Nudge, Next, RunnerStep, view
  <2> QED BY <1>0, <2>1, <1>1
<1>6. ASSUME NEW r \in Runner, ReceiveAnswer(r) PROVE RunnerInv'
  <2>1. PICK c \in Answer : c = answer[r].counters
    BY <1>0, <1>6 DEF ReceiveAnswer
  <2>2. Learn(r, c) /\ Correct(c)
    BY <1>6, <2>1 DEF ReceiveAnswer, RunnerInv
  <2>3. answer[r].prompt \in BOOLEAN /\ turn[r] \in BOOLEAN
    BY <1>0, <1>6 DEF ReceiveAnswer
  <2>4. turn' \in [Runner -> BOOLEAN]
    <3>1. (turn[r] \/ answer[r].prompt) \in BOOLEAN
      BY <2>3
    <3>2. turn' = [turn EXCEPT ![r] = turn[r] \/ answer[r].prompt]
      BY <1>6 DEF ReceiveAnswer
    <3> QED BY <1>0, <3>1, <3>2
  <2>5. /\ \A q \in Runner : answer'[q] \in {answer[q], None}
        /\ answer' \in [Runner -> [prompt : BOOLEAN, counters : Answer] \cup {None}]
    BY <1>0, <1>6 DEF ReceiveAnswer
  <2>6. UNCHANGED vars /\ UNCHANGED published
    BY <1>6 DEF ReceiveAnswer
  <2> QED BY <2>2, <2>4, <2>5, <2>6, Learns
<1>7. ASSUME NEW r \in Runner, EndTurn(r) PROVE RunnerInv'
  <2>1. turn' \in [Runner -> BOOLEAN] /\ UNCHANGED vars /\ UNCHANGED <<known, answer, published>>
    BY <1>0, <1>7 DEF EndTurn
  <2>2. Counted /\ Typed' /\ ServerSays'
    BY <1>0, <2>1, QueueSays
  <2> QED BY <1>0, <2>1, <2>2, KnownStays
<1>8. ASSUME NEW r \in Runner, Serve(r) PROVE RunnerInv'
  <2>1. Next /\ Publish /\ UNCHANGED <<known, turn>>
    BY <1>8 DEF Serve, Next, RunnerStep
  <2>2. Typed' /\ ServerSays'
    BY <1>0, <2>1, QueueSays
  <2>3. CASE call'[r] # Idle
    <3>1. answer' = answer
      BY <1>8, <2>3 DEF Serve
    <3> QED BY <1>0, <2>1, <3>1, <1>1
  <2>4. CASE call'[r] = Idle
    <3>1. PICK c : c = IF reply'[r] # None THEN reply'[r] ELSE Counters'
      OBVIOUS
    <3>2. PICK p \in BOOLEAN : p = (Queued' # Queued)
      OBVIOUS
    <3>3. answer' = [answer EXCEPT ![r] = [prompt |-> p, counters |-> c]]
      BY <1>8, <2>4, <3>1, <3>2 DEF Serve
    <3>4. c \in Answer /\ (c.version <= pendingVersion' /\ (c.version = pendingVersion' => c.count = pendingCount'))
      <4>1. CASE reply'[r] # None
        BY <2>2, <3>1, <4>1 DEF Typed, ServerSays, Correct
      <4>2. CASE reply'[r] = None
        BY <2>2, <3>1, <4>2 DEF Typed, Counters, Answer
      <4> QED BY <4>1, <4>2
    <3>5. answer' \in [Runner -> [prompt : BOOLEAN, counters : Answer] \cup {None}]
      BY <1>0, <3>2, <3>3, <3>4
    <3>6. \A q \in Runner : answer'[q] \in {answer[q], None} \/ (answer'[q] # None => Correct(answer[q].counters)')
      BY <1>0, <3>3, <3>4 DEF Correct
    <3> QED BY <2>1, <3>5, <3>6, <1>1
  <2> QED BY <2>3, <2>4
<1>9. ASSUME NEW r \in Runner, Fail(r) PROVE RunnerInv'
  <2>1. Next /\ UNCHANGED <<known, turn, answer, published>>
    BY <1>9 DEF Fail, Next, RunnerStep, view
  <2> QED BY <1>0, <2>1, <1>1
<1>10. ASSUME NEW r \in Runner, LoseAnswer(r) PROVE RunnerInv'
  <2>1. /\ \A q \in Runner : answer'[q] \in {answer[q], None}
        /\ answer' \in [Runner -> [prompt : BOOLEAN, counters : Answer] \cup {None}]
        /\ UNCHANGED vars /\ UNCHANGED <<known, turn, published>>
    BY <1>0, <1>10 DEF LoseAnswer
  <2> QED BY <2>1, <1>1
<1>11. CASE ServerStep
  <2>1. Next /\ UNCHANGED <<known, turn, answer, published>>
    BY <1>11 DEF ServerStep, Next, view
  <2> QED BY <1>0, <2>1, <1>1
<1>12. CASE UNCHANGED allVars
  <2>1. UNCHANGED vars /\ UNCHANGED <<known, turn, answer, published>>
    BY <1>12 DEF allVars, view
  <2> QED BY <1>0, <2>1, <1>1
<1> QED BY <1>2, <1>3, <1>4, <1>5, <1>6, <1>7, <1>8, <1>9, <1>10, <1>11, <1>12, SenderCalls DEF RunnerNext

AnySpec == RunnerSpec \/ OvercountedSpec \/ MiscountedSpec

LEMMA RunnerInvariant == AnySpec => []RunnerInv
<1>1. Init /\ RunnerInit => RunnerInv
  BY RunnerStart
<1>2. Overcounted => RunnerInv
  BY RunnerStart DEF Overcounted
<1>3. InitDrifted /\ RunnerInit => RunnerInv
  BY RunnerStart
<1>4. RunnerInv /\ [RunnerNext]_allVars => RunnerInv'
  BY RunnerStepKeeps
<1> QED BY <1>1, <1>2, <1>3, <1>4, PTL DEF AnySpec, RunnerSpec, OvercountedSpec, MiscountedSpec

\* Views, answers under way and broadcasts keep their types, whatever the count was.
THEOREM RunnerTypeCorrect == AnySpec => []RunnerTypeOK
<1>1. RunnerInv => RunnerTypeOK
  BY DEF RunnerInv
<1> QED BY <1>1, RunnerInvariant, PTL

\* No runner is ahead of the server, and at the current version it knows the
\* current count, although what feeds its view is lost, repeated and reordered.
THEOREM ViewIsAlwaysTrue == AnySpec => []ViewIsTrue
<1>1. RunnerInv => ViewIsTrue
  BY DEF RunnerInv
<1> QED BY <1>1, RunnerInvariant, PTL

-------------------------------------------------------------------------------
(* The server under its runners *)

\* Whatever the runners do, the server sees calls: every step of the composition
\* is a step of the server or leaves it alone.
LEMMA RunnersOnlyCall == [RunnerNext]_allVars => [Next]_vars
<1> SUFFICES ASSUME [RunnerNext]_allVars
             PROVE  [Next]_vars
  OBVIOUS
<1>1. CASE UserChanges
  BY <1>1 DEF UserChanges, Next
<1>2. ASSUME NEW r \in Runner, Ask(r) \/ Nudge(r) \/ Serve(r) \/ Fail(r)
      PROVE  Next
  BY <1>2 DEF Ask, Nudge, Serve, Fail, Next, RunnerStep
<1>3. ASSUME NEW r \in Runner,
             \/ ReceiveBroadcast(r) \/ Reconcile(r) \/ ReceiveAnswer(r)
             \/ EndTurn(r) \/ LoseAnswer(r)
      PROVE  UNCHANGED vars
  BY <1>3 DEF ReceiveBroadcast, Reconcile, ReceiveAnswer, EndTurn, LoseAnswer
<1>4. CASE ServerStep
  BY <1>4 DEF ServerStep, Next
<1>5. CASE UNCHANGED allVars
  BY <1>5 DEF allVars
<1> QED BY <1>1, <1>2, <1>3, <1>4, <1>5, SenderCalls DEF RunnerNext

\* The composition implements the server it is composed of, so that what holds
\* of the server alone holds of it with runners that poll, nudge and retry.
THEOREM RunnersLeaveServerIntact ==
  /\ RunnerSpec => Spec
  /\ OvercountedSpec \/ MiscountedSpec => DriftedSpec
<1>1. RunnerSpec => Spec
  BY RunnersOnlyCall, PTL DEF RunnerSpec, Spec
<1>2. Overcounted => InitDrifted
  BY DEF Overcounted
<1>3. OvercountedSpec \/ MiscountedSpec => DriftedSpec
  BY <1>2, RunnersOnlyCall, PTL DEF OvercountedSpec, MiscountedSpec, DriftedSpec
<1> QED BY <1>1, <1>3

\* Runners that lose, repeat and reorder what they are told still drain one line
\* of prompts from its front, each into the transcript once, and lose none.
THEOREM RunnersDrainTheLine == AnySpec => ImplementsPromptQueue /\ []NoPromptLost
<1>1. AnySpec => Spec \/ DriftedSpec
  BY RunnersLeaveServerIntact DEF AnySpec
<1>2. Spec => ImplementsPromptQueue /\ []NoPromptLost
  BY QueueIsALine, PromptsAreKept
<1>3. DriftedSpec => ImplementsPromptQueue /\ []NoPromptLost
  BY DriftedQueueIsALine, DriftedPromptsAreKept
<1> QED BY <1>1, <1>2, <1>3
===============================================================================
