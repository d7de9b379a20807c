---------------------- MODULE ConnectionSupervisorProofs ----------------------
(***************************************************************************)
(* Theorems about ConnectionSupervisor, for any set of transports, any set *)
(* of functions under way at once and either configuration of the probe.   *)
(***************************************************************************)
EXTENDS ConnectionSupervisor, TLAPS

Phase == {"idle", "connecting", "online", "offline", "auth_failed", "shutting_down"}

-------------------------------------------------------------------------------
(* Types of the shared steps *)

\* The two functions that most steps update, and the four sets and pointers.
TaskTyped == task' \in [Task -> Job] /\ fresh' \in SUBSET Task /\ starting' \in Task \cup {None}
WiresTyped ==
  /\ current' \in Transport \cup {None} /\ attached' \in SUBSET Transport
  /\ heard' \in SUBSET Transport /\ link' \in [Transport -> Link]
ModeTyped == phase' \in Phase /\ started' \in BOOLEAN /\ stopped' \in BOOLEAN /\ timer' \in BOOLEAN

LEMMA TypeParts == TypeOK' <=> ModeTyped /\ WiresTyped /\ TaskTyped
BY DEF TypeOK, ModeTyped, WiresTyped, TaskTyped, Phase

LEMMA DisconnectedType ==
  ASSUME TypeOK, NEW x
  PROVE  Disconnected(x) \in [Transport -> Link]
BY DEF Disconnected, TypeOK, Link

LEMMA BecomesType ==
  ASSUME TypeOK, NEW t \in Task, NEW job \in Job, Becomes(t, job)
  PROVE  /\ task' \in [Task -> Job] /\ task'[t] = job
         /\ \A u \in Task : u # t => task'[u] = task[u]
BY DEF Becomes, TypeOK

LEMMA ReturnsType ==
  ASSUME TypeOK, NEW t \in Task, Returns(t)
  PROVE  TaskTyped
<1>1. NoJob \in Job
  BY DEF NoJob, Job, Verdict
<1> QED BY <1>1, BecomesType DEF Returns, TaskTyped, TypeOK

LEMMA CreateType ==
  ASSUME TypeOK, NEW t \in Task, NEW links \in [Transport -> Link], NEW others \in SUBSET Transport,
         NEW valid, Create(t, links, others, valid)
  PROVE  /\ WiresTyped /\ phase' = "connecting"
         /\ task' \in [Task -> Job] /\ task'[t].pc = "dialing"
         /\ \A u \in Task : u # t => task'[u] = task[u]
<1>1. PICK x \in Unused(t) :
        /\ current' = x /\ attached' = attached \cup {x}
        /\ heard' = IF valid THEN others \cup {x} ELSE others \ {x}
        /\ link' = [links EXCEPT ![x] = "preparing"]
        /\ phase' = "connecting" /\ Becomes(t, Waits("dialing", x))
  BY DEF Create
<1>2. x \in Transport
  BY DEF Unused
<1>3. Waits("dialing", x) \in Job /\ Waits("dialing", x).pc = "dialing"
  BY <1>2 DEF Waits, NoJob, Job, Verdict
<1>4. WiresTyped
  BY <1>1, <1>2 DEF WiresTyped, TypeOK, Link
<1> QED BY <1>1, <1>3, <1>4, BecomesType

LEMMA AskOrCreateType ==
  ASSUME TypeOK, NEW t \in Task, NEW links \in [Transport -> Link], NEW others \in SUBSET Transport,
         NEW initial, NEW valid, AskOrCreate(t, initial, links, others, valid)
  PROVE  /\ WiresTyped /\ task' \in [Task -> Job]
         /\ \/ task'[t].pc = "asking" /\ phase' = phase
            \/ task'[t].pc = "dialing" /\ phase' = "connecting"
         /\ \A u \in Task : u # t => task'[u] = task[u]
<1>1. CASE /\ Becomes(t, Waits("asking", None))
           /\ link' = links /\ heard' = others
           /\ UNCHANGED <<phase, current, attached>>
  <2>1. Waits("asking", None) \in Job /\ Waits("asking", None).pc = "asking"
    BY DEF Waits, NoJob, Job, Verdict
  <2>2. WiresTyped
    BY <1>1 DEF WiresTyped, TypeOK
  <2> QED BY <1>1, <2>1, <2>2, BecomesType
<1>2. CASE Create(t, links, others, valid)
  BY <1>2, CreateType
<1> QED BY <1>1, <1>2 DEF AskOrCreate

LEMMA CleanupType ==
  ASSUME TypeOK, CleanupTransport
  PROVE  current' = None /\ attached' \in SUBSET Transport
BY DEF CleanupTransport, TypeOK

LEMMA EstablishType ==
  ASSUME TypeOK, NEW t \in Task, NEW initial \in BOOLEAN, EstablishConnection(t, initial)
  PROVE  /\ WiresTyped /\ task' \in [Task -> Job] /\ fresh' = {t} /\ timer' = FALSE
         /\ \/ task'[t].pc \in {"asking", "closing"} /\ phase' = phase
            \/ task'[t].pc = "dialing" /\ phase' = "connecting"
<1>1. CASE current # None
  <2>1. /\ fresh' = {t} /\ timer' = FALSE /\ CleanupTransport /\ link' = Disconnected(current)
        /\ heard' = {} /\ Becomes(t, [Waits("closing", current) EXCEPT !.initial = initial])
        /\ phase' = phase
    BY <1>1 DEF EstablishConnection
  <2>2. current \in Transport \cup {None}
    BY DEF TypeOK
  <2>3. /\ [Waits("closing", current) EXCEPT !.initial = initial] \in Job
        /\ [Waits("closing", current) EXCEPT !.initial = initial].pc = "closing"
    BY <2>2 DEF Waits, NoJob, Job, Verdict
  <2>4. WiresTyped
    BY <2>1, DisconnectedType, CleanupType DEF WiresTyped
  <2> QED BY <2>1, <2>3, <2>4, BecomesType
<1>2. CASE current = None
  <2>1. /\ fresh' = {t} /\ timer' = FALSE /\ AskOrCreate(t, initial, link, {}, TRUE)
    BY <1>2 DEF EstablishConnection
  <2>2. link \in [Transport -> Link]
    BY DEF TypeOK
  <2> QED BY <2>1, <2>2, AskOrCreateType
<1> QED BY <1>1, <1>2

LEMMA RejectType ==
  ASSUME TypeOK, NEW t \in Task, NEW verdict \in Verdict, Reject(t, verdict)
  PROVE  /\ current' = None /\ attached' \in SUBSET Transport /\ heard' = {}
         /\ TaskTyped /\ fresh' = {t} /\ task'[t].pc = "rejecting"
         /\ UNCHANGED mode /\ timer' = FALSE
<1>1. current \in Transport \cup {None}
  BY DEF TypeOK
<1>2. /\ [Waits("rejecting", current) EXCEPT !.verdict = verdict] \in Job
      /\ [Waits("rejecting", current) EXCEPT !.verdict = verdict].pc = "rejecting"
  BY <1>1 DEF Waits, NoJob, Job, Verdict
<1>3. Becomes(t, [Waits("rejecting", current) EXCEPT !.verdict = verdict])
  BY DEF Reject
<1>4. task' \in [Task -> Job] /\ task'[t].pc = "rejecting"
  BY <1>2, <1>3, BecomesType
<1>5. TaskTyped
  BY <1>4 DEF Reject, TaskTyped, TypeOK
<1> QED BY <1>4, <1>5, CleanupType DEF Reject

LEMMA ConcludesType ==
  ASSUME TypeOK, NEW t \in Task, NEW verdict \in Verdict, Concludes(t, verdict)
  PROVE  /\ TaskTyped /\ timer' \in BOOLEAN /\ phase' \in Phase
         /\ phase' = "auth_failed" \/ (phase' = "offline" /\ timer' = TRUE)
<1>1. TaskTyped
  BY ReturnsType DEF Concludes
<1> QED BY <1>1 DEF Concludes, ScheduleReconnect, TypeOK, Phase

-------------------------------------------------------------------------------
(* The invariant *)

\* An offline supervisor that is not stopped waits for its timer, or for a valid
\* function that has not handed over to a transport yet.  A dial is not enough:
\* it returns without a word.
Trying == {"closing", "asking", "probing", "preparing", "rejecting", "losing"}
OnItsWay == \E t \in fresh : task[t].pc \in Trying
TriesAgain == started /\ ~stopped /\ phase = "offline" => timer \/ OnItsWay
StoppedHasNone == stopped => current = None
SupervisorInv == TypeOK /\ TriesAgain /\ StoppedHasNone

StopHolds == stopped /\ stopped' => phase' = phase /\ current' = None
Keeps == TypeOK' /\ TriesAgain' /\ StoppedHasNone' /\ StopHolds

\* Three ways to be on one's way after a step.
LEMMA KeepsWay ==
  ASSUME SupervisorInv, TypeOK', UNCHANGED mode,
         stopped => current' = None,
         \/ fresh' = fresh /\ timer' = timer
            /\ \A u \in fresh : task[u].pc \in Trying => task'[u].pc \in Trying
         \/ timer' = TRUE
         \/ \E t \in fresh' : task'[t].pc \in Trying
         \/ stopped \/ phase # "offline"
  PROVE  Keeps
BY DEF SupervisorInv, TriesAgain, OnItsWay, StoppedHasNone, StopHolds, Keeps, mode

\* A function that is not valid any more, or is not among those that matter, returns.
LEMMA ReturnsQuietly ==
  ASSUME SupervisorInv, NEW t \in Task, Returns(t), UNCHANGED <<mode, timer, current>>,
         attached' \in SUBSET Transport, heard' \in SUBSET Transport, link' \in [Transport -> Link],
         t \notin fresh \/ stopped \/ task[t].pc \notin Trying \/ phase # "offline"
  PROVE  Keeps
<1>1. TypeOK /\ TaskTyped
  BY ReturnsType DEF SupervisorInv
<1>2. TypeOK'
  BY <1>1 DEF TypeOK, TaskTyped, mode
<1>3. StoppedHasNone' /\ StopHolds
  BY DEF SupervisorInv, StoppedHasNone, StopHolds, mode
<1>4. TriesAgain'
  <2> SUFFICES ASSUME started, ~stopped, phase = "offline", ~timer PROVE OnItsWay'
    BY DEF TriesAgain, mode
  <2>1. PICK u \in fresh : task[u].pc \in Trying
    BY DEF SupervisorInv, TriesAgain, OnItsWay
  <2>2. u # t /\ u \in fresh' /\ u \in Task
    BY <2>1, <1>1 DEF Returns, TypeOK
  <2>3. task'[u] = task[u]
    BY <2>2, <1>1 DEF Returns, Becomes, TypeOK
  <2> QED BY <2>1, <2>2, <2>3 DEF OnItsWay
<1> QED BY <1>2, <1>3, <1>4 DEF Keeps

LEMMA ConcludesKeeps ==
  ASSUME SupervisorInv, NEW t \in Task, NEW verdict \in Verdict, Concludes(t, verdict), ~stopped,
         UNCHANGED <<started, stopped, current, attached, heard>>, link' \in [Transport -> Link]
  PROVE  Keeps
<1>1. /\ TaskTyped /\ timer' \in BOOLEAN /\ phase' \in Phase
      /\ phase' = "auth_failed" \/ (phase' = "offline" /\ timer' = TRUE)
  BY ConcludesType DEF SupervisorInv
<1>2. TypeOK'
  BY <1>1, TypeParts DEF SupervisorInv, TypeOK, ModeTyped, WiresTyped
<1> QED BY <1>1, <1>2 DEF Keeps, TriesAgain, StoppedHasNone, StopHolds

LEMMA RejectKeeps ==
  ASSUME SupervisorInv, NEW t \in Task, NEW verdict \in Verdict, Reject(t, verdict),
         link' \in [Transport -> Link]
  PROVE  Keeps
<1>1. /\ current' = None /\ attached' \in SUBSET Transport /\ heard' = {}
      /\ TaskTyped /\ fresh' = {t} /\ task'[t].pc = "rejecting"
      /\ UNCHANGED mode /\ timer' = FALSE
  BY RejectType DEF SupervisorInv
<1>2. TypeOK'
  BY <1>1, TypeParts DEF SupervisorInv, TypeOK, ModeTyped, WiresTyped, Phase, mode
<1>3. \E u \in fresh' : task'[u].pc \in Trying
  BY <1>1 DEF Trying
<1> QED BY <1>1, <1>2, <1>3, KeepsWay

LEMMA EstablishKeeps ==
  ASSUME SupervisorInv, NEW t \in Task, NEW initial \in BOOLEAN, EstablishConnection(t, initial),
         started' \in BOOLEAN, stopped' = FALSE, starting' \in Task \cup {None}
  PROVE  Keeps
<1>1. /\ WiresTyped /\ task' \in [Task -> Job] /\ fresh' = {t} /\ timer' = FALSE
      /\ \/ task'[t].pc \in {"asking", "closing"} /\ phase' = phase
         \/ task'[t].pc = "dialing" /\ phase' = "connecting"
  BY EstablishType DEF SupervisorInv
<1>2. phase' \in Phase
  BY <1>1 DEF SupervisorInv, TypeOK, Phase
<1>3. TypeOK'
  BY <1>1, <1>2, TypeParts DEF ModeTyped, TaskTyped
<1>4. TriesAgain'
  BY <1>1 DEF TriesAgain, OnItsWay, Trying
<1> QED BY <1>3, <1>4 DEF Keeps, StoppedHasNone, StopHolds

\* A function that was not under way starts to wait, beside those there are.
LEMMA JoinsKeeps ==
  ASSUME SupervisorInv, NEW t \in Task, t \in Free, NEW job \in Job, job.pc \in Trying, Becomes(t, job),
         fresh' = fresh \cup {t}, phase' \in Phase, timer' \in BOOLEAN, ~stopped,
         UNCHANGED <<started, stopped, current, attached, heard, starting>>, link' \in [Transport -> Link]
  PROVE  Keeps
<1>1. task' \in [Task -> Job] /\ task'[t].pc \in Trying
  BY BecomesType DEF SupervisorInv
<1>2. TypeOK'
  BY <1>1, TypeParts DEF SupervisorInv, TypeOK, ModeTyped, WiresTyped, TaskTyped
<1>3. OnItsWay'
  BY <1>1 DEF OnItsWay
<1> QED BY <1>2, <1>3 DEF Keeps, TriesAgain, StoppedHasNone, StopHolds

-------------------------------------------------------------------------------
(* Every step *)

LEMMA SupervisorInit == Init => SupervisorInv
<1> SUFFICES ASSUME Init PROVE SupervisorInv
  OBVIOUS
<1>1. NoJob \in Job
  BY DEF NoJob, Job, Verdict
<1>2. task \in [Task -> Job] /\ link \in [Transport -> Link]
  BY <1>1 DEF Init, Link
<1>3. TypeOK
  BY <1>2 DEF Init, TypeOK
<1> QED BY <1>3 DEF Init, SupervisorInv, TriesAgain, StoppedHasNone

LEMMA CallsKeep ==
  ASSUME SupervisorInv, NEW t \in Task,
         Start(t) \/ Stop(t) \/ TimerFires(t) \/ \E verdict \in Verdict : ReportProbeResult(t, verdict)
  PROVE  Keeps
<1>0. TypeOK /\ current \in Transport \cup {None}
  BY DEF SupervisorInv, TypeOK
<1>1. CASE Start(t)
  <2>1. EstablishConnection(t, TRUE) /\ started' = TRUE /\ stopped' = FALSE /\ starting' = t
    BY <1>1 DEF Start
  <2> QED BY <2>1, EstablishKeeps
<1>2. CASE Stop(t)
  <2>1. Waits("stopping", current) \in Job
    BY <1>0 DEF Waits, NoJob, Job, Verdict
  <2>2. TaskTyped
    BY <1>0, <1>2, <2>1, BecomesType DEF Stop, TaskTyped, TypeOK
  <2>3. current' = None /\ WiresTyped
    BY <1>0, <1>2, CleanupType, DisconnectedType DEF Stop, WiresTyped, TypeOK
  <2>4. TypeOK'
    BY <1>0, <1>2, <2>2, <2>3, TypeParts DEF Stop, ModeTyped, TypeOK, Phase
  <2> QED BY <1>2, <2>3, <2>4 DEF Stop, Keeps, TriesAgain, StoppedHasNone, StopHolds
<1>3. CASE TimerFires(t)
  <2>1. Waits("probing", None) \in Job /\ Waits("probing", None).pc \in Trying
    BY DEF Waits, NoJob, Job, Verdict, Trying
  <2>2. CASE stopped
    <3>1. TaskTyped
      BY <1>0, <1>3, <2>1, BecomesType DEF TimerFires, TaskTyped, TypeOK
    <3>2. TypeOK'
      BY <1>0, <1>3, <3>1, TypeParts DEF TimerFires, ModeTyped, WiresTyped, TypeOK, Phase, mode, wiring
    <3> QED BY <1>3, <2>2, <3>2, KeepsWay DEF TimerFires, SupervisorInv, StoppedHasNone, wiring
  <2>3. CASE ~stopped
    <3>1. /\ Becomes(t, Waits("probing", None)) /\ fresh' = fresh \cup {t} /\ t \in Free
          /\ phase' \in Phase /\ timer' \in BOOLEAN /\ link' \in [Transport -> Link]
          /\ UNCHANGED <<started, stopped, current, attached, heard, starting>>
      BY <1>0, <1>3 DEF TimerFires, TypeOK, Phase, mode, wiring
    <3> QED BY <2>1, <2>3, <3>1, JoinsKeeps
  <2> QED BY <2>2, <2>3
<1>4. ASSUME NEW verdict \in Verdict, ReportProbeResult(t, verdict) PROVE Keeps
  BY <1>0, <1>4, RejectKeeps, DisconnectedType DEF ReportProbeResult
<1> QED BY <1>1, <1>2, <1>3, <1>4

LEMMA EventsKeep ==
  ASSUME SupervisorInv, NEW x \in Transport, Event(x)
  PROVE  Keeps
<1>0. TypeOK /\ Disconnected(x) \in [Transport -> Link] /\ Disconnected(current) \in [Transport -> Link]
  BY DisconnectedType DEF SupervisorInv
<1>1. CASE Connects(x)
  <2>1. link' \in [Transport -> Link]
    BY <1>0, <1>1 DEF Connects, TypeOK, Link
  <2>2. TypeOK'
    BY <1>0, <1>1, <2>1, TypeParts DEF Connects, TypeOK, ModeTyped, WiresTyped, TaskTyped, Phase, tasks
  <2>3. TriesAgain'
    BY <1>1 DEF Connects, SupervisorInv, TriesAgain, OnItsWay, tasks
  <2>4. StoppedHasNone' /\ StopHolds
    BY <1>1 DEF Connects, SupervisorInv, StoppedHasNone, StopHolds, Listening
  <2> QED BY <2>2, <2>3, <2>4 DEF Keeps
<1>2. ASSUME NEW t \in Task, Disconnects(x, t) PROVE Keeps
  <2>1. CASE Listening(x)
    <3>1. Waits("losing", None) \in Job /\ Waits("losing", None).pc \in Trying
      BY DEF Waits, NoJob, Job, Verdict, Trying
    <3>2. /\ Becomes(t, Waits("losing", None)) /\ fresh' = fresh \cup {t} /\ t \in Free /\ ~stopped
          /\ phase' \in Phase /\ timer' \in BOOLEAN /\ link' \in [Transport -> Link]
          /\ UNCHANGED <<started, stopped, current, attached, heard, starting>>
      BY <1>0, <1>2, <2>1 DEF Disconnects, TypeOK, Phase, Listening
    <3> QED BY <3>1, <3>2, JoinsKeeps
  <2>2. CASE ~Listening(x)
    <3>1. UNCHANGED <<mode, timer, current, attached, heard, tasks>> /\ link' \in [Transport -> Link]
      BY <1>0, <1>2, <2>2 DEF Disconnects, mode, tasks
    <3>2. TypeOK'
      BY <1>0, <3>1 DEF TypeOK, mode, tasks
    <3> QED BY <3>1, <3>2, KeepsWay DEF tasks, SupervisorInv, StoppedHasNone
  <2> QED BY <2>1, <2>2
<1>3. ASSUME NEW t \in Task, NEW verdict \in Verdict, Errs(x, t, verdict) PROVE Keeps
  <2>1. CASE Reject(t, verdict) /\ link' = Disconnected(x)
    BY <1>0, <2>1, RejectKeeps
  <2>2. CASE /\ ScheduleReconnect /\ ~stopped
             /\ link' \in {link, Disconnected(x)}
             /\ UNCHANGED <<started, stopped, current, attached, heard, tasks>>
    <3>1. link' \in [Transport -> Link]
      BY <1>0, <2>2 DEF TypeOK
    <3>2. TypeOK'
      BY <1>0, <2>2, <3>1, TypeParts
         DEF TypeOK, ScheduleReconnect, ModeTyped, WiresTyped, TaskTyped, Phase, tasks
    <3> QED BY <2>2, <3>2 DEF ScheduleReconnect, Keeps, TriesAgain, StoppedHasNone, StopHolds
  <2>3. CASE link' = Disconnected(x) /\ UNCHANGED <<mode, timer, current, attached, heard, tasks>>
    <3>1. TypeOK'
      BY <1>0, <2>3 DEF TypeOK, mode, tasks
    <3> QED BY <2>3, <3>1, KeepsWay DEF tasks, SupervisorInv, StoppedHasNone
  <2> QED BY <1>3, <2>1, <2>2, <2>3 DEF Errs, Listening
<1> QED BY <1>1, <1>2, <1>3 DEF Event

LEMMA ResumptionsKeep ==
  ASSUME SupervisorInv, NEW t \in Task, Resumes(t)
  PROVE  Keeps
<1>0. /\ TypeOK /\ task[t] \in Job /\ task[t].verdict \in Verdict /\ task[t].initial \in BOOLEAN
      /\ attached \in SUBSET Transport /\ heard \in SUBSET Transport /\ link \in [Transport -> Link]
      /\ Disconnected(task[t].on) \in [Transport -> Link]
      /\ started \in BOOLEAN /\ stopped \in BOOLEAN /\ phase \in Phase /\ timer \in BOOLEAN /\ starting \in Task \cup {None}
      /\ fresh \in SUBSET Task
  BY DisconnectedType DEF SupervisorInv, TypeOK, Job, Phase
<1>1. CASE Closed(t)
  <2>1. CASE stopped
    BY <1>0, <1>1, <2>1, ReturnsQuietly DEF Closed, mode
  <2>2. CASE ~stopped
    <3>1. /\ AskOrCreate(t, task[t].initial, Disconnected(task[t].on), heard, t \in fresh)
          /\ UNCHANGED <<fresh, starting, started, stopped, timer>>
      BY <1>1, <2>2 DEF Closed
    <3>2. /\ WiresTyped /\ task' \in [Task -> Job]
          /\ \/ task'[t].pc = "asking" /\ phase' = phase
             \/ task'[t].pc = "dialing" /\ phase' = "connecting"
          /\ \A u \in Task : u # t => task'[u] = task[u]
      BY <1>0, <3>1, AskOrCreateType
    <3>3. TypeOK'
      BY <1>0, <3>1, <3>2, <2>2, TypeParts DEF ModeTyped, TaskTyped, Phase
    <3>4. TriesAgain'
      BY <1>0, <3>1, <3>2 DEF SupervisorInv, TriesAgain, OnItsWay, Trying
    <3> QED BY <2>2, <3>1, <3>3, <3>4 DEF Keeps, StoppedHasNone, StopHolds
  <2> QED BY <2>1, <2>2
<1>2. CASE Prepared(t)
  <2>1. CASE Valid(t)
    BY <1>0, <1>2, <2>1, EstablishKeeps DEF Prepared, Valid
  <2>2. CASE ~Valid(t)
    BY <1>0, <1>2, <2>2, ReturnsQuietly DEF Prepared, Valid, mode, wiring
  <2> QED BY <2>1, <2>2
<1>3. CASE Rejected(t)
  <2>1. CASE Valid(t)
    BY <1>0, <1>3, <2>1, ConcludesKeeps DEF Rejected, Valid
  <2>2. CASE ~Valid(t)
    BY <1>0, <1>3, <2>2, ReturnsQuietly DEF Rejected, Valid, mode
  <2> QED BY <2>1, <2>2
<1>4. CASE LossHandled(t)
  <2>1. CASE Valid(t) /\ phase # "auth_failed"
    <3>1. TaskTyped
      BY <1>0, <1>4, ReturnsType DEF LossHandled
    <3>2. TypeOK'
      BY <1>0, <1>4, <2>1, <3>1, TypeParts
         DEF LossHandled, ScheduleReconnect, TypeOK, ModeTyped, WiresTyped, Phase, wiring
    <3> QED BY <1>4, <2>1, <3>2
            DEF LossHandled, ScheduleReconnect, Keeps, TriesAgain, StoppedHasNone, StopHolds, Valid
  <2>2. CASE ~(Valid(t) /\ phase # "auth_failed")
    BY <1>0, <1>4, <2>2, ReturnsQuietly DEF LossHandled, Valid, mode, wiring
  <2> QED BY <2>1, <2>2
<1>5. CASE StopReturns(t)
  BY <1>0, <1>5, ReturnsQuietly DEF StopReturns, Trying, mode
<1>6. ASSUME NEW answer \in Answer, Asked(t, answer) PROVE Keeps
  <2>1. CASE ~Valid(t)
    BY <1>0, <1>6, <2>1, ReturnsQuietly DEF Asked, Valid, mode, wiring
  <2>2. CASE Valid(t) /\ answer = "ready"
    <3>1. Create(t, link, heard, TRUE) /\ UNCHANGED <<timer, fresh, starting, started, stopped>> /\ ~stopped
      BY <1>6, <2>2 DEF Asked, Valid
    <3>2. WiresTyped /\ phase' = "connecting" /\ task' \in [Task -> Job]
      BY <1>0, <3>1, CreateType
    <3>3. TypeOK'
      BY <1>0, <3>1, <3>2, TypeParts DEF ModeTyped, TaskTyped, Phase
    <3> QED BY <3>1, <3>2, <3>3 DEF Keeps, TriesAgain, StoppedHasNone, StopHolds
  <2>3. CASE Valid(t) /\ answer # "ready"
    <3>1. answer \in Verdict
      BY <2>3 DEF Answer
    <3> QED BY <1>0, <1>6, <2>3, <3>1, ConcludesKeeps DEF Asked, Valid, wiring
  <2> QED BY <2>1, <2>2, <2>3
<1>7. ASSUME NEW answer \in Answer, Probed(t, answer) PROVE Keeps
  <2>1. CASE ~Valid(t)
    BY <1>0, <1>7, <2>1, ReturnsQuietly DEF Probed, Valid, mode, wiring
  <2>2. CASE Valid(t) /\ answer = "ready"
    <3>1. /\ Becomes(t, Waits("preparing", None)) /\ UNCHANGED <<mode, timer, wiring, fresh, starting>>
          /\ ~stopped
      BY <1>7, <2>2 DEF Probed, Valid, mode
    <3>2. Waits("preparing", None) \in Job /\ Waits("preparing", None).pc \in Trying
      BY DEF Waits, NoJob, Job, Verdict, Trying
    <3>3. /\ task' \in [Task -> Job] /\ task'[t].pc \in Trying
          /\ \A u \in Task : u # t => task'[u] = task[u]
      BY <1>0, <3>1, <3>2, BecomesType
    <3>4. TypeOK'
      BY <1>0, <3>1, <3>3 DEF TypeOK, mode, wiring
    <3>5. \A u \in fresh : task[u].pc \in Trying => task'[u].pc \in Trying
      BY <1>0, <3>3
    <3> QED BY <3>1, <3>4, <3>5, KeepsWay
  <2>3. CASE Valid(t) /\ answer # "ready"
    <3>1. answer \in Verdict
      BY <2>3 DEF Answer
    <3> QED BY <1>0, <1>7, <2>3, <3>1, ConcludesKeeps DEF Probed, Valid, wiring
  <2> QED BY <2>1, <2>2, <2>3
<1>8. CASE Dials(t)
  <2>1. link' \in [Transport -> Link]
    BY <1>0, <1>8 DEF Dials, Link
  <2> QED BY <1>0, <1>8, <2>1, ReturnsQuietly DEF Dials, Trying
<1>9. ASSUME NEW verdict \in Verdict, DialThrows(t, verdict) PROVE Keeps
  <2>1. CASE Valid(t) /\ CanReject
    <3>1. Reject(t, verdict) /\ link' = [Disconnected(current) EXCEPT ![task[t].on] = "down"]
      BY <1>9, <2>1 DEF DialThrows
    <3>2. link' \in [Transport -> Link]
      BY <1>0, <3>1, DisconnectedType DEF Link
    <3> QED BY <3>1, <3>2, RejectKeeps
  <2>2. CASE ~(Valid(t) /\ CanReject)
    <3>1. link' \in [Transport -> Link]
      BY <1>0, <1>9, <2>2 DEF DialThrows, Link
    <3> QED BY <1>0, <1>9, <2>2, <3>1, ReturnsQuietly DEF DialThrows, Trying
  <2> QED BY <2>1, <2>2
<1> QED BY <1>1, <1>2, <1>3, <1>4, <1>5, <1>6, <1>7, <1>8, <1>9 DEF Resumes

LEMMA SupervisorStep ==
  ASSUME SupervisorInv, [Next]_vars
  PROVE  SupervisorInv' /\ [StopHolds]_vars
<1>1. CASE UNCHANGED vars
  BY <1>1 DEF vars, mode, wiring, tasks, SupervisorInv, TypeOK, TriesAgain, OnItsWay, StoppedHasNone
<1>2. CASE Next
  <2>1. Keeps
    BY <1>2, CallsKeep, EventsKeep, ResumptionsKeep DEF Next
  <2> QED BY <2>1 DEF Keeps, SupervisorInv
<1> QED BY <1>1, <1>2

LEMMA SupervisorInvariant == Spec => []SupervisorInv
BY SupervisorInit, SupervisorStep, PTL DEF Spec

-------------------------------------------------------------------------------
(* What follows. *)

\* Phases, jobs, listeners and links are what they are said to be.
THEOREM TypeCorrect == Spec => []TypeOK
<1>1. SupervisorInv => TypeOK
  BY DEF SupervisorInv
<1> QED BY <1>1, SupervisorInvariant, PTL

\* A supervisor that is offline and was not stopped tries again, whatever overtook what.
THEOREM NeverEverStranded == Spec => []NeverStranded
<1>1. SupervisorInv => NeverStranded
  BY DEF SupervisorInv, TriesAgain, OnItsWay, NeverStranded
<1> QED BY <1>1, SupervisorInvariant, PTL

\* Nothing that was under way when the supervisor was stopped publishes a phase or
\* opens a transport.
THEOREM StopIsFinalAlways == Spec => StopIsFinal
<1>1. SupervisorInv /\ [Next]_vars => [stopped /\ stopped' => phase' = phase /\ current' = None]_vars
  BY SupervisorStep DEF StopHolds
<1> QED BY <1>1, SupervisorInvariant, PTL DEF Spec, StopIsFinal
===============================================================================
