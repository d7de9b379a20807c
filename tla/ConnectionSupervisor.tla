------------------------- MODULE ConnectionSupervisor -------------------------
(***************************************************************************)
(* createManagedConnectionSupervisor: keeps one transport to the server    *)
(* connected for the CLI's session client, its machine client and the app. *)
(* Its methods are asynchronous functions of one thread: what runs between *)
(* two awaits is one action, and any other call, timer or transport event  *)
(* may come while a function waits.  A function in progress is a task.     *)
(*                                                                         *)
(* The code numbers generations and compares the number a function or a    *)
(* listener took with the present one.  Only that comparison matters, so   *)
(* the module keeps the tasks (fresh) and the transports (heard) whose     *)
(* number is the present one; a new generation makes all others stale.     *)
(* Attempts, delays, reasons and error texts are left out.                 *)
(***************************************************************************)
EXTENDS Integers

CONSTANTS
  Transport,    \* bound: transports that exist at once
  Task,         \* bound: asynchronous functions in progress at once
  None,
  ProbeFirst    \* config.probeBeforeInitialConnect

ASSUME NoneIsNothing == None \notin Transport /\ None \notin Task
ASSUME ProbeFirstIsBoolean == ProbeFirst \in BOOLEAN

VARIABLES
  phase, started, stopped,
  timer,        \* is retryTimer set?
  current,      \* currentTransport, whose listeners detachCurrentListeners detach
  attached,     \* transports with our listeners
  heard,        \* those whose listeners are of the present generation
  link,         \* what each transport does
  task, fresh,
  starting      \* startInFlight

mode == <<phase, started, stopped>>
wiring == <<current, attached, heard, link>>
tasks == <<task, fresh, starting>>
vars == <<mode, timer, wiring, tasks>>

Verdict == {"auth_failed", "retry"}

\* Where a task waits: establishing a connection (closing the old transport,
\* asking whether the server is ready, dialling), a reconnect (probing,
\* preparing), a rejection, the loss of a connection, or stopping.
Job == [pc : {"none", "closing", "asking", "dialing", "probing", "preparing",
              "rejecting", "losing", "stopping"},
        on : Transport \cup {None}, initial : BOOLEAN, verdict : Verdict]
NoJob == [pc |-> "none", on |-> None, initial |-> FALSE, verdict |-> "retry"]
Waits(pc, x) == [NoJob EXCEPT !.pc = pc, !.on = x]

\* A transport first prepares its connection (the session client binds an
\* access key over HTTP), then dials, and is up or down.
Link == {"down", "preparing", "dialing", "up"}

\* The type of every variable.
TypeOK ==
  /\ phase \in {"idle", "connecting", "online", "offline", "auth_failed", "shutting_down"}
  /\ started \in BOOLEAN /\ stopped \in BOOLEAN /\ timer \in BOOLEAN
  /\ current \in Transport \cup {None}
  /\ attached \in SUBSET Transport /\ heard \in SUBSET Transport
  /\ link \in [Transport -> Link]
  /\ task \in [Task -> Job] /\ fresh \in SUBSET Task
  /\ starting \in Task \cup {None}

Init ==
  /\ phase = "idle" /\ started = FALSE /\ stopped = FALSE /\ timer = FALSE
  /\ current = None /\ attached = {} /\ heard = {}
  /\ link = [x \in Transport |-> "down"]
  /\ task = [t \in Task |-> NoJob] /\ fresh = {} /\ starting = None

Free == {t \in Task : task[t] = NoJob}

\* The transports task t may take for a new one.
Unused(t) == {x \in Transport \ {current} : /\ link[x] = "down"
                                           /\ \A u \in Task \ {t} : task[u].on # x}

Becomes(t, job) == task' = [task EXCEPT ![t] = job]

\* Task t returns.
Returns(t) ==
  /\ Becomes(t, NoJob)
  /\ fresh' = fresh \ {t}
  /\ starting' = IF starting = t THEN None ELSE starting

\* Mutant: stopping is not looked at.
ValidIfLatest(t) == t \in fresh

\* Is t still wanted when it resumes?
Valid(t) == t \in fresh /\ ~stopped

-------------------------------------------------------------------------------
(* Shared steps *)

\* A preparing transport does not notice that it is disconnected.
Disconnected(x) ==
  [y \in Transport |-> IF y = x /\ link[y] # "preparing" THEN "down" ELSE link[y]]

\* cleanupTransport up to its first await.
CleanupTransport ==
  /\ current' = None
  /\ attached' = attached \ {current}

\* Mutant: the old timer is cleared after the new one is set.
ScheduleThenClear == phase' = "offline" /\ timer' = FALSE

ScheduleReconnect == phase' = "offline" /\ timer' = TRUE

\* A new transport for task t, the others being as in `links`; its listeners
\* are of the generation of t.
Create(t, links, otherHeard, valid) ==
  \E x \in Unused(t) :
    /\ current' = x
    /\ attached' = attached \cup {x}
    /\ heard' = IF valid THEN otherHeard \cup {x} ELSE otherHeard \ {x}
    /\ link' = [links EXCEPT ![x] = "preparing"]
    /\ phase' = "connecting"
    /\ Becomes(t, Waits("dialing", x))

\* What follows the clean-up of an establishment.
AskOrCreate(t, initial, links, otherHeard, valid) ==
  IF initial /\ ProbeFirst
    THEN /\ Becomes(t, Waits("asking", None))
         /\ link' = links /\ heard' = otherHeard
         /\ UNCHANGED <<phase, current, attached>>
    ELSE Create(t, links, otherHeard, valid)

\* establishConnection: a new generation, and the old transport is cleaned up.
EstablishConnection(t, initial) ==
  /\ fresh' = {t} /\ timer' = FALSE
  /\ IF current # None
       THEN /\ CleanupTransport
            /\ link' = Disconnected(current)
            /\ heard' = {}
            /\ Becomes(t, [Waits("closing", current) EXCEPT !.initial = initial])
            /\ UNCHANGED phase
       ELSE AskOrCreate(t, initial, link, {}, TRUE)

\* applyExternallyReportedProbeResult up to its await.
CanReject == ~stopped /\ phase \in {"online", "connecting", "offline"}
Reject(t, verdict) ==
  /\ fresh' = {t} /\ heard' = {} /\ timer' = FALSE
  /\ CleanupTransport
  /\ Becomes(t, [Waits("rejecting", current) EXCEPT !.verdict = verdict])
  /\ UNCHANGED <<mode, starting>>

-------------------------------------------------------------------------------
(* Calls *)

\* A second start joins the one in flight, and one while the connection is
\* online or connecting returns; neither changes anything.
Start(t) ==
  /\ t \in Free
  /\ starting = None \/ stopped
  /\ started /\ ~stopped => phase \notin {"online", "connecting"}
  /\ started' = TRUE /\ stopped' = FALSE
  /\ EstablishConnection(t, TRUE)
  /\ starting' = t

Stop(t) ==
  /\ t \in Free /\ ~stopped
  /\ stopped' = TRUE /\ starting' = None /\ timer' = FALSE
  /\ phase' = "shutting_down"
  /\ CleanupTransport
  /\ link' = Disconnected(current)
  /\ Becomes(t, Waits("stopping", current))
  /\ UNCHANGED <<started, heard, fresh>>

ReportProbeResult(t, verdict) ==
  /\ t \in Free
  /\ CanReject /\ Reject(t, verdict)
  /\ link' = Disconnected(current)

TimerFires(t) ==
  /\ t \in Free /\ timer
  /\ timer' = FALSE
  /\ Becomes(t, Waits("probing", None))
  /\ fresh' = fresh \cup {t}
  /\ UNCHANGED <<mode, wiring, starting>>

-------------------------------------------------------------------------------
(* Transport events *)

Listening(x) == x \in attached /\ x \in heard /\ ~stopped

\* connect() of the transport gets as far as dialling, wanted or not.
Dials(t) ==
  /\ task[t].pc = "dialing"
  /\ link' = [link EXCEPT ![task[t].on] = "dialing"]
  /\ Returns(t)
  /\ UNCHANGED <<mode, timer, current, attached, heard>>

\* connect() of the transport throws.
DialThrows(t, verdict) ==
  /\ task[t].pc = "dialing"
  /\ IF Valid(t) /\ CanReject
       THEN /\ Reject(t, verdict)
            /\ link' = [Disconnected(current) EXCEPT ![task[t].on] = "down"]
       ELSE /\ Returns(t)
            /\ link' = [link EXCEPT ![task[t].on] = "down"]
            /\ UNCHANGED <<mode, timer, current, attached, heard>>

Connects(x) ==
  /\ link[x] = "dialing"
  /\ link' = [link EXCEPT ![x] = "up"]
  /\ IF Listening(x) THEN phase' = "online" /\ timer' = FALSE
                     ELSE UNCHANGED <<phase, timer>>
  /\ UNCHANGED <<started, stopped, current, attached, heard, tasks>>

\* A connect error; the transport may still get connected afterwards.
Errs(x, t, verdict) ==
  /\ link[x] = "dialing"
  /\ IF Listening(x) /\ phase = "connecting" /\ current = x
       THEN \/ /\ t \in Free
               /\ Reject(t, verdict)
               /\ link' = Disconnected(x)
            \/ /\ ScheduleReconnect
               /\ link' \in {link, Disconnected(x)}
               /\ UNCHANGED <<started, stopped, current, attached, heard, tasks>>
       ELSE /\ link' = Disconnected(x)
            /\ UNCHANGED <<mode, timer, current, attached, heard, tasks>>

\* A transport is disconnected, not by us.
Disconnects(x, t) ==
  /\ link[x] \in {"dialing", "up"}
  /\ link' = Disconnected(x)
  /\ IF Listening(x)
       THEN /\ t \in Free
            /\ phase' = "offline"
            /\ Becomes(t, Waits("losing", None))
            /\ fresh' = fresh \cup {t}
       ELSE UNCHANGED <<phase, task, fresh>>
  /\ UNCHANGED <<started, stopped, timer, current, attached, heard, starting>>

-------------------------------------------------------------------------------
(* Tasks that go on *)

\* The old transport is destroyed.
Closed(t) ==
  LET links == Disconnected(task[t].on)
  IN /\ task[t].pc = "closing"
     /\ IF stopped
          THEN link' = links /\ Returns(t) /\ UNCHANGED <<phase, current, attached, heard>>
          ELSE /\ AskOrCreate(t, task[t].initial, links, heard, t \in fresh)
               /\ UNCHANGED <<fresh, starting>>
     /\ UNCHANGED <<started, stopped, timer>>

Answer == Verdict \cup {"ready"}

\* Mutant: the probe's status is published for the phase.
ConcludesWithStatus(t, verdict) == phase' = verdict /\ UNCHANGED timer /\ Returns(t)

\* A verdict that is not "ready" ends a task.
Concludes(t, verdict) ==
  /\ IF verdict = "auth_failed" THEN phase' = "auth_failed" /\ UNCHANGED timer
                                ELSE ScheduleReconnect
  /\ Returns(t)

\* The probe of an initial connection is answered.
Asked(t, answer) ==
  /\ task[t].pc = "asking"
  /\ IF ~Valid(t) THEN Returns(t) /\ UNCHANGED <<phase, timer, wiring>>
     ELSE IF answer = "ready"
            THEN Create(t, link, heard, TRUE) /\ UNCHANGED <<timer, fresh, starting>>
            ELSE Concludes(t, answer) /\ UNCHANGED wiring
  /\ UNCHANGED <<started, stopped>>

\* The probe of a reconnect is answered.
Probed(t, answer) ==
  /\ task[t].pc = "probing"
  /\ IF ~Valid(t) THEN Returns(t) /\ UNCHANGED <<phase, timer>>
     ELSE IF answer = "ready"
            THEN Becomes(t, Waits("preparing", None)) /\ UNCHANGED <<phase, timer, fresh, starting>>
            ELSE Concludes(t, answer)
  /\ UNCHANGED <<started, stopped, wiring>>

\* onBeforeReconnect is done.
Prepared(t) ==
  /\ task[t].pc = "preparing"
  /\ IF Valid(t) THEN EstablishConnection(t, FALSE) /\ UNCHANGED starting
                 ELSE Returns(t) /\ UNCHANGED <<phase, timer, wiring>>
  /\ UNCHANGED <<started, stopped>>

\* The rejected transport is destroyed.
Rejected(t) ==
  /\ task[t].pc = "rejecting"
  /\ link' = Disconnected(task[t].on)
  /\ IF Valid(t) THEN Concludes(t, task[t].verdict)
                 ELSE Returns(t) /\ UNCHANGED <<phase, timer>>
  /\ UNCHANGED <<started, stopped, current, attached, heard>>

\* onDisconnected is done.
LossHandled(t) ==
  /\ task[t].pc = "losing"
  /\ IF Valid(t) /\ phase # "auth_failed" THEN ScheduleReconnect
                                          ELSE UNCHANGED <<phase, timer>>
  /\ Returns(t)
  /\ UNCHANGED <<started, stopped, wiring>>

StopReturns(t) ==
  /\ task[t].pc = "stopping"
  /\ link' = Disconnected(task[t].on)
  /\ Returns(t)
  /\ UNCHANGED <<mode, timer, current, attached, heard>>

-------------------------------------------------------------------------------
Resumes(t) ==
  \/ Closed(t) \/ Prepared(t) \/ Rejected(t) \/ LossHandled(t) \/ StopReturns(t)
  \/ \E answer \in Answer : Asked(t, answer) \/ Probed(t, answer)
  \/ Dials(t) \/ \E verdict \in Verdict : DialThrows(t, verdict)

Event(x) == \/ Connects(x)
            \/ \E t \in Task : Disconnects(x, t) \/ \E verdict \in Verdict : Errs(x, t, verdict)

Next ==
  \/ \E t \in Task : \/ Start(t) \/ Stop(t) \/ TimerFires(t)
                     \/ \E verdict \in Verdict : ReportProbeResult(t, verdict)
                     \/ Resumes(t)
  \/ \E x \in Transport : Event(x)

Spec == Init /\ [][Next]_vars

-------------------------------------------------------------------------------
(* Properties *)

\* Whatever was waiting when the supervisor was stopped (the probe of a
\* reconnect, a dial that fails, a clean-up) publishes no phase and opens no
\* transport when it resumes.
StopIsFinal ==
  [][stopped /\ stopped' => phase' = phase /\ current' = None]_vars

\* A supervisor that is offline and was not stopped is about to try again,
\* however probes, reports, losses and restarts overtook each other: the retry
\* timer is set, or a function that is still valid is on its way.
NeverStranded ==
  started /\ ~stopped /\ phase = "offline" => timer \/ fresh # {}
===============================================================================
