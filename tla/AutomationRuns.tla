---------------------------- MODULE AutomationRuns ----------------------------
(***************************************************************************)
(* One automation, its runs in the server's database, and the daemons of   *)
(* the account's machines that claim and execute them.                     *)
(*                                                                         *)
(* Every server handler is one transaction and so one action.  A daemon    *)
(* waits for the answer of each request; the request may be lost, its      *)
(* answer may be lost, and a request the daemon gave up on may still be    *)
(* handled later.  A daemon holds a claim as long as its heartbeats renew  *)
(* the lease; once a lease has lapsed any assigned machine may claim the   *)
(* run again.                                                              *)
(*                                                                         *)
(* Time is kept only as far as the handlers compare it: a queued run is    *)
(* due or not yet, a lease is live or has lapsed.  A new schedule moves    *)
(* the due time of a waiting run, which leaves it waiting.  Schedules are  *)
(* computable, as the validation of every input requires.  The template    *)
(* and the displayed nextRunAt, which no handler reads, are left out.      *)
(***************************************************************************)
EXTENDS Integers, FiniteSets

CONSTANTS
  Machine,     \* machines with a daemon
  Run,         \* identifiers of runs; those without a row are used again
  Nobody,      \* no machine
  MaxFaults    \* bound: losses, time-outs, crashes and stalls together

ASSUME NobodyIsFresh == Nobody \notin Machine \cup Run
ASSUME MaxFaultsIsNat == MaxFaults \in Nat

VARIABLES
  exists, enabled,  \* the automation, and whether it is switched on
  assigned,         \* machines with an enabled assignment
  state,            \* AutomationRun.state, "none" without a row
  due,              \* runs whose dueAt has come
  claimedBy,        \* AutomationRun.claimedByMachineId
  live,             \* runs whose leaseExpiresAt is still to come
  worker,           \* what each daemon is doing
  wire,             \* requests under way
  executed,         \* history: runs whose work was done,
  repeated,         \*          done more than once,
  lapsed,           \*          and whose lease ran out
  faults

automation == <<exists, enabled, assigned>>
lease == <<claimedBy, live>>
history == <<executed, repeated, lapsed>>
daemons == <<worker, wire>>
vars == <<automation, state, due, lease, daemons, history, faults>>

Held == {"claimed", "running"}
Open == Held \cup {"queued"}
Terminal == {"succeeded", "failed", "cancelled"}

\* A daemon is idle, executes a run, or waits for the answer of a request.
Phase == {"idle", "start", "execute", "succeed", "fail"}
Job == [phase : Phase, run : Run \cup {Nobody}]
Idle == [phase |-> "idle", run |-> Nobody]
Doing(phase, r) == [phase |-> phase, run |-> r]
Request == [kind : {"start", "succeed", "fail"}, machine : Machine, run : Run]

\* The type of every variable.
TypeOK ==
  /\ exists \in BOOLEAN /\ enabled \in BOOLEAN
  /\ assigned \in SUBSET Machine
  /\ state \in [Run -> Open \cup Terminal \cup {"none"}]
  /\ due \in SUBSET Run /\ live \in SUBSET Run
  /\ claimedBy \in [Run -> Machine \cup {Nobody}]
  /\ worker \in [Machine -> Job]
  /\ wire \in SUBSET Request
  /\ executed \in SUBSET Run /\ repeated \in SUBSET Run /\ lapsed \in SUBSET Run
  /\ faults \in 0..MaxFaults

Init ==
  /\ exists = FALSE /\ enabled = FALSE /\ assigned = {}
  /\ state = [r \in Run |-> "none"]
  /\ due = {} /\ live = {}
  /\ claimedBy = [r \in Run |-> Nobody]
  /\ worker = [m \in Machine |-> Idle]
  /\ wire = {}
  /\ executed = {} /\ repeated = {} /\ lapsed = {}
  /\ faults = 0

Fault == faults < MaxFaults /\ faults' = faults + 1
NoFault == UNCHANGED faults

\* Identifiers a new row may take: unused, and known to no daemon or request.
Fresh == {r \in Run : /\ state[r] = "none"
                      /\ \A m \in Machine : worker[m].run # r
                      /\ \A q \in wire : q.run # r}

-------------------------------------------------------------------------------
(* Schedule *)

\* Mutant: the next run is queued beside an open one.
EnqueueNextAlways(rows) ==
  IF enabled'
    THEN \E r \in Fresh :
           /\ state' = [rows EXCEPT ![r] = "queued"]
           /\ due' = due \ {r}
    ELSE state' = rows /\ UNCHANGED due

\* The rows become `rows`; a run is queued for the schedule's next time if the
\* automation is now enabled and no run is open.
EnqueueNextIfMissing(rows) ==
  IF enabled' /\ \A r \in Run : rows[r] \notin Open
    THEN \E r \in Fresh :
           /\ state' = [rows EXCEPT ![r] = "queued"]
           /\ due' = due \ {r}
    ELSE state' = rows /\ UNCHANGED due

CreateAutomation(on, machines) ==
  /\ ~exists
  /\ exists' = TRUE /\ enabled' = on /\ assigned' = machines
  /\ EnqueueNextIfMissing(state)
  /\ UNCHANGED <<lease, daemons, history, faults>>

WithoutQueued == [r \in Run |-> IF state[r] = "queued" THEN "none" ELSE state[r]]

\* switch is the enabled field of the patch, "keep" if it has none.
UpdateAutomation(switch, machines) ==
  /\ exists
  /\ enabled' = (switch = "on" \/ (switch = "keep" /\ enabled))
  /\ assigned' = machines
  /\ EnqueueNextIfMissing(IF switch = "off" THEN WithoutQueued ELSE state)
  /\ UNCHANGED <<exists, lease, daemons, history, faults>>

DeleteAutomation ==
  /\ exists
  /\ exists' = FALSE /\ enabled' = FALSE /\ assigned' = {}
  /\ state' = [r \in Run |-> "none"]
  /\ claimedBy' = [r \in Run |-> Nobody]
  /\ due' = {} /\ live' = {}
  /\ executed' = {} /\ repeated' = {} /\ lapsed' = {}
  /\ UNCHANGED <<daemons, faults>>

\* An identifier is left for the schedule.
RunAutomationNow(r) ==
  /\ exists
  /\ r \in Fresh /\ Fresh # {r}
  /\ state' = [state EXCEPT ![r] = "queued"]
  /\ due' = due \cup {r}
  /\ UNCHANGED <<automation, lease, daemons, history, faults>>

BecomesDue(r) ==
  /\ state[r] = "queued" /\ r \notin due
  /\ due' = due \cup {r}
  /\ UNCHANGED <<automation, state, lease, daemons, history, faults>>

\* Mutant: cancelling forgets the follow-up.
CancelWithoutFollowUp(r) ==
  /\ state[r] \in Open
  /\ state' = [state EXCEPT ![r] = "cancelled"]
  /\ UNCHANGED <<automation, due, lease, daemons, history, faults>>

CancelAutomationRun(r) ==
  /\ state[r] \in Open
  /\ UNCHANGED automation
  /\ EnqueueNextIfMissing([state EXCEPT ![r] = "cancelled"])
  /\ UNCHANGED <<lease, daemons, history, faults>>

\* The retention of finished runs.
PruneRun(r) ==
  /\ state[r] \in Terminal
  /\ state' = [state EXCEPT ![r] = "none"]
  /\ claimedBy' = [claimedBy EXCEPT ![r] = Nobody]
  /\ due' = due \ {r} /\ live' = live \ {r}
  /\ executed' = executed \ {r} /\ repeated' = repeated \ {r} /\ lapsed' = lapsed \ {r}
  /\ UNCHANGED <<automation, daemons, faults>>

-------------------------------------------------------------------------------
(* Claims and leases *)

\* Mutant: a held run is claimed whatever its lease.
ClaimableUnderLease(r) == state[r] \in Open

\* Mutant: a run that was started is never claimed again.
ClaimableUntilStarted(r) ==
  \/ state[r] = "queued"
  \/ state[r] = "claimed" /\ r \notin live

IsRunClaimable(r) ==
  \/ state[r] = "queued"
  \/ state[r] \in Held /\ r \notin live

\* A daemon that hears of the claim goes on to start the run; a claim whose
\* daemon gave up waiting is left to its lease.
ClaimAutomationRun(m, r, heard) ==
  /\ enabled /\ m \in assigned
  /\ r \in due /\ IsRunClaimable(r)
  /\ state' = [state EXCEPT ![r] = "claimed"]
  /\ claimedBy' = [claimedBy EXCEPT ![r] = m]
  /\ live' = live \cup {r}
  /\ IF heard
       THEN /\ worker[m] = Idle
            /\ worker' = [worker EXCEPT ![m] = Doing("start", r)]
            /\ wire' = wire \cup {[kind |-> "start", machine |-> m, run |-> r]}
            /\ NoFault
       ELSE Fault /\ UNCHANGED daemons
  /\ UNCHANGED <<automation, due, history>>

\* Does the machine that holds r still work on it?
Attended(r) == claimedBy[r] \in Machine /\ worker[claimedBy[r]].run = r

\* Heartbeats keep the lease of a working daemon from lapsing, unless it stalls.
LeaseLapses(r) ==
  /\ state[r] \in Held /\ r \in live
  /\ live' = live \ {r}
  /\ lapsed' = lapsed \cup {r}
  /\ IF Attended(r) THEN Fault ELSE NoFault
  /\ UNCHANGED <<automation, state, due, claimedBy, daemons,
                 executed, repeated>>

HeartbeatAutomationRun(m, r) ==
  /\ worker[m].phase \notin {"idle", "start"} /\ worker[m].run = r
  /\ claimedBy[r] = m /\ state[r] \in Held
  /\ r \notin live
  /\ live' = live \cup {r}
  /\ UNCHANGED <<automation, state, due, claimedBy, daemons, history, faults>>

-------------------------------------------------------------------------------
(* Reports of a daemon *)

\* Mutant: a failure is recorded as an expiry.
OutcomeExpires(kind) == IF kind = "start" THEN "running"
                        ELSE IF kind = "succeed" THEN "succeeded" ELSE "expired"

Outcome(kind) == IF kind = "start" THEN "running"
                 ELSE IF kind = "succeed" THEN "succeeded" ELSE "failed"

\* Mutant: reports are accepted in any state.
AcceptedFromHolder(q) == claimedBy[q.run] = q.machine

\* Only the machine that holds the run is listened to, and only once.
Accepted(q) ==
  /\ claimedBy[q.run] = q.machine
  /\ state[q.run] \in IF q.kind = "start" THEN {"claimed"} ELSE Held

\* What the server does with a request.
Apply(q) ==
  /\ UNCHANGED automation
  /\ IF Accepted(q)
       THEN LET rows == [state EXCEPT ![q.run] = Outcome(q.kind)]
            IN IF q.kind = "start"
                 THEN state' = rows /\ UNCHANGED due
                 ELSE EnqueueNextIfMissing(rows)
       ELSE UNCHANGED <<state, due>>

\* The daemon takes up a phase; the reporting phases send their request, the
\* rest of the wire being `others`.
TakesUp(m, phase, r, others) ==
  /\ worker' = [worker EXCEPT ![m] = IF phase = "idle" THEN Idle ELSE Doing(phase, r)]
  /\ wire' = IF phase \in {"succeed", "fail"}
               THEN others \cup {[kind |-> phase, machine |-> m, run |-> r]}
               ELSE others

\* A refused or unanswered success is reported as a failure in the catch block.
After(kind, ok) ==
  IF kind = "start" /\ ok THEN "execute"
  ELSE IF kind = "succeed" /\ ~ok THEN "fail"
  ELSE "idle"

Waiting(q) == worker[q.machine] = Doing(q.kind, q.run)

Handle(q) ==
  /\ q \in wire
  /\ Apply(q)
  /\ IF Waiting(q)
       THEN TakesUp(q.machine, After(q.kind, Accepted(q)), q.run, wire \ {q})
       ELSE wire' = wire \ {q} /\ UNCHANGED worker
  /\ UNCHANGED <<lease, history, faults>>

\* The request is handled, but its answer never arrives.
HandleUnheard(q) ==
  /\ q \in wire /\ Waiting(q)
  /\ Fault
  /\ Apply(q)
  /\ wire' = wire \ {q}
  /\ UNCHANGED <<worker, lease, history>>

LoseRequest(q) ==
  /\ q \in wire
  /\ Fault
  /\ wire' = wire \ {q}
  /\ UNCHANGED <<automation, state, due, lease, worker, history>>

\* Is what the daemon waits for handled or lost?
Unanswerable(m) == \A q \in wire : q.machine = m => ~Waiting(q)

\* A daemon gives up on an answer; a slow request stays under way.
TimesOut(m) ==
  LET job == worker[m]
  IN /\ job.phase \in {"start", "succeed", "fail"}
     /\ IF Unanswerable(m) THEN NoFault ELSE Fault
     /\ TakesUp(m, After(job.phase, FALSE), job.run, wire)
     /\ UNCHANGED <<automation, state, due, lease, history>>

-------------------------------------------------------------------------------
(* Execution *)

\* Mutant: a failed spawn is reported as a success.
ExecuteReportsAnything(m, done, report) ==
  LET r == worker[m].run
      mine == IF done /\ state[r] # "none" THEN {r} ELSE {}
  IN /\ worker[m].phase = "execute"
     /\ executed' = executed \cup mine
     /\ repeated' = repeated \cup (mine \cap executed)
     /\ TakesUp(m, report, r, wire)
     /\ UNCHANGED <<automation, state, due, lease, lapsed, faults>>

\* The session is spawned and the prompt handed over, or not; a failure may
\* also come after the prompt was queued.
ExecuteClaimedRun(m, done, report) ==
  LET r == worker[m].run
      mine == IF done /\ state[r] # "none" THEN {r} ELSE {}
  IN /\ worker[m].phase = "execute"
     /\ done \/ report = "fail"
     /\ executed' = executed \cup mine
     /\ repeated' = repeated \cup (mine \cap executed)
     /\ TakesUp(m, report, r, wire)
     /\ UNCHANGED <<automation, state, due, lease, lapsed, faults>>

\* The daemon dies and is started again; its requests may still be under way.
DaemonRestarts(m) ==
  /\ worker[m] # Idle
  /\ Fault
  /\ worker' = [worker EXCEPT ![m] = Idle]
  /\ UNCHANGED <<automation, state, due, lease, wire, history>>

-------------------------------------------------------------------------------
Executes(m) == \E done \in BOOLEAN, report \in {"succeed", "fail"} :
                 ExecuteClaimedRun(m, done, report)

Next ==
  \/ \E on \in BOOLEAN, ms \in SUBSET Machine : CreateAutomation(on, ms)
  \/ \E switch \in {"keep", "on", "off"}, ms \in SUBSET Machine :
       UpdateAutomation(switch, ms)
  \/ DeleteAutomation
  \/ \E r \in Run : \/ RunAutomationNow(r)
                    \/ BecomesDue(r)
                    \/ CancelAutomationRun(r)
                    \/ PruneRun(r)
                    \/ LeaseLapses(r)
                    \/ \E m \in Machine : \/ \E heard \in BOOLEAN : ClaimAutomationRun(m, r, heard)
                                          \/ HeartbeatAutomationRun(m, r)
  \/ \E q \in wire : Handle(q) \/ HandleUnheard(q) \/ LoseRequest(q)
  \/ \E m \in Machine : TimesOut(m) \/ Executes(m) \/ DaemonRestarts(m)

Spec == Init /\ [][Next]_vars

\* Time passes, daemons poll and work, requests arrive.  A claim takes the run
\* that is due longest, so no run is passed over for ever: strong fairness.
Fairness ==
  /\ \A r \in Run : /\ WF_vars(BecomesDue(r))
                    /\ WF_vars(LeaseLapses(r) /\ ~Attended(r))
                    /\ WF_vars(PruneRun(r))
  /\ \A m \in Machine : /\ WF_vars(TimesOut(m) /\ Unanswerable(m))
                        /\ WF_vars(Executes(m))
                        /\ \A r \in Run : SF_vars(ClaimAutomationRun(m, r, TRUE))
  /\ \A q \in Request : WF_vars(Handle(q))

FairSpec == Spec /\ Fairness

-------------------------------------------------------------------------------
(* Properties *)

\* An automation that is switched on always has an open run: pausing, resuming,
\* cancelling, edits, failures and late reports never end its schedule
\* (enqueueNextScheduledRunIfMissingTx at every transition).
ScheduleNeverStops ==
  exists /\ enabled => \E r \in Run : state[r] \in Open

\* The schedule queues one run at a time: a second one cannot wait beside it,
\* whatever runs the user asks for in between.
OneRunAhead ==
  \A r, s \in Run : state[r] = "queued" /\ state[s] = "queued" /\ r \notin due
                      /\ s \notin due => r = s

\* A run is executed again only after its lease ran out under a claim: as long
\* as leases are kept, no loss, retry or late report repeats the work
\* (isRunClaimableState, tryClaimRun).
RepeatedOnlyAfterLapse == repeated \subseteq lapsed

\* A run that ended keeps its outcome until it is pruned: late reports of an
\* earlier claim, and the failure a daemon reports when it missed the answer
\* to its success, change nothing.
OutcomeIsFinal ==
  [][\A r \in Run : state[r] \in Terminal => state'[r] \in {state[r], "none"}]_vars

\* A success was earned: the work of a run that ended well was done.
SuccessWasExecuted == \A r \in Run : state[r] = "succeeded" => r \in executed

\* While the automation stays on and a machine stays assigned to it, every run
\* comes to an end: daemons that died, requests that were lost and leases left
\* behind do not leave it open.
EveryRunSettles ==
  \A m \in Machine : <>[](enabled /\ m \in assigned)
                       => \A r \in Run : state[r] \in Open ~> state[r] \notin Open
===============================================================================
