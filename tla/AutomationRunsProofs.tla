------------------------- MODULE AutomationRunsProofs -------------------------
(***************************************************************************)
(* Theorems about AutomationRuns, for any number of machines, runs and     *)
(* faults.                                                                 *)
(***************************************************************************)
EXTENDS AutomationRuns, TLAPS

RowState == Open \cup Terminal \cup {"none"}

\* A daemon that is not idle has a run.
JobInv == \A m \in Machine : worker[m].phase # "idle" => worker[m].run \in Run

TypeInv == TypeOK /\ JobInv
-------------------------------------------------------------------------------
(* What the shared steps do *)

\* enqueueNextScheduledRunIfMissingTx adds at most one run, to rows without an
\* open one, and leaves an open one if the automation is enabled.
LEMMA EnqueueFacts ==
  ASSUME TypeOK, NEW rows \in [Run -> RowState], EnqueueNextIfMissing(rows)
  PROVE  /\ state' \in [Run -> RowState] /\ due' \in SUBSET due
         /\ \A r \in Run : \/ state'[r] = rows[r] /\ (r \in due => r \in due' \/ r \in Fresh)
                           \/ /\ r \in Fresh /\ state'[r] = "queued" /\ r \notin due'
                              /\ \A s \in Run : rows[s] \notin Open
         /\ enabled' => \E r \in Run : state'[r] \in Open
         /\ (\A s \in Run : rows[s] \notin Open) =>
              \A r, s \in Run : state'[r] = "queued" /\ state'[s] = "queued" => r = s
         /\ (\E s \in Run : rows[s] \in Open) => state' = rows /\ due' = due
<1> Fresh \subseteq Run
  BY DEF Fresh
<1> due \subseteq Run
  BY DEF TypeOK
<1>1. CASE enabled' /\ \A r \in Run : rows[r] \notin Open
  <2>1. PICK n \in Fresh : state' = [rows EXCEPT ![n] = "queued"] /\ due' = due \ {n}
    BY <1>1 DEF EnqueueNextIfMissing
  <2>2. state'[n] = "queued" /\ \A r \in Run \ {n} : state'[r] = rows[r]
    BY <2>1
  <2>3. \A r \in Run \ {n} : state'[r] # "queued"
    BY <2>2, <1>1 DEF Open
  <2> QED BY <1>1, <2>1, <2>2, <2>3 DEF RowState, Open
<1>2. CASE ~(enabled' /\ \A r \in Run : rows[r] \notin Open)
  <2>1. state' = rows /\ due' = due
    BY <1>2 DEF EnqueueNextIfMissing
  <2>2. (\A s \in Run : rows[s] \notin Open) =>
          \A r \in Run : state'[r] # "queued"
    BY <2>1 DEF Open
  <2> QED BY <1>2, <2>1, <2>2
<1> QED BY <1>1, <1>2

LEMMA OutcomeIsState == \A kind \in {"start", "succeed", "fail"} : Outcome(kind) \in RowState \ {"none", "queued"}
BY DEF Outcome, RowState, Open, Held, Terminal

\* A report changes only the run it is about, and queues at most the next one.
LEMMA ApplyFacts ==
  ASSUME TypeOK, NEW q \in wire, Apply(q)
  PROVE  /\ state' \in [Run -> RowState] /\ due' \in SUBSET due
         /\ \A r \in Run : \/ state'[r] = state[r]
                           \/ r = q.run /\ Accepted(q) /\ state'[r] = Outcome(q.kind)
                           \/ r \in Fresh /\ state'[r] = "queued"
         /\ \A r \in Run : state'[r] # "queued" \/ r \in Fresh \/ state[r] = "queued"
<1>1. q \in Request /\ state \in [Run -> RowState] /\ enabled \in BOOLEAN
  BY DEF TypeOK, RowState
<1>2. CASE Accepted(q)
  <2> DEFINE rows == [state EXCEPT ![q.run] = Outcome(q.kind)]
  <2>1. /\ rows \in [Run -> RowState]
        /\ \A r \in Run : rows[r] = IF r = q.run THEN Outcome(q.kind) ELSE state[r]
        /\ rows[q.run] # "queued"
    BY <1>1, OutcomeIsState DEF Request
  <2>2. CASE q.kind = "start"
    BY <2>1, <2>2, <1>2 DEF Apply, TypeOK
  <2>3. CASE q.kind # "start"
    <3>1. EnqueueNextIfMissing(rows) /\ enabled' \in BOOLEAN
      BY <1>1, <1>2, <2>3 DEF Apply, automation
    <3> HIDE DEF rows
    <3> QED BY <2>1, <3>1, <1>2, EnqueueFacts
  <2> QED BY <2>2, <2>3
<1>3. CASE ~ Accepted(q)
  BY <1>1, <1>3 DEF Apply, TypeOK
<1> QED BY <1>2, <1>3

\* A daemon that takes up a phase keeps its run, and sends no more than the
\* report of that phase.
LEMMA TakesUpFacts ==
  ASSUME TypeInv, NEW m \in Machine, NEW phase \in Phase, NEW r \in Run,
         NEW others \in SUBSET wire, TakesUp(m, phase, r, others)
  PROVE  /\ worker' \in [Machine -> Job] /\ wire' \in SUBSET Request
         /\ \A n \in Machine \ {m} : worker'[n] = worker[n]
         /\ worker'[m] = IF phase = "idle" THEN Idle ELSE Doing(phase, r)
         /\ wire' \subseteq others \cup {[kind |-> phase, machine |-> m, run |-> r]}
         /\ phase \notin {"succeed", "fail"} => wire' = others
         /\ worker'[m].phase # "idle" => worker'[m].run \in Run
<1>1. Idle \in Job /\ Doing(phase, r) \in Job /\ Idle.phase = "idle" /\ Doing(phase, r).run = r
  BY DEF Idle, Doing, Job, Phase
<1>2. /\ worker \in [Machine -> Job] /\ others \in SUBSET Request
      /\ phase \in {"succeed", "fail"} => [kind |-> phase, machine |-> m, run |-> r] \in Request
  BY DEF TypeInv, TypeOK, Request
<1>3. /\ worker' = [worker EXCEPT ![m] = IF phase = "idle" THEN Idle ELSE Doing(phase, r)]
      /\ wire' = IF phase \in {"succeed", "fail"}
                   THEN others \cup {[kind |-> phase, machine |-> m, run |-> r]}
                   ELSE others
  BY DEF TakesUp
<1> QED BY <1>1, <1>2, <1>3

LEMMA AfterIsPhase == \A kind \in Phase, ok \in BOOLEAN : After(kind, ok) \in Phase
BY DEF After, Phase
-------------------------------------------------------------------------------
(* Types *)

LEMMA InitType == Init => TypeInv
<1> SUFFICES ASSUME Init PROVE TypeInv
  OBVIOUS
<1>1. Idle \in Job /\ Idle.phase = "idle"
  BY DEF Idle, Job, Phase
<1>2. TypeOK
  <2>1. state \in [Run -> Open \cup Terminal \cup {"none"}] /\ claimedBy \in [Run -> Machine \cup {Nobody}]
    BY DEF Init
  <2>2. worker \in [Machine -> Job]
    BY <1>1 DEF Init
  <2>3. faults \in 0..MaxFaults
    BY MaxFaultsIsNat DEF Init
  <2> QED BY <2>1, <2>2, <2>3 DEF Init, TypeOK
<1>3. JobInv
  BY <1>1 DEF Init, JobInv
<1> QED BY <1>2, <1>3 DEF TypeInv

LEMMA NextType == TypeInv /\ [Next]_vars => TypeInv'
<1> SUFFICES ASSUME TypeInv, [Next]_vars PROVE TypeInv'
  OBVIOUS
<1>0. /\ TypeOK /\ JobInv /\ state \in [Run -> RowState] /\ enabled \in BOOLEAN /\ MaxFaults \in Nat
      /\ RowState = Open \cup Terminal \cup {"none"}
  BY MaxFaultsIsNat DEF TypeInv, TypeOK, RowState
<1>f. Fault \/ NoFault => faults' \in 0..MaxFaults
  BY <1>0 DEF TypeOK, Fault, NoFault
<1> USE <1>0
<1>1. ASSUME NEW on \in BOOLEAN, NEW ms \in SUBSET Machine, CreateAutomation(on, ms) PROVE TypeInv'
  <2>1. EnqueueNextIfMissing(state)
    BY <1>1 DEF CreateAutomation
  <2>2. state' \in [Run -> RowState] /\ due' \in SUBSET due
    BY <2>1, EnqueueFacts
  <2> QED BY <1>1, <2>2 DEF CreateAutomation, lease, daemons, history, TypeInv, TypeOK, JobInv
<1>2. ASSUME NEW switch \in {"keep", "on", "off"}, NEW ms \in SUBSET Machine, UpdateAutomation(switch, ms)
      PROVE TypeInv'
  <2> DEFINE rows == IF switch = "off" THEN WithoutQueued ELSE state
  <2>1. EnqueueNextIfMissing(rows) /\ rows \in [Run -> RowState]
    BY <1>2 DEF UpdateAutomation, WithoutQueued
  <2> HIDE DEF rows
  <2>2. state' \in [Run -> RowState] /\ due' \in SUBSET due
    BY <2>1, EnqueueFacts
  <2> QED BY <1>2, <2>2 DEF UpdateAutomation, lease, daemons, history, TypeInv, TypeOK, JobInv
<1>3. ASSUME DeleteAutomation PROVE TypeInv'
  BY <1>3 DEF DeleteAutomation, daemons, TypeInv, TypeOK, JobInv
<1>4. ASSUME NEW r \in Run, RunAutomationNow(r) PROVE TypeInv'
  <2>1. state' \in [Run -> RowState]
    BY <1>4 DEF RunAutomationNow, Open
  <2> QED BY <1>4, <2>1 DEF RunAutomationNow, automation, lease, daemons, history, TypeInv, TypeOK, JobInv
<1>5. ASSUME NEW r \in Run, BecomesDue(r) PROVE TypeInv'
  BY <1>5 DEF BecomesDue, automation, lease, daemons, history, TypeInv, TypeOK, JobInv
<1>6. ASSUME NEW r \in Run, CancelAutomationRun(r) PROVE TypeInv'
  <2> DEFINE rows == [state EXCEPT ![r] = "cancelled"]
  <2>1. EnqueueNextIfMissing(rows) /\ rows \in [Run -> RowState]
    BY <1>6 DEF CancelAutomationRun, Terminal
  <2> HIDE DEF rows
  <2>2. state' \in [Run -> RowState] /\ due' \in SUBSET due
    BY <2>1, EnqueueFacts
  <2> QED BY <1>6, <2>2 DEF CancelAutomationRun, automation, lease, daemons, history, TypeInv, TypeOK, JobInv
<1>7. ASSUME NEW r \in Run, PruneRun(r) PROVE TypeInv'
  <2>1. state' \in [Run -> RowState]
    BY <1>7 DEF PruneRun
  <2> QED BY <1>7, <2>1 DEF PruneRun, automation, daemons, TypeInv, TypeOK, JobInv
<1>8. ASSUME NEW r \in Run, LeaseLapses(r) PROVE TypeInv'
  BY <1>8, <1>f DEF LeaseLapses, automation, daemons, TypeInv, TypeOK, JobInv
<1>9. ASSUME NEW m \in Machine, NEW r \in Run, NEW heard \in BOOLEAN, ClaimAutomationRun(m, r, heard)
      PROVE TypeInv'
  <2>1. state' \in [Run -> RowState] /\ faults' \in 0..MaxFaults
    BY <1>9, <1>f DEF ClaimAutomationRun, Open, Held
  <2>2. Doing("start", r) \in Job /\ Doing("start", r).run \in Run
    BY DEF Doing, Job, Phase
  <2>3. [kind |-> "start", machine |-> m, run |-> r] \in Request
    BY DEF Request
  <2>4. worker' \in [Machine -> Job] /\ wire' \in SUBSET Request /\ JobInv'
    <3>1. CASE heard
      BY <1>9, <3>1, <2>2, <2>3 DEF ClaimAutomationRun, TypeOK, JobInv
    <3>2. CASE ~ heard
      BY <1>9, <3>2 DEF ClaimAutomationRun, daemons, TypeOK, JobInv
    <3> QED BY <3>1, <3>2
  <2> QED BY <1>9, <2>1, <2>4 DEF ClaimAutomationRun, automation, history, TypeInv, TypeOK
<1>10. ASSUME NEW m \in Machine, NEW r \in Run, HeartbeatAutomationRun(m, r) PROVE TypeInv'
  BY <1>10 DEF HeartbeatAutomationRun, automation, daemons, history, TypeInv, TypeOK, JobInv
<1>11. ASSUME NEW q \in wire, Handle(q) PROVE TypeInv'
  <2>1. /\ q \in Request /\ q.machine \in Machine /\ q.run \in Run /\ q.kind \in Phase
        /\ Accepted(q) \in BOOLEAN /\ UNCHANGED automation
    BY <1>11 DEF TypeOK, Request, Phase, Accepted, Handle, Apply
  <2>2. state' \in [Run -> RowState] /\ due' \in SUBSET due
    BY <1>11, ApplyFacts DEF Handle
  <2>3. worker' \in [Machine -> Job] /\ wire' \in SUBSET Request /\ JobInv'
    <3>1. CASE Waiting(q)
      <4>1. TakesUp(q.machine, After(q.kind, Accepted(q)), q.run, wire \ {q})
        BY <1>11, <3>1 DEF Handle
      <4> DEFINE phase == After(q.kind, Accepted(q))
      <4>2. phase \in Phase
        BY <2>1, AfterIsPhase
      <4> HIDE DEF phase
      <4> QED BY <4>1, <4>2, <2>1, TakesUpFacts DEF JobInv, phase
    <3>2. CASE ~ Waiting(q)
      BY <1>11, <3>2 DEF Handle, TypeOK, JobInv
    <3> QED BY <3>1, <3>2
  <2> QED BY <1>11, <2>1, <2>2, <2>3 DEF Handle, automation, lease, history, TypeInv, TypeOK
<1>12. ASSUME NEW q \in wire, HandleUnheard(q) PROVE TypeInv'
  <2>1. state' \in [Run -> RowState] /\ due' \in SUBSET due /\ UNCHANGED automation
    BY <1>12, ApplyFacts DEF HandleUnheard, Apply
  <2> QED BY <1>12, <2>1, <1>f DEF HandleUnheard, automation, lease, history, TypeInv, TypeOK, JobInv
<1>13. ASSUME NEW q \in wire, LoseRequest(q) PROVE TypeInv'
  BY <1>13, <1>f DEF LoseRequest, automation, lease, history, TypeInv, TypeOK, JobInv
<1>14. ASSUME NEW m \in Machine, TimesOut(m) PROVE TypeInv'
  <2> DEFINE job == worker[m]
             phase == After(job.phase, FALSE)
  <2>1. job.phase \in Phase /\ job.run \in Run /\ phase \in Phase
    BY <1>14, AfterIsPhase DEF TimesOut, TypeOK, JobInv, Phase
  <2>2. TakesUp(m, phase, job.run, wire)
    BY <1>14 DEF TimesOut
  <2> HIDE DEF job, phase
  <2>3. worker' \in [Machine -> Job] /\ wire' \in SUBSET Request /\ JobInv'
    BY <2>1, <2>2, TakesUpFacts DEF JobInv
  <2> QED BY <1>14, <2>3, <1>f DEF TimesOut, automation, lease, history, TypeInv, TypeOK
<1>15. ASSUME NEW m \in Machine, NEW done \in BOOLEAN, NEW report \in {"succeed", "fail"},
              ExecuteClaimedRun(m, done, report)
       PROVE TypeInv'
  <2> DEFINE r == worker[m].run
  <2>1. r \in Run /\ report \in Phase
    BY <1>15 DEF ExecuteClaimedRun, JobInv, Phase
  <2>2. TakesUp(m, report, r, wire)
    BY <1>15 DEF ExecuteClaimedRun
  <2>3. executed' \in SUBSET Run /\ repeated' \in SUBSET Run
    BY <1>15, <2>1 DEF ExecuteClaimedRun, TypeOK
  <2> HIDE DEF r
  <2>4. worker' \in [Machine -> Job] /\ wire' \in SUBSET Request /\ JobInv'
    BY <2>1, <2>2, TakesUpFacts DEF JobInv
  <2> QED BY <1>15, <2>3, <2>4 DEF ExecuteClaimedRun, automation, lease, TypeInv, TypeOK
<1>16. ASSUME NEW m \in Machine, DaemonRestarts(m) PROVE TypeInv'
  <2>1. Idle \in Job /\ Idle.phase = "idle"
    BY DEF Idle, Job, Phase
  <2> QED BY <1>16, <2>1, <1>f DEF DaemonRestarts, automation, lease, history, TypeInv, TypeOK, JobInv
<1>17. CASE UNCHANGED vars
  BY <1>17 DEF vars, automation, lease, daemons, history, TypeInv, TypeOK, JobInv
<1> QED
  BY <1>1, <1>2, <1>3, <1>4, <1>5, <1>6, <1>7, <1>8, <1>9, <1>10, <1>11, <1>12, <1>13, <1>14,
     <1>15, <1>16, <1>17 DEF Next, Executes

\* Every variable keeps its type, for any number of machines and runs.
THEOREM TypeCorrect == Spec => []TypeOK
<1>1. TypeInv => TypeOK
  BY DEF TypeInv
<1> QED BY <1>1, InitType, NextType, PTL DEF Spec
-------------------------------------------------------------------------------
(* Outcomes *)

\* Of a run that ended, only its pruning and the deletion of the automation
\* change the state.
LEMMA NextKeepsOutcomes ==
  ASSUME TypeInv, Next, NEW r \in Run, state[r] \in Terminal
  PROVE  state'[r] \in {state[r], "none"}
<1>0. /\ TypeOK /\ state \in [Run -> RowState] /\ enabled' \in BOOLEAN
      /\ state[r] \notin Open /\ r \notin Fresh
  <2>1. TypeInv'
    BY NextType
  <2> QED BY <2>1 DEF TypeInv, TypeOK, RowState, Open, Held, Terminal, Fresh
<1>1. ASSUME NEW on \in BOOLEAN, NEW ms \in SUBSET Machine, CreateAutomation(on, ms)
      PROVE state'[r] = state[r]
  BY <1>0, <1>1, EnqueueFacts DEF CreateAutomation
<1>2. ASSUME NEW switch \in {"keep", "on", "off"}, NEW ms \in SUBSET Machine, UpdateAutomation(switch, ms)
      PROVE state'[r] = state[r]
  <2> DEFINE rows == IF switch = "off" THEN WithoutQueued ELSE state
  <2>1. EnqueueNextIfMissing(rows) /\ rows \in [Run -> RowState] /\ rows[r] = state[r]
    BY <1>0, <1>2 DEF UpdateAutomation, WithoutQueued, RowState, Open
  <2> HIDE DEF rows
  <2> QED BY <1>0, <2>1, EnqueueFacts
<1>3. ASSUME NEW s \in Run, CancelAutomationRun(s) PROVE state'[r] = state[r]
  <2> DEFINE rows == [state EXCEPT ![s] = "cancelled"]
  <2>1. EnqueueNextIfMissing(rows) /\ rows \in [Run -> RowState] /\ rows[r] = state[r]
    BY <1>0, <1>3 DEF CancelAutomationRun, RowState, Terminal
  <2> HIDE DEF rows
  <2> QED BY <1>0, <2>1, EnqueueFacts
<1>4. ASSUME NEW s \in Run, NEW m \in Machine, NEW heard \in BOOLEAN, ClaimAutomationRun(m, s, heard)
      PROVE state'[r] = state[r]
  BY <1>0, <1>4 DEF ClaimAutomationRun, IsRunClaimable, Open
<1>5. ASSUME NEW q \in wire, Apply(q) PROVE state'[r] = state[r]
  <2>1. Accepted(q) => state[q.run] \in Open
    BY DEF Accepted, Open, Held
  <2> QED BY <1>0, <1>5, <2>1, ApplyFacts
<1>6. ASSUME NEW q \in wire, Handle(q) \/ HandleUnheard(q) \/ LoseRequest(q) PROVE state'[r] = state[r]
  BY <1>5, <1>6 DEF Handle, HandleUnheard, LoseRequest
<1>7. ASSUME NEW s \in Run, RunAutomationNow(s) PROVE state'[r] = state[r]
  BY <1>0, <1>7 DEF RunAutomationNow
<1>8. ASSUME NEW s \in Run, PruneRun(s) PROVE state'[r] \in {state[r], "none"}
  BY <1>0, <1>8 DEF PruneRun
<1>9. ASSUME NEW s \in Run, BecomesDue(s) \/ LeaseLapses(s) PROVE state'[r] = state[r]
  BY <1>9 DEF BecomesDue, LeaseLapses
<1>10. ASSUME NEW m \in Machine, Executes(m) PROVE state'[r] = state[r]
  BY <1>10 DEF Executes, ExecuteClaimedRun
<1>11. ASSUME DeleteAutomation PROVE state'[r] = "none"
  BY <1>11 DEF DeleteAutomation
<1>12. ASSUME NEW m \in Machine, TimesOut(m) \/ DaemonRestarts(m) PROVE state'[r] = state[r]
  BY <1>12 DEF TimesOut, DaemonRestarts
<1>13. ASSUME NEW s \in Run, NEW m \in Machine, HeartbeatAutomationRun(m, s) PROVE state'[r] = state[r]
  BY <1>13 DEF HeartbeatAutomationRun
<1> QED
  BY <1>1, <1>2, <1>3, <1>4, <1>6, <1>7, <1>8, <1>9, <1>10, <1>11, <1>12, <1>13 DEF Next

\* For any machines and runs, no lost, late or repeated report changes the
\* outcome of a run that ended.
THEOREM OutcomesAreFinal == Spec => OutcomeIsFinal
<1>1. TypeInv /\ [Next]_vars =>
        [\A r \in Run : state[r] \in Terminal => state'[r] \in {state[r], "none"}]_vars
  BY NextKeepsOutcomes
<1> QED BY <1>1, InitType, NextType, PTL DEF Spec, OutcomeIsFinal
-------------------------------------------------------------------------------
(* The schedule *)

ScheduleInv == ScheduleNeverStops /\ OneRunAhead

\* Queuing the next run restores the schedule.
LEMMA EnqueueKeepsSchedule ==
  ASSUME TypeOK, OneRunAhead, NEW rows \in [Run -> RowState], enabled' \in BOOLEAN,
         \A r \in Run : rows[r] = "queued" => state[r] = "queued",
         EnqueueNextIfMissing(rows)
  PROVE  ScheduleInv'
<1>1. enabled' => \E r \in Run : state'[r] \in Open
  BY EnqueueFacts
<1>2. CASE \E r \in Run : rows[r] \in Open
  <2>1. state' = rows /\ due' = due
    BY <1>2, EnqueueFacts
  <2> QED BY <1>1, <2>1 DEF ScheduleInv, ScheduleNeverStops, OneRunAhead
<1>3. CASE \A r \in Run : rows[r] \notin Open
  <2>1. \A r, s \in Run : state'[r] = "queued" /\ state'[s] = "queued" => r = s
    BY <1>3, EnqueueFacts
  <2> QED BY <1>1, <2>1 DEF ScheduleInv, ScheduleNeverStops, OneRunAhead
<1> QED BY <1>2, <1>3

LEMMA ApplyKeepsSchedule ==
  ASSUME TypeOK, ScheduleInv, NEW q \in wire, Apply(q)
  PROVE  ScheduleInv'
<1>1. q \in Request /\ state \in [Run -> RowState] /\ enabled' \in BOOLEAN
  BY DEF TypeOK, RowState, Apply, automation
<1>2. CASE Accepted(q)
  <2> DEFINE rows == [state EXCEPT ![q.run] = Outcome(q.kind)]
  <2>1. /\ rows \in [Run -> RowState]
        /\ \A r \in Run : rows[r] = "queued" => state[r] = "queued"
    BY <1>1, OutcomeIsState DEF Request
  <2>2. CASE q.kind = "start"
    <3>1. state' = rows /\ due' = due /\ rows[q.run] \in Open /\ q.run \in Run
      BY <1>1, <1>2, <2>2 DEF Apply, Outcome, Open, Held, Request
    <3> QED BY <2>1, <3>1 DEF ScheduleInv, ScheduleNeverStops, OneRunAhead
  <2>3. CASE q.kind # "start"
    <3>1. EnqueueNextIfMissing(rows)
      BY <1>2, <2>3 DEF Apply
    <3> HIDE DEF rows
    <3> QED BY <1>1, <2>1, <3>1, EnqueueKeepsSchedule DEF ScheduleInv
  <2> QED BY <2>2, <2>3
<1>3. CASE ~ Accepted(q)
  BY <1>3 DEF Apply, automation, ScheduleInv, ScheduleNeverStops, OneRunAhead
<1> QED BY <1>2, <1>3

LEMMA InitSchedule == Init => ScheduleInv
BY DEF Init, ScheduleInv, ScheduleNeverStops, OneRunAhead

LEMMA NextSchedule == TypeInv /\ ScheduleInv /\ [Next]_vars => ScheduleInv'
<1> SUFFICES ASSUME TypeInv, ScheduleInv, [Next]_vars PROVE ScheduleInv'
  OBVIOUS
<1>0. TypeOK /\ state \in [Run -> RowState] /\ OneRunAhead /\ enabled' \in BOOLEAN
  <2>1. TypeInv'
    BY NextType
  <2> QED BY <2>1 DEF TypeInv, TypeOK, RowState, ScheduleInv
<1>1. ASSUME NEW on \in BOOLEAN, NEW ms \in SUBSET Machine, CreateAutomation(on, ms) PROVE ScheduleInv'
  BY <1>0, <1>1, EnqueueKeepsSchedule DEF CreateAutomation
<1>2. ASSUME NEW switch \in {"keep", "on", "off"}, NEW ms \in SUBSET Machine, UpdateAutomation(switch, ms)
      PROVE ScheduleInv'
  <2> DEFINE rows == IF switch = "off" THEN WithoutQueued ELSE state
  <2>1. /\ EnqueueNextIfMissing(rows) /\ rows \in [Run -> RowState]
        /\ \A r \in Run : rows[r] = "queued" => state[r] = "queued"
    BY <1>0, <1>2 DEF UpdateAutomation, WithoutQueued, RowState
  <2> HIDE DEF rows
  <2> QED BY <1>0, <2>1, EnqueueKeepsSchedule
<1>3. ASSUME NEW r \in Run, CancelAutomationRun(r) PROVE ScheduleInv'
  <2> DEFINE rows == [state EXCEPT ![r] = "cancelled"]
  <2>1. /\ EnqueueNextIfMissing(rows) /\ rows \in [Run -> RowState]
        /\ \A s \in Run : rows[s] = "queued" => state[s] = "queued"
    BY <1>0, <1>3 DEF CancelAutomationRun, RowState, Terminal
  <2> HIDE DEF rows
  <2> QED BY <1>0, <2>1, EnqueueKeepsSchedule
<1>4. ASSUME DeleteAutomation PROVE ScheduleInv'
  BY <1>4 DEF DeleteAutomation, ScheduleInv, ScheduleNeverStops, OneRunAhead
<1>5. ASSUME NEW r \in Run, RunAutomationNow(r) PROVE ScheduleInv'
  BY <1>0, <1>5 DEF RunAutomationNow, automation, Open, ScheduleInv, ScheduleNeverStops, OneRunAhead
<1>6. ASSUME NEW r \in Run, BecomesDue(r) PROVE ScheduleInv'
  BY <1>6 DEF BecomesDue, automation, ScheduleInv, ScheduleNeverStops, OneRunAhead
<1>7. ASSUME NEW r \in Run, PruneRun(r) PROVE ScheduleInv'
  <2>1. \A s \in Run : state'[s] \in Open <=> state[s] \in Open
    BY <1>0, <1>7 DEF PruneRun, Open, Held, Terminal
  <2>2. \A s \in Run : state'[s] = "queued" => s # r /\ state[s] = "queued"
    BY <1>0, <1>7 DEF PruneRun
  <2> QED BY <1>7, <2>1, <2>2 DEF PruneRun, automation, ScheduleInv, ScheduleNeverStops, OneRunAhead
<1>8. ASSUME NEW r \in Run, NEW m \in Machine, NEW heard \in BOOLEAN, ClaimAutomationRun(m, r, heard)
      PROVE ScheduleInv'
  <2>1. state'[r] \in Open /\ \A s \in Run : state'[s] = "queued" => state[s] = "queued"
    BY <1>0, <1>8 DEF ClaimAutomationRun, Open, Held
  <2> QED BY <1>8, <2>1 DEF ClaimAutomationRun, ScheduleInv, ScheduleNeverStops, OneRunAhead
<1>9. ASSUME NEW q \in wire, Handle(q) \/ HandleUnheard(q) PROVE ScheduleInv'
  BY <1>0, <1>9, ApplyKeepsSchedule DEF Handle, HandleUnheard
<1>10. CASE UNCHANGED <<automation, state, due>>
  BY <1>10 DEF automation, ScheduleInv, ScheduleNeverStops, OneRunAhead
<1>11. ASSUME NEW r \in Run, NEW m \in Machine, HeartbeatAutomationRun(m, r) PROVE ScheduleInv'
  BY <1>10, <1>11 DEF HeartbeatAutomationRun
<1>12. ASSUME NEW m \in Machine, TimesOut(m) \/ Executes(m) \/ DaemonRestarts(m) PROVE ScheduleInv'
  BY <1>10, <1>12 DEF TimesOut, Executes, ExecuteClaimedRun, DaemonRestarts
<1>13. ASSUME NEW q \in wire, LoseRequest(q) PROVE ScheduleInv'
  BY <1>10, <1>13 DEF LoseRequest
<1>14. CASE UNCHANGED vars
  BY <1>10, <1>14 DEF vars
<1>15. ASSUME NEW r \in Run, LeaseLapses(r) PROVE ScheduleInv'
  BY <1>10, <1>15 DEF LeaseLapses
<1> QED
  BY <1>1, <1>2, <1>3, <1>4, <1>5, <1>6, <1>7, <1>8, <1>9, <1>11, <1>12, <1>13, <1>14, <1>15 DEF Next

\* Pausing, resuming, cancelling, edits, failures and late reports leave an
\* automation that is on with an open run.
THEOREM ScheduleIsKept == Spec => []ScheduleNeverStops
<1>1. ScheduleInv => ScheduleNeverStops
  BY DEF ScheduleInv
<1> QED BY <1>1, InitType, NextType, InitSchedule, NextSchedule, PTL DEF Spec

\* However claims, reports and edits overlap, no second run of the schedule
\* waits beside the first.
THEOREM OneRunIsAhead == Spec => []OneRunAhead
<1>1. ScheduleInv => OneRunAhead
  BY DEF ScheduleInv
<1> QED BY <1>1, InitType, NextType, InitSchedule, NextSchedule, PTL DEF Spec
-------------------------------------------------------------------------------
(* The work *)

\* A run that is not claimed yet has no history, and a queued one is known to
\* no daemon and no request.
Blank ==
  /\ \A r \in Run : state[r] \in {"none", "queued"} => r \notin executed /\ r \notin lapsed
  /\ \A r \in Run : state[r] = "queued" =>
       /\ \A m \in Machine : worker[m].run # r
       /\ \A q \in wire : q.run # r

\* As long as its lease never lapsed, a held run has it and has one worker,
\* and once the work is done that worker only reports.
Leased ==
  \A r \in Run : state[r] # "none" /\ r \notin lapsed =>
    /\ state[r] \in Held => r \in live
    /\ \A m, n \in Machine : worker[m].run = r /\ worker[n].run = r => m = n
    /\ r \in executed => \A m \in Machine :
                           worker[m].run = r => worker[m].phase \in {"succeed", "fail"}

\* A success is reported of work that was done.
Earned ==
  \A q \in wire : q.kind = "succeed" /\ state[q.run] # "none" => q.run \in executed

WorkInv == Blank /\ Leased /\ Earned /\ SuccessWasExecuted /\ RepeatedOnlyAfterLapse

\* What the steps that keep leases and history do to a row, a daemon, the wire.
RowMoves(r) ==
  \/ state'[r] = state[r]
  \/ r \in Fresh /\ state'[r] = "queued"
  \/ state[r] = "queued" /\ state'[r] = "none"
  \/ state[r] \in Open /\ state'[r] = "cancelled"
  \/ state[r] \in Held /\ state'[r] \in {"running", "failed"}
  \/ state[r] \in Held /\ state'[r] = "succeeded" /\ r \in executed

DaemonMoves(m) ==
  \/ worker'[m] = worker[m]
  \/ worker'[m] = Idle
  \/ /\ worker'[m].run = worker[m].run
     /\ \/ worker'[m].phase = "fail"
        \/ worker'[m].phase = "execute" /\ worker[m].phase = "start"

WireMoves ==
  \A q \in wire' : q \in wire \/ (q.kind = "fail" /\ worker[q.machine].run = q.run)

LEMMA InitWork == Init => WorkInv
BY DEF Init, WorkInv, Blank, Leased, Earned, SuccessWasExecuted, RepeatedOnlyAfterLapse

LEMMA MovesKeepWork ==
  ASSUME TypeInv, TypeInv', WorkInv, UNCHANGED <<live, history>>,
         \A r \in Run : RowMoves(r), \A m \in Machine : DaemonMoves(m), WireMoves
  PROVE  WorkInv'
<1>0. /\ UNCHANGED <<live, executed, repeated, lapsed>>
      /\ wire \in SUBSET Request /\ wire' \in SUBSET Request
      /\ \A q \in Request : q.run \in Run /\ q.machine \in Machine
      /\ Idle.run \notin Run /\ Idle.phase = "idle"
      /\ \A r \in Fresh : /\ state[r] = "none"
                          /\ \A m \in Machine : worker[m].run # r
                          /\ \A q \in wire : q.run # r
  BY NobodyIsFresh DEF history, TypeInv, TypeOK, Request, Idle, Fresh
<1>1. \A m \in Machine, r \in Run : worker'[m].run = r => worker[m].run = r
  BY <1>0 DEF DaemonMoves
<1>2. Blank'
  BY <1>0, <1>1 DEF WorkInv, Blank, RowMoves, WireMoves, Open, Held
<1>3. ASSUME NEW r \in Run, state'[r] # "none", r \notin lapsed
      PROVE  /\ state'[r] \in Held => r \in live
             /\ \A m, n \in Machine : worker'[m].run = r /\ worker'[n].run = r => m = n
             /\ r \in executed => \A m \in Machine :
                                    worker'[m].run = r => worker'[m].phase \in {"succeed", "fail"}
  <2>1. CASE r \in Fresh /\ state'[r] = "queued"
    BY <2>1, <1>0, <1>1 DEF Held
  <2>2. CASE ~(r \in Fresh /\ state'[r] = "queued")
    <3>1. state[r] # "none" /\ (state'[r] \in Held => state[r] \in Held)
      BY <1>3, <2>2 DEF RowMoves, Open, Held
    <3>2. /\ state[r] \in Held => r \in live
          /\ \A m, n \in Machine : worker[m].run = r /\ worker[n].run = r => m = n
          /\ r \in executed => \A m \in Machine :
                                 worker[m].run = r => worker[m].phase \in {"succeed", "fail"}
      BY <3>1, <1>3 DEF WorkInv, Leased
    <3>3. ASSUME NEW m \in Machine, r \in executed, worker'[m].run = r
          PROVE  worker'[m].phase \in {"succeed", "fail"}
      BY <3>2, <3>3, <1>0, <1>1 DEF DaemonMoves
    <3> QED BY <3>1, <3>2, <3>3, <1>1
  <2> QED BY <2>1, <2>2
<1>4. Leased'
  BY <1>0, <1>3 DEF Leased
<1>5. Earned'
  <2> SUFFICES ASSUME NEW q \in wire', q.kind = "succeed", state'[q.run] # "none"
               PROVE  q.run \in executed'
    BY DEF Earned
  <2>1. q \in wire /\ q.run \in Run
    BY <1>0 DEF WireMoves
  <2>2. state[q.run] # "none"
    BY <1>0, <2>1 DEF RowMoves, Open, Held
  <2> QED BY <1>0, <2>1, <2>2 DEF WorkInv, Earned
<1>6. SuccessWasExecuted' /\ RepeatedOnlyAfterLapse'
  BY <1>0 DEF WorkInv, SuccessWasExecuted, RepeatedOnlyAfterLapse, RowMoves
<1> QED BY <1>2, <1>4, <1>5, <1>6 DEF WorkInv

\* The rows move so when a report is handled, as only earned successes arrive.
LEMMA ApplyMoves ==
  ASSUME TypeInv, WorkInv, NEW q \in wire, Apply(q)
  PROVE  \A r \in Run : RowMoves(r)
<1>1. Accepted(q) => state[q.run] \in Held /\ (q.kind = "succeed" => q.run \in executed)
  BY DEF Accepted, Held, WorkInv, Earned
<1>2. Accepted(q) => Outcome(q.kind) \in {"running", "failed"} \/ (q.kind = "succeed" /\ Outcome(q.kind) = "succeeded")
  BY DEF Outcome
<1> QED BY <1>1, <1>2, ApplyFacts DEF RowMoves, TypeInv

LEMMA TakesUpMoves ==
  ASSUME TypeInv, NEW m \in Machine, NEW kind \in Phase, NEW ok \in BOOLEAN, NEW r \in Run,
         worker[m] = Doing(kind, r), NEW others \in SUBSET wire,
         TakesUp(m, After(kind, ok), r, others)
  PROVE  (\A n \in Machine : DaemonMoves(n)) /\ WireMoves
<1> DEFINE phase == After(kind, ok)
<1>1. phase \in Phase /\ phase \in {"execute", "fail", "idle"} /\ (phase = "execute" => kind = "start")
  BY AfterIsPhase DEF After
<1>2. worker[m].run = r /\ worker[m].phase = kind
  BY DEF Doing
<1>3. Doing(phase, r).run = r /\ Doing(phase, r).phase = phase
  BY DEF Doing
<1> HIDE DEF phase
<1>4. /\ \A n \in Machine \ {m} : worker'[n] = worker[n]
      /\ worker'[m] = IF phase = "idle" THEN Idle ELSE Doing(phase, r)
      /\ wire' \subseteq others \cup {[kind |-> phase, machine |-> m, run |-> r]}
      /\ phase \notin {"succeed", "fail"} => wire' = others
  BY <1>1, TakesUpFacts DEF phase
<1>5. WireMoves
  BY <1>1, <1>2, <1>4 DEF WireMoves
<1> QED BY <1>1, <1>2, <1>3, <1>4, <1>5 DEF DaemonMoves

LEMMA NextWork == TypeInv /\ WorkInv /\ [Next]_vars => WorkInv'
<1> SUFFICES ASSUME TypeInv, WorkInv, [Next]_vars PROVE WorkInv'
  OBVIOUS
<1>0. /\ TypeOK /\ TypeInv' /\ state \in [Run -> RowState] /\ enabled' \in BOOLEAN
      /\ \A q \in wire : q \in Request /\ q.machine \in Machine /\ q.run \in Run /\ q.kind \in Phase
  <2>1. TypeInv'
    BY NextType
  <2> QED BY <2>1 DEF TypeInv, TypeOK, RowState, Request, Phase
<1>a. UNCHANGED daemons => (\A m \in Machine : DaemonMoves(m)) /\ WireMoves
  BY DEF daemons, DaemonMoves, WireMoves
<1>b. UNCHANGED state => \A r \in Run : RowMoves(r)
  BY DEF RowMoves
<1>1. ASSUME NEW on \in BOOLEAN, NEW ms \in SUBSET Machine, CreateAutomation(on, ms) PROVE WorkInv'
  <2>1. \A r \in Run : RowMoves(r)
    BY <1>0, <1>1, EnqueueFacts DEF CreateAutomation, RowMoves
  <2> QED BY <1>0, <1>a, <1>1, <2>1, MovesKeepWork DEF CreateAutomation, lease
<1>2. ASSUME NEW switch \in {"keep", "on", "off"}, NEW ms \in SUBSET Machine, UpdateAutomation(switch, ms)
      PROVE WorkInv'
  <2> DEFINE rows == IF switch = "off" THEN WithoutQueued ELSE state
  <2>1. /\ EnqueueNextIfMissing(rows) /\ rows \in [Run -> RowState]
        /\ \A r \in Run : rows[r] = state[r] \/ (state[r] = "queued" /\ rows[r] = "none")
    BY <1>0, <1>2 DEF UpdateAutomation, WithoutQueued, RowState
  <2> HIDE DEF rows
  <2>2. \A r \in Run : RowMoves(r)
    BY <1>0, <2>1, EnqueueFacts DEF RowMoves
  <2> QED BY <1>0, <1>a, <1>2, <2>2, MovesKeepWork DEF UpdateAutomation, lease
<1>3. ASSUME NEW r \in Run, CancelAutomationRun(r) PROVE WorkInv'
  <2> DEFINE rows == [state EXCEPT ![r] = "cancelled"]
  <2>1. /\ EnqueueNextIfMissing(rows) /\ rows \in [Run -> RowState]
        /\ \A s \in Run : rows[s] = state[s] \/ (state[s] \in Open /\ rows[s] = "cancelled")
    BY <1>0, <1>3 DEF CancelAutomationRun, RowState, Terminal
  <2> HIDE DEF rows
  <2>2. \A s \in Run : RowMoves(s)
    BY <1>0, <2>1, EnqueueFacts DEF RowMoves
  <2> QED BY <1>0, <1>a, <1>3, <2>2, MovesKeepWork DEF CancelAutomationRun, lease
<1>4. ASSUME NEW r \in Run, RunAutomationNow(r) PROVE WorkInv'
  <2>1. \A s \in Run : RowMoves(s)
    BY <1>0, <1>4 DEF RunAutomationNow, RowMoves
  <2> QED BY <1>0, <1>a, <1>4, <2>1, MovesKeepWork DEF RunAutomationNow, lease
<1>5. ASSUME NEW r \in Run, BecomesDue(r) PROVE WorkInv'
  BY <1>0, <1>a, <1>b, <1>5, MovesKeepWork DEF BecomesDue, lease
<1>6. ASSUME DeleteAutomation PROVE WorkInv'
  <2>1. /\ \A r \in Run : state'[r] = "none"
        /\ executed' = {} /\ repeated' = {} /\ lapsed' = {} /\ UNCHANGED <<worker, wire>>
        /\ \A q \in wire' : q.run \in Run
    BY <1>0, <1>6 DEF DeleteAutomation, daemons
  <2> QED BY <2>1 DEF WorkInv, Blank, Leased, Earned, SuccessWasExecuted, RepeatedOnlyAfterLapse
<1>7. ASSUME NEW r \in Run, PruneRun(r) PROVE WorkInv'
  <2>1. /\ \A s \in Run : state'[s] = IF s = r THEN "none" ELSE state[s]
        /\ executed' = executed \ {r} /\ repeated' = repeated \ {r} /\ lapsed' = lapsed \ {r}
        /\ live' = live \ {r} /\ UNCHANGED <<worker, wire>>
        /\ \A q \in wire' : q.run \in Run
    BY <1>0, <1>7 DEF PruneRun, daemons
  <2>2. Blank' /\ Leased'
    BY <2>1 DEF WorkInv, Blank, Leased
  <2>3. Earned' /\ SuccessWasExecuted' /\ RepeatedOnlyAfterLapse'
    BY <2>1 DEF WorkInv, Earned, SuccessWasExecuted, RepeatedOnlyAfterLapse
  <2> QED BY <2>2, <2>3 DEF WorkInv
<1>8. ASSUME NEW r \in Run, LeaseLapses(r) PROVE WorkInv'
  <2>1. /\ UNCHANGED <<state, worker, wire, executed, repeated>>
        /\ live' = live \ {r} /\ lapsed' = lapsed \cup {r} /\ state[r] \in Held
    BY <1>8 DEF LeaseLapses, daemons
  <2>2. Blank' /\ Leased'
    BY <2>1 DEF WorkInv, Blank, Leased, Held
  <2>3. Earned' /\ SuccessWasExecuted' /\ RepeatedOnlyAfterLapse'
    BY <2>1 DEF WorkInv, Earned, SuccessWasExecuted, RepeatedOnlyAfterLapse
  <2> QED BY <2>2, <2>3 DEF WorkInv
<1>9. ASSUME NEW m \in Machine, NEW r \in Run, HeartbeatAutomationRun(m, r) PROVE WorkInv'
  <2>1. UNCHANGED <<state, worker, wire, executed, repeated, lapsed>> /\ live' = live \cup {r}
    BY <1>9 DEF HeartbeatAutomationRun, daemons, history
  <2> QED BY <2>1 DEF WorkInv, Blank, Leased, Earned, SuccessWasExecuted, RepeatedOnlyAfterLapse
<1>10. ASSUME NEW m \in Machine, NEW r \in Run, NEW heard \in BOOLEAN, ClaimAutomationRun(m, r, heard)
       PROVE WorkInv'
  <2>1. /\ \A s \in Run : state'[s] = IF s = r THEN "claimed" ELSE state[s]
        /\ live' = live \cup {r} /\ UNCHANGED <<executed, repeated, lapsed>>
        /\ state[r] \in Open /\ (state[r] # "queued" => r \in lapsed)
    BY <1>0, <1>10 DEF ClaimAutomationRun, history, IsRunClaimable, Open, Held, WorkInv, Leased
  <2>2. CASE heard
    <3>1. /\ \A n \in Machine \ {m} : worker'[n] = worker[n]
          /\ worker'[m].run = r /\ worker'[m].phase = "start"
          /\ wire' = wire \cup {[kind |-> "start", machine |-> m, run |-> r]}
      BY <1>10, <2>2 DEF ClaimAutomationRun, Doing, TypeInv, TypeOK
    <3>2. Blank'
      BY <2>1, <3>1 DEF WorkInv, Blank, Open, Held
    <3>3. Leased'
      BY <2>1, <3>1 DEF WorkInv, Blank, Leased, Open, Held
    <3>4. Earned' /\ SuccessWasExecuted' /\ RepeatedOnlyAfterLapse'
      BY <1>0, <2>1, <3>1 DEF WorkInv, Earned, SuccessWasExecuted, RepeatedOnlyAfterLapse, Open, Held
    <3> QED BY <3>2, <3>3, <3>4 DEF WorkInv
  <2>3. CASE ~ heard
    <3>1. UNCHANGED <<worker, wire>>
      BY <1>10, <2>3 DEF ClaimAutomationRun, daemons
    <3>2. Blank' /\ Leased'
      BY <2>1, <3>1 DEF WorkInv, Blank, Leased, Open, Held
    <3>4. Earned' /\ SuccessWasExecuted' /\ RepeatedOnlyAfterLapse'
      BY <1>0, <2>1, <3>1 DEF WorkInv, Earned, SuccessWasExecuted, RepeatedOnlyAfterLapse, Open, Held
    <3> QED BY <3>2, <3>4 DEF WorkInv
  <2> QED BY <2>2, <2>3
<1>11. ASSUME NEW q \in wire, Handle(q) PROVE WorkInv'
  <2>1. \A r \in Run : RowMoves(r)
    BY <1>11, ApplyMoves DEF Handle
  <2>2. (\A m \in Machine : DaemonMoves(m)) /\ WireMoves
    <3>1. CASE Waiting(q)
      <4>1. /\ TakesUp(q.machine, After(q.kind, Accepted(q)), q.run, wire \ {q})
            /\ worker[q.machine] = Doing(q.kind, q.run) /\ Accepted(q) \in BOOLEAN
        BY <1>11, <3>1 DEF Handle, Waiting, Accepted
      <4> QED BY <4>1, <1>0, TakesUpMoves
    <3>2. CASE ~ Waiting(q)
      BY <1>11, <3>2 DEF Handle, DaemonMoves, WireMoves
    <3> QED BY <3>1, <3>2
  <2> QED BY <1>0, <1>11, <2>1, <2>2, MovesKeepWork DEF Handle, lease
<1>12. ASSUME NEW q \in wire, HandleUnheard(q) PROVE WorkInv'
  <2>1. \A r \in Run : RowMoves(r)
    BY <1>12, ApplyMoves DEF HandleUnheard
  <2>2. (\A m \in Machine : DaemonMoves(m)) /\ WireMoves
    BY <1>12 DEF HandleUnheard, DaemonMoves, WireMoves
  <2> QED BY <1>0, <1>12, <2>1, <2>2, MovesKeepWork DEF HandleUnheard, lease
<1>13. ASSUME NEW q \in wire, LoseRequest(q) PROVE WorkInv'
  <2>1. (\A m \in Machine : DaemonMoves(m)) /\ WireMoves
    BY <1>13 DEF LoseRequest, DaemonMoves, WireMoves
  <2> QED BY <1>0, <1>b, <1>13, <2>1, MovesKeepWork DEF LoseRequest, lease
<1>14. ASSUME NEW m \in Machine, TimesOut(m) PROVE WorkInv'
  <2>1. /\ TakesUp(m, After(worker[m].phase, FALSE), worker[m].run, wire)
        /\ worker[m].phase \in Phase /\ worker[m].run \in Run
        /\ worker[m] = Doing(worker[m].phase, worker[m].run)
    BY <1>14 DEF TimesOut, TypeInv, TypeOK, JobInv, Phase, Job, Doing
  <2>2. (\A n \in Machine : DaemonMoves(n)) /\ WireMoves
    BY <2>1, TakesUpMoves
  <2> QED BY <1>0, <1>b, <1>14, <2>2, MovesKeepWork DEF TimesOut, lease
<1>15. ASSUME NEW m \in Machine, NEW done \in BOOLEAN, NEW report \in {"succeed", "fail"},
              ExecuteClaimedRun(m, done, report)
       PROVE WorkInv'
  <2> DEFINE r == worker[m].run
  <2>1. /\ r \in Run /\ report \in Phase /\ worker[m].phase = "execute"
        /\ TakesUp(m, report, r, wire) /\ UNCHANGED <<state, live, lapsed>>
        /\ done \/ report = "fail"
    BY <1>15 DEF ExecuteClaimedRun, TypeInv, JobInv, Phase, lease
  <2>2. /\ executed' = executed \cup (IF done /\ state[r] # "none" THEN {r} ELSE {})
        /\ repeated' = repeated \cup ((IF done /\ state[r] # "none" THEN {r} ELSE {}) \cap executed)
    BY <1>15 DEF ExecuteClaimedRun
  <2>3. state[r] # "queued"
    BY <2>1 DEF WorkInv, Blank
  <2>4. state[r] # "none" /\ r \in executed => r \in lapsed
    BY <2>1 DEF WorkInv, Leased
  <2>5. /\ worker[m].run = r /\ report \in {"succeed", "fail"}
        /\ Doing(report, r).run = r /\ Doing(report, r).phase = report
    BY <1>15 DEF Doing
  <2> HIDE DEF r
  <2>6. /\ \A n \in Machine \ {m} : worker'[n] = worker[n]
        /\ worker'[m].run = r /\ worker'[m].phase = report
        /\ wire' \subseteq wire \cup {[kind |-> report, machine |-> m, run |-> r]}
    BY <2>1, <2>5, TakesUpFacts
  <2>7. Blank'
    BY <1>0, <2>1, <2>2, <2>3, <2>5, <2>6 DEF WorkInv, Blank
  <2>8. Leased'
    BY <2>1, <2>2, <2>5, <2>6 DEF WorkInv, Leased
  <2>9. Earned'
    BY <1>0, <2>1, <2>2, <2>6 DEF WorkInv, Earned
  <2>10. SuccessWasExecuted' /\ RepeatedOnlyAfterLapse'
    BY <2>1, <2>2, <2>4 DEF WorkInv, SuccessWasExecuted, RepeatedOnlyAfterLapse
  <2> QED BY <2>7, <2>8, <2>9, <2>10 DEF WorkInv
<1>16. ASSUME NEW m \in Machine, DaemonRestarts(m) PROVE WorkInv'
  <2>1. (\A n \in Machine : DaemonMoves(n)) /\ WireMoves
    BY <1>16 DEF DaemonRestarts, DaemonMoves, WireMoves, TypeInv, TypeOK
  <2> QED BY <1>0, <1>b, <1>16, <2>1, MovesKeepWork DEF DaemonRestarts, lease
<1>17. CASE UNCHANGED vars
  BY <1>0, <1>a, <1>b, <1>17, MovesKeepWork DEF vars, lease
<1> QED
  BY <1>1, <1>2, <1>3, <1>4, <1>5, <1>6, <1>7, <1>8, <1>9, <1>10, <1>11, <1>12, <1>13, <1>14,
     <1>15, <1>16, <1>17 DEF Next, Executes

\* Two machines execute a run only if its lease ran out under the first: losses,
\* late requests, restarts and retries alone never repeat the work.
THEOREM RepetitionNeedsALapse == Spec => []RepeatedOnlyAfterLapse
<1>1. WorkInv => RepeatedOnlyAfterLapse
  BY DEF WorkInv
<1> QED BY <1>1, InitType, NextType, InitWork, NextWork, PTL DEF Spec

\* A run is recorded as succeeded only if it was executed, although the report
\* may be handled after the run was taken over, or after its daemon died.
THEOREM SuccessIsEarned == Spec => []SuccessWasExecuted
<1>1. WorkInv => SuccessWasExecuted
  BY DEF WorkInv
<1> QED BY <1>1, InitType, NextType, InitWork, NextWork, PTL DEF Spec
===============================================================================
