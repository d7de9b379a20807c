------------------------- MODULE MutationOutboxProofs -------------------------
(***************************************************************************)
(* Theorems about MutationOutbox, for any processes, mutations, limits and *)
(* plans.                                                                  *)
(*                                                                         *)
(* Safety rests on what a process holds: Sound relates its queue and what  *)
(* its flush has in hand to the promised mutations - accepted ones, and    *)
(* those whose enqueue waits for its write - and Written says the same of  *)
(* the list that is on disk or on its way there.  Merge and Prune keep     *)
(* both.  Each action is first reduced to what it does to the lists (the   *)
(* lemmas named ...Typed and ...Turns), then shown safe (...Safe).         *)
(***************************************************************************)
EXTENDS MutationOutbox, OrderingProofs

-----------------------------------------------------------------------------
(* That what waits is attended to needs only which lists are empty.         *)
\* The variables of the processes are functions of them.
OfProcesses ==
  /\ DOMAIN up = Process /\ DOMAIN closed = Process /\ DOMAIN queue = Process
  /\ DOMAIN stage = Process /\ DOMAIN wanted = Process /\ DOMAIN timer = Process
  /\ DOMAIN saves = Process

AttendedInv == OfProcesses /\ AttendedWhileDiskWorks

\* Process p does something to its outbox that leaves it attended.
Leaves(p) ==
  /\ OfProcesses' /\ trouble \subseteq trouble'
  /\ \A q \in Process \ {p} :
       /\ up'[q] = up[q] /\ closed'[q] = closed[q] /\ queue'[q] = queue[q] /\ stage'[q] = stage[q]
       /\ wanted'[q] = wanted[q] /\ timer'[q] = timer[q] /\ saves'[q] = saves[q]
  /\ "write" \in trouble' \/ Attended(p)'

LEMMA LeavesIsEnough ==
  ASSUME AttendedInv, NEW p \in Process, Leaves(p)
  PROVE  AttendedInv'
BY DEF AttendedInv, AttendedWhileDiskWorks, Attended, Leaves

\* A process whose memory is gone has nothing to attend to.
LEMMA Forgotten ==
  ASSUME AttendedInv, NEW p \in Process, Forget(p), trouble \subseteq trouble'
  PROVE  AttendedInv'
<1>1. Leaves(p)
  BY DEF Forget, AttendedInv, OfProcesses, Leaves, Attended
<1> QED BY <1>1, LeavesIsEnough

\* A flush that is over has set the timer, or goes on to record or to save.
LEMMA OverLeaves ==
  ASSUME AttendedInv, NEW p \in Process, NEW q, NEW g, NEW c, Over(p, q, g, c),
         UNCHANGED <<up, closed>>,
         DOMAIN wanted' = Process, \A r \in Process \ {p} : wanted'[r] = wanted[r],
         trouble \subseteq trouble'
  PROVE  AttendedInv'
<1>1. Leaves(p)
  <2>1. OfProcesses
    BY DEF AttendedInv
  <2>2. CASE /\ stage' = [stage EXCEPT ![p] = "idle"] /\ RetryTimer(p, q) /\ Settles(p, saves[p])
             /\ queue' = [queue EXCEPT ![p] = q]
    <3>1. timer' = [timer EXCEPT ![p] = ~closed[p] /\ q # <<>>] /\ queue'[p] = q
      BY <2>1, <2>2 DEF RetryTimer, OfProcesses
    <3>2. timer'[p] = (~closed[p] /\ q # <<>>)
      BY <2>1, <3>1 DEF OfProcesses
    <3>3. Attended(p)'
      BY <3>1, <3>2 DEF Attended
    <3>4. OfProcesses' /\ \A r \in Process \ {p} : /\ queue'[r] = queue[r] /\ stage'[r] = stage[r]
                                                   /\ timer'[r] = timer[r] /\ saves'[r] = saves[r]
      BY <2>1, <2>2, <3>1 DEF OfProcesses, Settles
    <3> QED BY <3>3, <3>4 DEF Leaves
  <2>3. CASE /\ stage' = [stage EXCEPT ![p] = "recording"] /\ timer' = [timer EXCEPT ![p] = FALSE]
             /\ UNCHANGED saves /\ queue' = [queue EXCEPT ![p] = q]
    BY <2>1, <2>3 DEF OfProcesses, Leaves, Attended
  <2>4. CASE /\ stage' = [stage EXCEPT ![p] = "saving"] /\ timer' = [timer EXCEPT ![p] = FALSE]
             /\ saves' = [saves EXCEPT ![p] = Append(@, Save("flush", None))]
             /\ queue' = [queue EXCEPT ![p] = q]
    BY <2>1, <2>4 DEF OfProcesses, Leaves, Attended
  <2> QED BY <2>2, <2>3, <2>4 DEF Over
<1> QED BY <1>1, LeavesIsEnough

LEMMA GoOnLeaves ==
  ASSUME AttendedInv, NEW p \in Process, NEW q, NEW k, NEW b, NEW g, NEW c, GoOn(p, q, k, b, g, c),
         UNCHANGED <<up, closed>>,
         DOMAIN wanted' = Process, \A r \in Process \ {p} : wanted'[r] = wanted[r],
         trouble \subseteq trouble'
  PROVE  AttendedInv'
<1>1. CASE Over(p, Merge(k, q), g, c)
  BY <1>1, OverLeaves
<1>2. CASE /\ queue' = [queue EXCEPT ![p] = q] /\ stage' = [stage EXCEPT ![p] = "sending"]
           /\ timer' = [timer EXCEPT ![p] = FALSE] /\ UNCHANGED saves
  <2>1. Leaves(p)
    BY <1>2 DEF AttendedInv, OfProcesses, Leaves, Attended
  <2> QED BY <2>1, LeavesIsEnough
<1> QED BY <1>1, <1>2 DEF GoOn

\* Steps of the outbox that the process takes by itself.
LEMMA WritesLeave ==
  ASSUME AttendedInv, NEW p \in Process,
         \/ Start(p) \/ Crash(p) \/ BeginWrite(p) \/ EndWrite(p) \/ FailWrite(p)
         \/ Record(p) \/ RecordFails(p) \/ Connect(p) \/ Drain(p) \/ Close(p) \/ BackoffEnds(p)
         \/ \E m \in plan : Enqueue(p, m)
  PROVE  AttendedInv'
<1>0. OfProcesses
  BY DEF AttendedInv
<1>a. "write" \in trouble \/ Attended(p)
  BY DEF AttendedInv, AttendedWhileDiskWorks
<1>b. ASSUME Leaves(p) PROVE AttendedInv'
  BY <1>b, LeavesIsEnough
<1>1. CASE Start(p)
  <2>1. Leaves(p)
    BY <1>0, <1>1 DEF Start, disk, OfProcesses, Leaves, Attended
  <2> QED BY <2>1, <1>b
<1>2. CASE Crash(p)
  BY <1>2, Forgotten DEF Crash, history
<1>3. CASE BeginWrite(p)
  <2>1. Leaves(p)
    BY <1>0, <1>3, <1>a DEF BeginWrite, flush, history, OfProcesses, Leaves, Attended
  <2> QED BY <2>1, <1>b
<1>4. CASE EndWrite(p)
  <2>1. CASE Forget(p)
    BY <1>4, <2>1, Forgotten DEF EndWrite
  <2>2. CASE /\ stage' = [stage EXCEPT ![p] = "idle"] /\ RetryTimer(p, queue[p])
             /\ UNCHANGED <<up, closed, queue, wanted>> /\ Settles(p, Tail(saves[p]))
    <3>1. timer' = [timer EXCEPT ![p] = ~closed[p] /\ queue[p] # <<>>]
      BY <2>2 DEF RetryTimer
    <3>2. timer'[p] = (~closed[p] /\ queue[p] # <<>>)
      BY <1>0, <3>1 DEF OfProcesses
    <3>3. Attended(p)'
      BY <2>2, <3>2 DEF Attended
    <3>4. OfProcesses' /\ \A r \in Process \ {p} : stage'[r] = stage[r] /\ timer'[r] = timer[r] /\ saves'[r] = saves[r]
      BY <1>0, <2>2, <3>1 DEF OfProcesses, Settles
    <3>5. Leaves(p)
      BY <1>4, <2>2, <3>3, <3>4 DEF Leaves, EndWrite
    <3> QED BY <3>5, <1>b
  <2>3. CASE /\ wanted' = [wanted EXCEPT ![p] = IF closed[p] THEN @ ELSE @ \cup {"soft"}]
             /\ saves' = [saves EXCEPT ![p] = Tail(@)]
             /\ UNCHANGED <<up, closed, queue, stage, timer>>
    <3>1. Leaves(p)
      BY <1>0, <1>4, <2>3 DEF EndWrite, OfProcesses, Leaves, Attended
    <3> QED BY <3>1, <1>b
  <2> QED BY <1>4, <2>1, <2>2, <2>3 DEF EndWrite, flush
<1>5. CASE FailWrite(p)
  <2>1. CASE Forget(p)
    BY <1>5, <2>1, Forgotten DEF FailWrite, Strikes
  <2>2. CASE ~Forget(p)
    <3>1. "write" \in trouble' /\ trouble \subseteq trouble'
      BY <1>5 DEF FailWrite, Strikes
    <3>2. Leaves(p)
      BY <1>0, <1>5, <2>2, <3>1 DEF FailWrite, OfProcesses, Leaves
    <3> QED BY <3>2, <1>b
  <2> QED BY <2>1, <2>2
<1>6. CASE Record(p)
  <2>1. Leaves(p)
    BY <1>0, <1>6 DEF Record, history, OfProcesses, Leaves, Attended
  <2> QED BY <2>1, <1>b
<1>7. CASE RecordFails(p)
  <2>1. CASE Forget(p)
    BY <1>7, <2>1, Forgotten DEF RecordFails, Strikes
  <2>2. CASE ~Forget(p)
    <3>1. "write" \in trouble' /\ trouble \subseteq trouble'
      BY <1>7 DEF RecordFails, Strikes
    <3>2. Leaves(p)
      BY <1>0, <1>7, <2>2, <3>1 DEF RecordFails, OfProcesses, Leaves
    <3> QED BY <3>2, <1>b
  <2> QED BY <2>1, <2>2
<1>8. CASE Connect(p)
  <2>1. Leaves(p)
    BY <1>0, <1>8 DEF Connect, flush, disk, history, OfProcesses, Leaves, Attended
  <2> QED BY <2>1, <1>b
<1>9. CASE Drain(p)
  <2>1. Leaves(p)
    BY <1>0, <1>9 DEF Drain, flush, disk, history, OfProcesses, Leaves, Attended
  <2> QED BY <2>1, <1>b
<1>10. CASE Close(p)
  <2>1. Leaves(p)
    BY <1>0, <1>10 DEF Close, flush, disk, history, OfProcesses, Leaves, Attended
  <2> QED BY <2>1, <1>b
<1>11. CASE BackoffEnds(p)
  <2>1. PICK i \in DOMAIN queue[p] : queue' = [queue EXCEPT ![p][i].waiting = FALSE]
    BY <1>11 DEF BackoffEnds
  <2>2. queue[p] # <<>>
    BY <2>1
  <2>3. DOMAIN queue' = Process /\ \A q \in Process \ {p} : queue'[q] = queue[q]
    BY <1>0, <2>1 DEF OfProcesses
  <2>4. UNCHANGED <<up, closed, stage, wanted, timer, saves, trouble>>
    BY <1>11 DEF BackoffEnds, flush, disk, history
  <2>5. Leaves(p)
    BY <1>0, <1>a, <2>2, <2>3, <2>4 DEF OfProcesses, Leaves, Attended
  <2> QED BY <2>5, <1>b
<1>12. ASSUME NEW m \in plan, Enqueue(p, m) PROVE AttendedInv'
  <2>1. /\ saves' = [saves EXCEPT ![p] = Append(@, Save("enqueue", m))]
        /\ queue' = [queue EXCEPT ![p] = Prune(Merge(@, <<Fresh(m)>>))]
        /\ UNCHANGED <<up, closed, stage, wanted, timer, trouble>>
    BY <1>12 DEF Enqueue, flush
  <2>2. saves'[p] # <<>> /\ DOMAIN saves' = Process /\ DOMAIN queue' = Process
        /\ \A q \in Process \ {p} : saves'[q] = saves[q] /\ queue'[q] = queue[q]
    BY <1>0, <2>1 DEF OfProcesses
  <2>3. Leaves(p)
    BY <1>0, <2>1, <2>2 DEF OfProcesses, Leaves, Attended
  <2> QED BY <2>3, <1>b
<1> QED BY <1>1, <1>2, <1>3, <1>4, <1>5, <1>6, <1>7, <1>8, <1>9, <1>10, <1>11, <1>12

\* Steps of a flush.
LEMMA FlushesLeave ==
  ASSUME AttendedInv, NEW p \in Process,
         \/ RunFlush(p) \/ TimerFires(p) \/ PassOver(p) \/ HoldUp(p) \/ Defer(p) \/ Send(p)
         \/ Ack(p) \/ AuthFails(p) \/ Fail(p) \/ GiveUp(p)
  PROVE  AttendedInv'
<1>0. OfProcesses
  BY DEF AttendedInv
<1>1. ASSUME NEW r, StartFlush(p, r),
             DOMAIN wanted' = Process, \A q \in Process \ {p} : wanted'[q] = wanted[q]
      PROVE  AttendedInv'
  <2>1. UNCHANGED <<up, closed, trouble>>
    BY <1>1 DEF StartFlush, history
  <2>2. PICK b, c : GoOn(p, <<>>, <<>>, b, {}, c)
    BY <1>1 DEF StartFlush
  <2> QED BY <1>1, <2>1, <2>2, GoOnLeaves
<1>2. CASE RunFlush(p)
  BY <1>0, <1>1, <1>2 DEF RunFlush, OfProcesses
<1>3. CASE TimerFires(p)
  BY <1>0, <1>1, <1>3 DEF TimerFires, OfProcesses
<1>4. ASSUME Same(p), trouble \subseteq trouble', NEW q, NEW k, NEW b, NEW g, NEW c,
             GoOn(p, q, k, b, g, c)
      PROVE  AttendedInv'
  BY <1>0, <1>4, GoOnLeaves DEF Same, OfProcesses
<1>5. ASSUME Same(p), trouble \subseteq trouble', NEW q, NEW g, NEW c, Over(p, q, g, c)
      PROVE  AttendedInv'
  BY <1>0, <1>5, OverLeaves DEF Same, OfProcesses
<1>6. CASE PassOver(p)
  BY <1>4, <1>6 DEF PassOver
<1>7. CASE HoldUp(p)
  BY <1>5, <1>7 DEF HoldUp
<1>8. CASE Defer(p)
  BY <1>4, <1>8 DEF Defer
<1>9. CASE Send(p)
  <2>1. Leaves(p)
    BY <1>0, <1>9 DEF Send, Same, OfProcesses, Leaves, Attended
  <2> QED BY <2>1, LeavesIsEnough
<1>10. CASE Ack(p)
  BY <1>4, <1>10 DEF Ack
<1>11. CASE AuthFails(p)
  BY <1>5, <1>11 DEF AuthFails, Strikes
<1>12. CASE Fail(p)
  <2>1. trouble \subseteq trouble' /\ Same(p)
    BY <1>12 DEF Fail, Unanswered, Strikes
  <2> QED BY <1>5, <1>12, <2>1 DEF Fail
<1>13. CASE GiveUp(p)
  <2>1. trouble \subseteq trouble' /\ Same(p)
    BY <1>13 DEF GiveUp, Unanswered, Strikes
  <2>2. PICK b, g : GoOn(p, queue[p], kept[p], b, g, TRUE)
    BY <1>13 DEF GiveUp
  <2> QED BY <1>4, <2>1, <2>2
<1> QED BY <1>2, <1>3, <1>6, <1>7, <1>8, <1>9, <1>10, <1>11, <1>12, <1>13

LEMMA InitIsAttended == Init => AttendedInv
BY DEF Init, AttendedInv, OfProcesses, AttendedWhileDiskWorks, Attended

LEMMA NextIsAttended == AttendedInv /\ [Next]_vars => AttendedInv'
<1> SUFFICES ASSUME AttendedInv, [Next]_vars PROVE AttendedInv'
  OBVIOUS
<1>1. CASE UNCHANGED vars
  BY <1>1 DEF vars, flush, disk, history, AttendedInv, OfProcesses, AttendedWhileDiskWorks, Attended
<1>2. ASSUME NEW m \in wire, Arrive(m) PROVE AttendedInv'
  BY <1>2 DEF Arrive, flush, disk, history, AttendedInv, OfProcesses, AttendedWhileDiskWorks, Attended
<1> QED BY <1>1, <1>2, WritesLeave, FlushesLeave DEF Next

\* As long as no write of the file fails, what waits in the queue of an open
\* outbox is attended to: whatever ended the flush before - an answer, none, an
\* authentication error, a mutation not yet due, exhausted attempts - and
\* whatever was enqueued, connected or killed meanwhile, a timer is set or
\* something is under way that flushes (createSessionMutationOutbox's
\* scheduleRetry, flushInner, enqueue and close).
THEOREM OutboxIsAttended == Spec => []AttendedWhileDiskWorks
<1>1. AttendedInv => AttendedWhileDiskWorks
  BY DEF AttendedInv
<1> QED BY InitIsAttended, NextIsAttended, <1>1, PTL DEF Spec

-----------------------------------------------------------------------------
(* Lists of entries: slots, turns, pruning and merging. *)
\* Every slot is held once; the turns are in the order of their times.
OneSlot(s) == \A i, j \in DOMAIN s : SameSlot(s[i].m, s[j].m) => i = j
InTurn(s) == \A i, j \in DOMAIN s : i < j /\ IsTurn(s[i].m) /\ IsTurn(s[j].m) => s[i].m.at < s[j].m.at
Before(S, T) == \A m \in S, n \in T : IsTurn(m) /\ IsTurn(n) => m.at < n.at

\* S has m, or a mutation that says all that m says.
Covered(m, S) == \E n \in S : n = m \/ Supersedes(n, m)
Covers(S, T) == \A m \in T : Covered(m, S)

\* t is s with some items left out; what is left may be tried at another time.
Within(t, s) ==
  \E place \in [DOMAIN t -> DOMAIN s] :
    /\ \A k \in DOMAIN t : t[k].m = s[place[k]].m
    /\ \A k, l \in DOMAIN t : k < l => place[k] < place[l]

\* What supersedes a mutation that supersedes m supersedes m.
LEMMA SupersedesTransitive ==
  ASSUME NEW m \in Mutation, NEW n \in Mutation, NEW o \in Mutation, Supersedes(n, m), Supersedes(o, n)
  PROVE  o = m \/ Supersedes(o, m)
BY TimesDistinguish DEF Supersedes, IsTurn

\* To be covered carries over.
LEMMA CoversTransitive ==
  ASSUME NEW R \in SUBSET Mutation, NEW S \in SUBSET Mutation, NEW T \in SUBSET Mutation,
         Covers(R, S), Covers(S, T)
  PROVE  Covers(R, T)
<1> SUFFICES ASSUME NEW m \in T PROVE Covered(m, R)
  BY DEF Covers
<1>1. PICK n \in S : n = m \/ Supersedes(n, m)
  BY DEF Covers, Covered
<1>2. PICK o \in R : o = n \/ Supersedes(o, n)
  BY DEF Covers, Covered
<1>3. o = m \/ Supersedes(o, m)
  BY <1>1, <1>2, SupersedesTransitive
<1> QED BY <1>3 DEF Covered

\* Slots are classes of mutations; that of a turn holds only itself.
LEMMA SameSlotIsSame ==
  ASSUME NEW m, NEW n, NEW o
  PROVE  /\ SameSlot(m, m)
         /\ SameSlot(m, n) => SameSlot(n, m)
         /\ SameSlot(m, n) /\ SameSlot(n, o) => SameSlot(m, o)
         /\ SameSlot(m, n) /\ (IsTurn(m) \/ IsTurn(n)) => m = n
BY DEF SameSlot, IsTurn

\* The mutations of a list of entries.
LEMMA FactsAreMutations ==
  ASSUME NEW s \in Seq(Entry)
  PROVE  /\ Facts(s) \subseteq Mutation /\ Facts(s) = {s[i].m : i \in DOMAIN s}
         /\ \A i \in DOMAIN s : s[i] \in Entry /\ s[i].m \in Mutation /\ s[i].m \in Facts(s)
         /\ DOMAIN s = 1..Len(s) /\ Len(s) \in Nat
<1>1. \A i \in DOMAIN s : s[i] \in Entry
  OBVIOUS
<1>2. \A e \in Entry : e.m \in Mutation
  BY DEF Entry
<1>3. DOMAIN s = 1..Len(s) /\ Len(s) \in Nat
  OBVIOUS
<1> QED BY <1>1, <1>2, <1>3 DEF Facts, Items

\* What leaving items out of a list keeps.
LEMMA WithinKeeps ==
  ASSUME NEW s \in Seq(Entry), NEW t \in Seq(Entry), Within(t, s)
  PROVE  /\ Facts(t) \subseteq Facts(s)
         /\ OneSlot(s) => OneSlot(t)
         /\ InTurn(s) => InTurn(t)
<1>1. PICK place \in [DOMAIN t -> DOMAIN s] :
        /\ \A k \in DOMAIN t : t[k].m = s[place[k]].m
        /\ \A k, l \in DOMAIN t : k < l => place[k] < place[l]
  BY DEF Within
<1>2. DOMAIN t \subseteq Int /\ DOMAIN s \subseteq Int
  OBVIOUS
<1>3. Facts(t) \subseteq Facts(s)
  BY <1>1, FactsAreMutations
<1>4. ASSUME OneSlot(s) PROVE OneSlot(t)
  <2>1. SUFFICES ASSUME NEW i \in DOMAIN t, NEW j \in DOMAIN t, SameSlot(t[i].m, t[j].m), i # j PROVE FALSE
    BY DEF OneSlot
  <2>2. place[i] = place[j]
    BY <1>1, <1>4, <2>1 DEF OneSlot
  <2> QED BY <1>1, <1>2, <2>1, <2>2
<1>5. ASSUME InTurn(s) PROVE InTurn(t)
  BY <1>1, <1>5 DEF InTurn
<1> QED BY <1>3, <1>4, <1>5

\* Pruning leaves out ends of the session that a turn begun later supersedes.
LEMMA PruneProperties ==
  ASSUME NEW s \in Seq(Entry)
  PROVE  /\ Prune(s) \in Seq(Entry) /\ Within(Prune(s), s)
         /\ Covers(Facts(Prune(s)), Facts(s))
<1> DEFINE I == {i \in DOMAIN s : ~Superseded(s[i], s)}
           t == Prune(s)
<1>1. t = AtPlaces(s, I)
  BY DEF Prune
<1>2. I \in SUBSET (DOMAIN s)
  OBVIOUS
<1> HIDE DEF I, t
<1>3. t \in Seq(Entry)
  BY <1>1, <1>2, AtPlacesProperties
<1>4. PICK place \in [DOMAIN t -> I] :
        /\ \A k \in DOMAIN t : t[k] = s[place[k]]
        /\ \A k, l \in DOMAIN t : k < l => place[k] < place[l]
        /\ \A i \in I : \E k \in DOMAIN t : place[k] = i
  BY <1>1, <1>2, AtPlacesProperties DEF Picks
<1>5. Within(t, s)
  <2>1. place \in [DOMAIN t -> DOMAIN s]
    BY <1>2, <1>4
  <2> QED BY <1>4, <2>1 DEF Within
<1>6. \A i \in I : s[i].m \in Facts(t)
  BY <1>3, <1>4, FactsAreMutations
<1>7. ASSUME NEW m \in Facts(s) PROVE Covered(m, Facts(t))
  <2>1. PICK i \in DOMAIN s : m = s[i].m
    BY <1>7, FactsAreMutations
  <2>2. CASE i \in I
    BY <1>6, <2>1, <2>2 DEF Covered
  <2>3. CASE i \notin I
    <3>1. m.kind = "end" /\ \E f \in Items(s) : f.m.kind = "begin" /\ f.m.at > m.at
      BY <2>1, <2>3 DEF I, Superseded
    <3>2. PICK j \in DOMAIN s : s[j].m.kind = "begin" /\ s[j].m.at > m.at
      BY <3>1 DEF Items
    <3>3. j \in I
      BY <3>2 DEF I, Superseded
    <3>4. Supersedes(s[j].m, m)
      BY <3>1, <3>2 DEF Supersedes, IsTurn
    <3> QED BY <1>6, <3>3, <3>4 DEF Covered
  <2> QED BY <2>2, <2>3
<1> QED BY <1>3, <1>5, <1>7 DEF Covers, t

\* What Array.findIndex finds in `later` for an item of `earlier`.
Newer(e, s) == {f \in Items(s) : SameSlot(f.m, e.m) /\ Replaces(f.m, e.m)}

\* From place n on, r has the items of t at the places I, in their order.
PicksFrom(r, n, t, I) ==
  \E place \in [n + 1 .. Len(r) -> DOMAIN t] :
    /\ \A k \in n + 1 .. Len(r) : r[k] = t[place[k]] /\ place[k] \in I
    /\ \A k, l \in n + 1 .. Len(r) : k < l => place[k] < place[l]
    /\ \A j \in I : \E k \in n + 1 .. Len(r) : place[k] = j

\* The places of t whose slots s does not hold.
Untaken(t, s) == {j \in DOMAIN t : \A e \in Items(s) : ~SameSlot(t[j].m, e.m)}

\* Merge item by item: first those of s, each replaced or not, then those of t
\* that found no slot taken.
LEMMA MergeItems ==
  ASSUME NEW s \in Seq(Entry), NEW t \in Seq(Entry)
  PROVE  /\ Merge(s, t) \in Seq(Entry) /\ Len(Merge(s, t)) >= Len(s)
         /\ \A i \in DOMAIN s : \/ Newer(s[i], t) = {} /\ Merge(s, t)[i] = s[i]
                              \/ Merge(s, t)[i] \in Newer(s[i], t)
         /\ PicksFrom(Merge(s, t), Len(s), t, Untaken(t, s))
<1> DEFINE I == Untaken(t, s)
           front == [i \in DOMAIN s |-> IF Newer(s[i], t) = {} THEN s[i] ELSE CHOOSE f \in Newer(s[i], t) : TRUE]
           back == AtPlaces(t, I)
           n == Len(s)
           N == Len(s) + Len(back)
<1>1. Merge(s, t) = front \o back
  BY DEF Merge, Newer, Untaken
<1>2. I \in SUBSET (DOMAIN t)
  BY DEF Untaken
<1>3. \A i \in DOMAIN s : /\ front[i] \in Entry
                         /\ \/ Newer(s[i], t) = {} /\ front[i] = s[i]
                            \/ front[i] \in Newer(s[i], t)
  <2>1. \A i \in DOMAIN s : s[i] \in Entry /\ Newer(s[i], t) \subseteq Entry
    BY FactsAreMutations DEF Newer, Items
  <2> QED BY <2>1
<1>4. front \in Seq(Entry) /\ Len(front) = n /\ n \in Nat /\ DOMAIN s = 1..n
  BY <1>3
<1> HIDE DEF I, front
<1>0. back = AtPlaces(t, I)
  OBVIOUS
<1> HIDE DEF back
<1>5. back \in Seq(Entry)
  BY <1>0, <1>2, AtPlacesProperties
<1>6. PICK at \in [DOMAIN back -> I] :
        /\ \A k \in DOMAIN back : back[k] = t[at[k]]
        /\ \A k, l \in DOMAIN back : k < l => at[k] < at[l]
        /\ \A i \in I : \E k \in DOMAIN back : at[k] = i
  <2>1. Picks(back, t, I)
    BY <1>0, <1>2, AtPlacesProperties
  <2> QED BY <2>1 DEF Picks
<1>7. DOMAIN back = 1..Len(back) /\ Len(back) \in Nat
  BY <1>5
<1>8. /\ Merge(s, t) \in Seq(Entry) /\ Len(Merge(s, t)) = N
      /\ \A i \in 1..n : Merge(s, t)[i] = front[i]
      /\ \A i \in n + 1 .. N : Merge(s, t)[i] = back[i - n]
  <2>1. \A i \in 1..N : (front \o back)[i] = IF i <= n THEN front[i] ELSE back[i - n]
    BY <1>4, <1>5, ConcatProperties
  <2>2. front \o back \in Seq(Entry) /\ Len(front \o back) = N
    <3>1. Len(front \o back) = Len(front) + Len(back)
      BY <1>4, <1>5, ConcatProperties
    <3> QED BY <1>4, <1>5, <3>1, ConcatProperties
  <2>3. \A i \in 1..n : i \in 1..N /\ i <= n
    BY <1>4, <1>7
  <2>4. \A i \in n + 1 .. N : i \in 1..N /\ ~(i <= n)
    BY <1>4, <1>7
  <2> QED BY <1>1, <2>1, <2>2, <2>3, <2>4
<1> DEFINE place == [k \in n + 1 .. N |-> at[k - n]]
<1>9. \A k \in n + 1 .. N : k - n \in DOMAIN back
  BY <1>4, <1>7
<1>10. /\ place \in [n + 1 .. N -> DOMAIN t]
       /\ \A k \in n + 1 .. N : Merge(s, t)[k] = t[place[k]] /\ place[k] \in I
  BY <1>2, <1>6, <1>8, <1>9
<1>11. \A k, l \in n + 1 .. N : k < l => place[k] < place[l]
  <2>1. \A k, l \in n + 1 .. N : k < l => k - n < l - n
    BY <1>4, <1>7
  <2> QED BY <1>6, <1>9, <2>1
<1>12. \A j \in I : \E k \in n + 1 .. N : place[k] = j
  <2>1. TAKE j \in I
  <2>2. PICK k \in DOMAIN back : at[k] = j
    BY <1>6
  <2>3. k + n \in n + 1 .. N /\ (k + n) - n = k
    BY <1>4, <1>7
  <2> QED BY <2>2, <2>3
<1> HIDE DEF place
<1>13. N >= n
  BY <1>4, <1>7
<1>15. /\ Merge(s, t) \in Seq(Entry) /\ Len(Merge(s, t)) >= Len(s)
       /\ \A i \in DOMAIN s : \/ Newer(s[i], t) = {} /\ Merge(s, t)[i] = s[i]
                            \/ Merge(s, t)[i] \in Newer(s[i], t)
  BY <1>3, <1>4, <1>8, <1>13
<1>16. PicksFrom(Merge(s, t), n, t, I)
  <2>1. N = Len(Merge(s, t))
    BY <1>8
  <2> HIDE DEF n, N
  <2>2. /\ place \in [n + 1 .. Len(Merge(s, t)) -> DOMAIN t]
        /\ \A k \in n + 1 .. Len(Merge(s, t)) : Merge(s, t)[k] = t[place[k]] /\ place[k] \in I
        /\ \A k, l \in n + 1 .. Len(Merge(s, t)) : k < l => place[k] < place[l]
        /\ \A j \in I : \E k \in n + 1 .. Len(Merge(s, t)) : place[k] = j
    BY <1>10, <1>11, <1>12, <2>1
  <2> QED BY <2>2 DEF PicksFrom
<1> QED BY <1>15, <1>16 DEF I

NoOlder(S, n) == \A m \in S : ~OlderSnapshot(m, n)

\* What is at a place of a merge.
LEMMA MergedItem ==
  ASSUME NEW s \in Seq(Entry), NEW t \in Seq(Entry), NEW k \in DOMAIN Merge(s, t)
  PROVE  \/ /\ k \in DOMAIN s /\ Newer(s[k], t) = {} /\ Merge(s, t)[k].m = s[k].m
         \/ /\ k \in DOMAIN s
            /\ \E j \in DOMAIN t : /\ SameSlot(t[j].m, s[k].m) /\ Replaces(t[j].m, s[k].m)
                                  /\ Merge(s, t)[k].m = t[j].m
         \/ /\ k \in Len(s) + 1 .. Len(Merge(s, t)) /\ k \notin DOMAIN s
            /\ \E j \in Untaken(t, s) : Merge(s, t)[k].m = t[j].m
<1>1. DOMAIN s = 1..Len(s) /\ Len(s) \in Nat /\ DOMAIN Merge(s, t) = 1..Len(Merge(s, t))
      /\ Len(Merge(s, t)) \in Nat
  BY MergeItems, FactsAreMutations
<1>2. CASE k \in DOMAIN s
  <2>1. CASE Newer(s[k], t) = {} /\ Merge(s, t)[k] = s[k]
    BY <1>2, <2>1
  <2>2. CASE Merge(s, t)[k] \in Newer(s[k], t)
    <3>1. PICK j \in DOMAIN t : /\ SameSlot(t[j].m, s[k].m) /\ Replaces(t[j].m, s[k].m)
                              /\ Merge(s, t)[k] = t[j]
      BY <2>2 DEF Newer, Items
    <3> QED BY <1>2, <3>1
  <2> QED BY <1>2, <2>1, <2>2, MergeItems
<1>3. CASE k \notin DOMAIN s
  <2>1. k \in Len(s) + 1 .. Len(Merge(s, t))
    BY <1>1, <1>3
  <2>2. \E j \in Untaken(t, s) : Merge(s, t)[k] = t[j]
    BY <2>1, MergeItems DEF PicksFrom
  <2> QED BY <1>3, <2>1, <2>2
<1> QED BY <1>2, <1>3

\* A merge has no mutation that neither list had.
LEMMA MergeFacts ==
  ASSUME NEW s \in Seq(Entry), NEW t \in Seq(Entry)
  PROVE  Facts(Merge(s, t)) \subseteq Facts(s) \cup Facts(t)
<1> SUFFICES ASSUME NEW m \in Facts(Merge(s, t)) PROVE m \in Facts(s) \cup Facts(t)
  OBVIOUS
<1>1. PICK k \in DOMAIN Merge(s, t) : Merge(s, t)[k].m = m
  BY DEF Facts, Items
<1>2. Untaken(t, s) \subseteq DOMAIN t
  BY DEF Untaken
<1> QED BY <1>1, <1>2, MergedItem, FactsAreMutations

\* A merge of lists that hold a slot once holds a slot once.
LEMMA MergeOneSlot ==
  ASSUME NEW s \in Seq(Entry), NEW t \in Seq(Entry), OneSlot(s), OneSlot(t)
  PROVE  OneSlot(Merge(s, t))
<1> DEFINE r == Merge(s, t)
<1>1. \A k \in DOMAIN r : k \in DOMAIN s => SameSlot(r[k].m, s[k].m)
  BY MergedItem, SameSlotIsSame
<1>2. \A k \in DOMAIN r : k \notin DOMAIN s => \A i \in DOMAIN s : ~SameSlot(r[k].m, s[i].m)
  BY MergedItem DEF Untaken, Items
<1>3. ASSUME NEW k \in DOMAIN r, NEW l \in DOMAIN r, k \notin DOMAIN s, l \notin DOMAIN s,
             SameSlot(r[k].m, r[l].m)
      PROVE  k = l
  <2>1. PICK place \in [Len(s) + 1 .. Len(r) -> DOMAIN t] :
          /\ \A i \in Len(s) + 1 .. Len(r) : r[i] = t[place[i]]
          /\ \A i, j \in Len(s) + 1 .. Len(r) : i < j => place[i] < place[j]
    BY MergeItems DEF PicksFrom
  <2>2. k \in Len(s) + 1 .. Len(r) /\ l \in Len(s) + 1 .. Len(r)
    BY <1>3, MergedItem
  <2>3. place[k] = place[l]
    BY <1>3, <2>1, <2>2 DEF OneSlot
  <2>4. place[k] \in Int /\ k \in Int /\ l \in Int
    BY <2>1, <2>2, FactsAreMutations
  <2> QED BY <2>1, <2>2, <2>3, <2>4
<1>4. ASSUME NEW k \in DOMAIN r, NEW l \in DOMAIN r, SameSlot(r[k].m, r[l].m) PROVE k = l
  <2>1. CASE k \in DOMAIN s /\ l \in DOMAIN s
    <3>1. SameSlot(s[k].m, s[l].m)
      BY <1>1, <1>4, <2>1, SameSlotIsSame
    <3> QED BY <2>1, <3>1 DEF OneSlot
  <2>2. CASE k \in DOMAIN s /\ l \notin DOMAIN s
    BY <1>1, <1>2, <1>4, <2>2, SameSlotIsSame
  <2>3. CASE k \notin DOMAIN s /\ l \in DOMAIN s
    BY <1>1, <1>2, <1>4, <2>3, SameSlotIsSame
  <2>4. CASE k \notin DOMAIN s /\ l \notin DOMAIN s
    BY <1>3, <1>4, <2>4
  <2> QED BY <2>1, <2>2, <2>3, <2>4
<1> QED BY <1>4 DEF OneSlot

\* A merge keeps turns in order when those of the second list come later.
LEMMA MergeInTurn ==
  ASSUME NEW s \in Seq(Entry), NEW t \in Seq(Entry), InTurn(s), InTurn(t), Before(Facts(s), Facts(t))
  PROVE  InTurn(Merge(s, t))
<1> DEFINE r == Merge(s, t)
<1>1. \A k \in DOMAIN r : k \in DOMAIN s /\ IsTurn(r[k].m) => r[k].m = s[k].m
  BY MergedItem, SameSlotIsSame
<1>2. PICK place \in [Len(s) + 1 .. Len(r) -> DOMAIN t] :
        /\ \A i \in Len(s) + 1 .. Len(r) : r[i] = t[place[i]]
        /\ \A i, j \in Len(s) + 1 .. Len(r) : i < j => place[i] < place[j]
  BY MergeItems DEF PicksFrom
<1>3. DOMAIN r = 1..Len(r) /\ DOMAIN s = 1..Len(s) /\ Len(s) \in Nat /\ Len(r) \in Nat
  BY MergeItems, FactsAreMutations
<1>4. ASSUME NEW i \in DOMAIN r, NEW j \in DOMAIN r, i < j, IsTurn(r[i].m), IsTurn(r[j].m)
      PROVE  r[i].m.at < r[j].m.at
  <2>1. CASE j \in DOMAIN s
    <3>1. i \in DOMAIN s
      BY <1>3, <1>4, <2>1
    <3> QED BY <1>1, <1>4, <2>1, <3>1 DEF InTurn
  <2>2. CASE i \in DOMAIN s /\ j \notin DOMAIN s
    <3>1. r[i].m \in Facts(s)
      BY <1>1, <1>4, <2>2, FactsAreMutations
    <3>2. j \in Len(s) + 1 .. Len(r)
      BY <1>3, <2>2
    <3>3. r[j].m \in Facts(t)
      BY <1>2, <3>2, FactsAreMutations
    <3> QED BY <1>4, <3>1, <3>3 DEF Before
  <2>3. CASE i \notin DOMAIN s /\ j \notin DOMAIN s
    <3>1. i \in Len(s) + 1 .. Len(r) /\ j \in Len(s) + 1 .. Len(r)
      BY <1>3, <2>3
    <3> QED BY <1>2, <1>4, <3>1 DEF InTurn
  <2> QED BY <2>1, <2>2, <2>3
<1> QED BY <1>4 DEF InTurn

\* A merge covers all that both lists had.
LEMMA MergeCovers ==
  ASSUME NEW s \in Seq(Entry), NEW t \in Seq(Entry), OneSlot(t)
  PROVE  Covers(Facts(Merge(s, t)), Facts(s) \cup Facts(t))
<1> DEFINE r == Merge(s, t)
<1>1. r \in Seq(Entry) /\ DOMAIN s \subseteq DOMAIN r /\ \A k \in DOMAIN r : r[k].m \in Facts(r)
  BY MergeItems, FactsAreMutations
<1>2. ASSUME NEW i \in DOMAIN s PROVE Covered(s[i].m, Facts(r))
  <2>1. SameSlot(r[i].m, s[i].m) /\ (r[i].m = s[i].m \/ Replaces(r[i].m, s[i].m))
    BY <1>1, MergedItem, SameSlotIsSame
  <2>2. r[i].m = s[i].m \/ Supersedes(r[i].m, s[i].m)
    BY <2>1, SameSlotIsSame DEF Supersedes, SameSlot, Replaces, IsTurn
  <2> QED BY <1>1, <2>2 DEF Covered
<1>3. ASSUME NEW j \in DOMAIN t PROVE Covered(t[j].m, Facts(r))
  <2>1. CASE j \in Untaken(t, s)
    <3>1. PICK k \in Len(s) + 1 .. Len(r) : r[k] = t[j]
      BY <2>1, MergeItems DEF PicksFrom
    <3>2. k \in DOMAIN r
      BY <1>1, FactsAreMutations
    <3> QED BY <1>1, <3>1, <3>2 DEF Covered
  <2>2. CASE j \notin Untaken(t, s)
    <3>1. PICK i \in DOMAIN s : SameSlot(t[j].m, s[i].m)
      BY <2>2 DEF Untaken, Items
    <3>2. CASE Replaces(t[j].m, s[i].m)
      <4>1. Newer(s[i], t) # {}
        BY <3>1, <3>2 DEF Newer, Items
      <4>2. PICK l \in DOMAIN t : SameSlot(t[l].m, s[i].m) /\ r[i].m = t[l].m
        BY <1>1, <4>1, MergedItem
      <4>3. l = j
        BY <3>1, <4>2, SameSlotIsSame DEF OneSlot
      <4> QED BY <1>1, <4>2, <4>3 DEF Covered
    <3>3. CASE ~Replaces(t[j].m, s[i].m)
      <4>1. s[i].m \in Mutation /\ t[j].m \in Mutation
        BY FactsAreMutations
      <4>2. s[i].m.at > t[j].m.at
        BY <3>3, <4>1, TimesDistinguish DEF Replaces
      <4>3. Supersedes(s[i].m, t[j].m)
        BY <3>1, <4>1, <4>2, SameSlotIsSame, TimesDistinguish DEF Supersedes, SameSlot
      <4>4. r[i].m = s[i].m
        <5>1. SUFFICES ASSUME r[i].m # s[i].m PROVE FALSE
          OBVIOUS
        <5>2. PICK l \in DOMAIN t : SameSlot(t[l].m, s[i].m) /\ Replaces(t[l].m, s[i].m)
          BY <1>1, <5>1, MergedItem
        <5>3. l = j
          BY <3>1, <5>2, SameSlotIsSame DEF OneSlot
        <5> QED BY <3>3, <5>2, <5>3
      <4> QED BY <1>1, <4>3, <4>4 DEF Covered
    <3> QED BY <3>2, <3>3
  <2> QED BY <2>1, <2>2
<1> QED BY <1>2, <1>3, FactsAreMutations DEF Covers

\* Merged under lists that have a newer one, a snapshot is gone.
LEMMA MergeNoOlder ==
  ASSUME NEW s \in Seq(Entry), NEW t \in Seq(Entry), NEW n \in Mutation, n.kind = "snapshot",
         NoOlder(Facts(t), n),
         NoOlder(Facts(s), n) \/ \E f \in Facts(t) : SameSlot(f, n) /\ f.at >= n.at
  PROVE  NoOlder(Facts(Merge(s, t)), n)
<1> SUFFICES ASSUME NEW m \in Facts(Merge(s, t)), OlderSnapshot(m, n) PROVE FALSE
  BY DEF NoOlder
<1>1. PICK k \in DOMAIN Merge(s, t) : Merge(s, t)[k].m = m
  BY DEF Facts, Items
<1>2. m \notin Facts(t)
  BY DEF NoOlder
<1>3. k \in DOMAIN s /\ Newer(s[k], t) = {} /\ m = s[k].m
  <2>1. Untaken(t, s) \subseteq DOMAIN t
    BY DEF Untaken
  <2>2. \A j \in DOMAIN t : t[j].m # m
    BY <1>2, FactsAreMutations
  <2>3. CASE k \in DOMAIN s /\ Newer(s[k], t) = {} /\ Merge(s, t)[k].m = s[k].m
    BY <1>1, <2>3
  <2>4. CASE \E j \in DOMAIN t : Merge(s, t)[k].m = t[j].m
    BY <1>1, <2>2, <2>4
  <2>5. CASE \E j \in Untaken(t, s) : Merge(s, t)[k].m = t[j].m
    BY <1>1, <2>1, <2>2, <2>5
  <2>6. \/ k \in DOMAIN s /\ Newer(s[k], t) = {} /\ Merge(s, t)[k].m = s[k].m
        \/ \E j \in DOMAIN t : Merge(s, t)[k].m = t[j].m
        \/ \E j \in Untaken(t, s) : Merge(s, t)[k].m = t[j].m
    BY <1>1, MergedItem
  <2> QED BY <2>3, <2>4, <2>5, <2>6
<1>4. PICK j \in DOMAIN t : SameSlot(t[j].m, n) /\ t[j].m.at >= n.at
  BY <1>3, FactsAreMutations DEF NoOlder
<1>5. m \in Mutation /\ t[j].m \in Mutation
  BY <1>3, FactsAreMutations
<1>6. SameSlot(t[j].m, m) /\ Replaces(t[j].m, m)
  BY <1>4, <1>5, TimesDistinguish DEF SameSlot, IsTurn, OlderSnapshot, Replaces
<1> QED BY <1>3, <1>6 DEF Newer, Items

\* t has the mutations of s in the places of s.
Alike(t, s) == Len(t) = Len(s) /\ \A i \in DOMAIN s : t[i].m = s[i].m

\* A list that differs in attempts and times alone has the same mutations.
LEMMA AlikeIsWithin ==
  ASSUME NEW s \in Seq(Entry), NEW t \in Seq(Entry), Alike(t, s)
  PROVE  Within(t, s) /\ Facts(t) = Facts(s)
<1>1. DOMAIN t = DOMAIN s
  BY FactsAreMutations DEF Alike
<1>2. [i \in DOMAIN t |-> i] \in [DOMAIN t -> DOMAIN s]
  BY <1>1
<1>3. Within(t, s)
  BY <1>1, <1>2 DEF Within, Alike
<1>4. \A i \in DOMAIN s : t[i].m = s[i].m
  BY DEF Alike
<1>5. Facts(t) = {t[i].m : i \in DOMAIN s} /\ Facts(s) = {s[i].m : i \in DOMAIN s}
  BY <1>1, FactsAreMutations
<1> QED BY <1>3, <1>4, <1>5

\* The mutations of two lists end to end.
LEMMA ConcatFacts ==
  ASSUME NEW s \in Seq(Entry), NEW t \in Seq(Entry)
  PROVE  /\ s \o t \in Seq(Entry) /\ Len(s \o t) = Len(s) + Len(t)
         /\ \A i \in DOMAIN s : i \in DOMAIN (s \o t) /\ (s \o t)[i] = s[i]
         /\ \A i \in DOMAIN t : Len(s) + i \in DOMAIN (s \o t) /\ (s \o t)[Len(s) + i] = t[i]
         /\ \A k \in DOMAIN (s \o t) : k \in DOMAIN s \/ k - Len(s) \in DOMAIN t
         /\ Facts(s \o t) = Facts(s) \cup Facts(t)
<1>1. /\ DOMAIN s = 1..Len(s) /\ DOMAIN t = 1..Len(t) /\ Len(s) \in Nat /\ Len(t) \in Nat
  BY FactsAreMutations
<1>2. /\ s \o t \in Seq(Entry) /\ Len(s \o t) = Len(s) + Len(t)
      /\ \A i \in 1..Len(s) + Len(t) : (s \o t)[i] = IF i <= Len(s) THEN s[i] ELSE t[i - Len(s)]
  BY ConcatProperties
<1>3. DOMAIN (s \o t) = 1..(Len(s) + Len(t))
  BY <1>2, FactsAreMutations
<1>4. \A i \in DOMAIN s : i \in DOMAIN (s \o t) /\ (s \o t)[i] = s[i]
  BY <1>1, <1>2, <1>3
<1>5. \A i \in DOMAIN t : Len(s) + i \in DOMAIN (s \o t) /\ (s \o t)[Len(s) + i] = t[i]
  <2>1. \A i \in 1..Len(t) : /\ Len(s) + i \in 1..(Len(s) + Len(t)) /\ ~(Len(s) + i <= Len(s))
                             /\ (Len(s) + i) - Len(s) = i
    BY <1>1
  <2> QED BY <1>1, <1>2, <1>3, <2>1
<1>6. \A k \in DOMAIN (s \o t) : k \in DOMAIN s \/ k - Len(s) \in DOMAIN t
  BY <1>1, <1>3
<1>7. \A k \in DOMAIN (s \o t) : k \notin DOMAIN s => Len(s) + (k - Len(s)) = k
  BY <1>1, <1>3
<1>8. Facts(s \o t) \subseteq Facts(s) \cup Facts(t)
  <2>0. Facts(s \o t) = {(s \o t)[k].m : k \in DOMAIN (s \o t)}
    BY <1>2, FactsAreMutations
  <2>1. SUFFICES ASSUME NEW k \in DOMAIN (s \o t) PROVE (s \o t)[k].m \in Facts(s) \cup Facts(t)
    BY <2>0
  <2>2. CASE k \in DOMAIN s
    BY <1>4, <2>2, FactsAreMutations
  <2>3. CASE k \notin DOMAIN s
    BY <1>5, <1>6, <1>7, <2>3, FactsAreMutations
  <2> QED BY <2>2, <2>3
<1>9. Facts(s) \cup Facts(t) \subseteq Facts(s \o t)
  <2>1. \A i \in DOMAIN s : s[i].m \in Facts(s \o t)
    BY <1>2, <1>4, FactsAreMutations
  <2>2. \A i \in DOMAIN t : t[i].m \in Facts(s \o t)
    BY <1>2, <1>5, FactsAreMutations
  <2> QED BY <2>1, <2>2, FactsAreMutations
<1> QED BY <1>2, <1>4, <1>5, <1>6, <1>8, <1>9

\* A list of well-placed mutations in two pieces.
LEMMA Pieces ==
  ASSUME NEW s \in Seq(Entry), NEW t \in Seq(Entry), OneSlot(s \o t), InTurn(s \o t)
  PROVE  OneSlot(s) /\ OneSlot(t) /\ InTurn(s) /\ InTurn(t) /\ Before(Facts(s), Facts(t))
<1>1. /\ DOMAIN s = 1..Len(s) /\ DOMAIN t = 1..Len(t) /\ Len(s) \in Nat /\ Len(t) \in Nat
  BY FactsAreMutations
<1>2. OneSlot(s) /\ InTurn(s)
  BY ConcatFacts DEF OneSlot, InTurn
<1>3. OneSlot(t)
  <2>1. SUFFICES ASSUME NEW i \in DOMAIN t, NEW j \in DOMAIN t, SameSlot(t[i].m, t[j].m) PROVE i = j
    BY DEF OneSlot
  <2>2. Len(s) + i = Len(s) + j
    BY <2>1, ConcatFacts DEF OneSlot
  <2> QED BY <1>1, <2>2
<1>4. InTurn(t)
  <2>1. SUFFICES ASSUME NEW i \in DOMAIN t, NEW j \in DOMAIN t, i < j, IsTurn(t[i].m), IsTurn(t[j].m)
                 PROVE t[i].m.at < t[j].m.at
    BY DEF InTurn
  <2>2. Len(s) + i < Len(s) + j
    BY <1>1, <2>1
  <2>3. /\ Len(s) + i \in DOMAIN (s \o t) /\ (s \o t)[Len(s) + i] = t[i]
        /\ Len(s) + j \in DOMAIN (s \o t) /\ (s \o t)[Len(s) + j] = t[j]
    BY ConcatFacts
  <2> QED BY <2>1, <2>2, <2>3 DEF InTurn
<1>5. Before(Facts(s), Facts(t))
  <2>1. SUFFICES ASSUME NEW i \in DOMAIN s, NEW j \in DOMAIN t, IsTurn(s[i].m), IsTurn(t[j].m)
                 PROVE s[i].m.at < t[j].m.at
    BY FactsAreMutations DEF Before
  <2>2. i < Len(s) + j
    BY <1>1
  <2>3. /\ i \in DOMAIN (s \o t) /\ (s \o t)[i] = s[i]
        /\ Len(s) + j \in DOMAIN (s \o t) /\ (s \o t)[Len(s) + j] = t[j]
    BY ConcatFacts
  <2> QED BY <2>1, <2>2, <2>3 DEF InTurn
<1> QED BY <1>2, <1>3, <1>4, <1>5

\* The item the flush has come to moves to what it keeps, or stays at its place.
LEMMA KeptOn ==
  ASSUME NEW k \in Seq(Entry), NEW b \in Seq(Entry), b # <<>>, NEW e \in Entry, e.m = Head(b).m
  PROVE  /\ Tail(b) \in Seq(Entry) /\ Append(k, e) \in Seq(Entry)
         /\ Append(k, e) \o Tail(b) = (k \o <<e>>) \o Tail(b)
         /\ (k \o <<e>>) \o Tail(b) \in Seq(Entry) /\ Alike((k \o <<e>>) \o Tail(b), k \o b)
<1> DEFINE r == (k \o <<e>>) \o Tail(b)
<1>1. Len(b) \in Nat /\ Len(b) # 0 /\ Len(k) \in Nat /\ DOMAIN b = 1..Len(b)
  BY FactsAreMutations
<1>2. /\ Tail(b) \in Seq(Entry) /\ Len(Tail(b)) = Len(b) - 1
      /\ \A i \in 1..Len(b) - 1 : Tail(b)[i] = b[i + 1]
      /\ Head(b) = b[1]
  BY <1>1
<1>3. /\ <<e>> \in Seq(Entry) /\ Len(<<e>>) = 1 /\ <<e>>[1] = e
  OBVIOUS
<1>4. Append(k, e) = k \o <<e>> /\ Append(k, e) \in Seq(Entry)
  BY <1>3, AppendIsConcat
<1>5. k \o <<e>> \in Seq(Entry) /\ Len(k \o <<e>>) = Len(k) + 1
      /\ \A i \in 1..Len(k) + 1 : (k \o <<e>>)[i] = IF i <= Len(k) THEN k[i] ELSE <<e>>[i - Len(k)]
  BY <1>3, ConcatProperties
<1>6. r \in Seq(Entry) /\ Len(r) = Len(k) + Len(b)
      /\ \A i \in 1..Len(k) + Len(b) : r[i] = IF i <= Len(k) + 1 THEN (k \o <<e>>)[i] ELSE Tail(b)[i - (Len(k) + 1)]
  <2>1. Len(r) = (Len(k) + 1) + (Len(b) - 1) /\ r \in Seq(Entry)
    BY <1>2, <1>5, ConcatProperties
  <2>2. (Len(k) + 1) + (Len(b) - 1) = Len(k) + Len(b)
    BY <1>1
  <2> QED BY <1>2, <1>5, <2>1, <2>2, ConcatProperties
<1>7. /\ k \o b \in Seq(Entry) /\ Len(k \o b) = Len(k) + Len(b)
      /\ \A i \in 1..Len(k) + Len(b) : (k \o b)[i] = IF i <= Len(k) THEN k[i] ELSE b[i - Len(k)]
  BY ConcatProperties
<1>8. ASSUME NEW i \in 1..Len(k) + Len(b) PROVE r[i].m = (k \o b)[i].m
  <2>1. CASE i <= Len(k)
    BY <1>1, <1>5, <1>6, <1>7, <2>1
  <2>2. CASE i = Len(k) + 1
    <3>1. i \in 1..Len(k) + 1 /\ ~(i <= Len(k)) /\ i - Len(k) = 1 /\ i <= Len(k) + 1
      BY <1>1, <2>2
    <3>2. r[i] = e
      BY <1>3, <1>5, <1>6, <3>1
    <3>3. (k \o b)[i] = Head(b)
      BY <1>2, <1>7, <3>1
    <3> QED BY <3>2, <3>3
  <2>3. CASE i > Len(k) + 1
    <3>1. /\ ~(i <= Len(k)) /\ ~(i <= Len(k) + 1) /\ i - (Len(k) + 1) \in 1..Len(b) - 1
          /\ (i - (Len(k) + 1)) + 1 = i - Len(k)
      BY <1>1, <2>3
    <3> QED BY <1>2, <1>6, <1>7, <3>1
  <2> QED BY <1>1, <2>1, <2>2, <2>3
<1>9. Alike(r, k \o b)
  <2>1. DOMAIN (k \o b) = 1..Len(k) + Len(b)
    BY <1>7, FactsAreMutations
  <2> QED BY <1>6, <1>7, <1>8, <2>1 DEF Alike
<1> QED BY <1>2, <1>4, <1>6, <1>9

\* The flush is done with the item it has come to, and with n items behind it.
LEMMA DoneWith ==
  ASSUME NEW k \in Seq(Entry), NEW b \in Seq(Entry), b # <<>>, NEW n \in 0..Len(Tail(b))
  PROVE  LET rest == Tail(b) IN
         /\ rest \in Seq(Entry) /\ Head(b) \in Entry /\ Head(b).m \in Facts(b)
         /\ SubSeq(rest, 1, n) \in Seq(Entry)
         /\ SubSeq(rest, n + 1, Len(rest)) \in Seq(Entry)
         /\ Within(k \o SubSeq(rest, n + 1, Len(rest)), k \o b)
         /\ Facts(b) \subseteq Facts(SubSeq(rest, n + 1, Len(rest))) \cup {Head(b).m} \cup Facts(SubSeq(rest, 1, n))
<1> DEFINE rest == Tail(b)
           u == SubSeq(rest, n + 1, Len(rest))
           v == SubSeq(rest, 1, n)
           N == Len(b)
<1>1. N \in Nat /\ N # 0 /\ Len(k) \in Nat /\ DOMAIN b = 1..N /\ DOMAIN k = 1..Len(k)
  BY FactsAreMutations
<1>2. /\ rest \in Seq(Entry) /\ Len(rest) = N - 1
      /\ \A i \in 1..N - 1 : rest[i] = b[i + 1]
      /\ Head(b) = b[1] /\ 1 \in DOMAIN b
  BY <1>1
<1>3. n \in Nat /\ n <= N - 1
  BY <1>1, <1>2
<1>4. /\ v \in Seq(Entry) /\ Len(v) = n
      /\ \A i \in 1..n : v[i] = rest[i]
  <2>1. \A i \in 1..n : rest[i] \in Entry
    BY <1>2, <1>3
  <2> QED BY <1>3, <2>1, SubSeqProperties
<1>5. /\ u \in Seq(Entry) /\ Len(u) = (N - 1) - n
      /\ \A i \in 1..(N - 1) - n : u[i] = rest[n + i]
  <2>1. \A i \in n + 1 .. N - 1 : rest[i] \in Entry
    BY <1>2, <1>3
  <2> DEFINE M == N - 1
  <2>2. M \in Int /\ n + 1 \in Int /\ M = Len(rest)
    BY <1>1, <1>2, <1>3
  <2>3. /\ u \in Seq(Entry)
        /\ Len(u) = IF n + 1 <= M THEN M - (n + 1) + 1 ELSE 0
        /\ \A i \in 1 .. M - (n + 1) + 1 : u[i] = rest[(n + 1) + i - 1]
    <3> HIDE DEF rest, M
    <3>1. u = SubSeq(rest, n + 1, M)
      BY <2>2
    <3>2. \A i \in n + 1 .. M : rest[i] \in Entry
      BY <2>1 DEF M
    <3> QED BY <2>2, <3>1, <3>2, SubSeqProperties
  <2> HIDE DEF u, rest
  <2>4. /\ M - (n + 1) + 1 = M - n /\ (~(n + 1 <= M) => M - n = 0)
        /\ \A i \in 1 .. M - n : (n + 1) + i - 1 = n + i
    <3>1. M \in Int /\ n \in Int /\ n <= M
      BY <1>1, <1>3
    <3> HIDE DEF M
    <3> QED BY <3>1
  <2> QED BY <2>3, <2>4
<1>6. /\ k \o u \in Seq(Entry) /\ Len(k \o u) = Len(k) + ((N - 1) - n)
      /\ \A i \in 1..Len(k) + ((N - 1) - n) : (k \o u)[i] = IF i <= Len(k) THEN k[i] ELSE u[i - Len(k)]
  <2> DEFINE M == (N - 1) - n
  <2>1. u \in Seq(Entry) /\ Len(u) = M
    BY <1>5
  <2> HIDE DEF u, M
  <2>2. /\ k \o u \in Seq(Entry) /\ Len(k \o u) = Len(k) + Len(u)
        /\ \A i \in 1..Len(k) + Len(u) : (k \o u)[i] = IF i <= Len(k) THEN k[i] ELSE u[i - Len(k)]
    BY <2>1, ConcatProperties
  <2> QED BY <2>1, <2>2 DEF M
<1>7. /\ k \o b \in Seq(Entry) /\ Len(k \o b) = Len(k) + N
      /\ \A i \in 1..Len(k) + N : (k \o b)[i] = IF i <= Len(k) THEN k[i] ELSE b[i - Len(k)]
  BY ConcatProperties
<1>8. DOMAIN (k \o u) = 1..Len(k) + ((N - 1) - n) /\ DOMAIN (k \o b) = 1..Len(k) + N
  BY <1>6, <1>7, FactsAreMutations
<1> DEFINE place == [i \in DOMAIN (k \o u) |-> IF i <= Len(k) THEN i ELSE i + (n + 1)]
<1>9. /\ place \in [DOMAIN (k \o u) -> DOMAIN (k \o b)]
      /\ \A i, j \in DOMAIN (k \o u) : i < j => place[i] < place[j]
  BY <1>1, <1>3, <1>8
<1>10. ASSUME NEW i \in DOMAIN (k \o u) PROVE (k \o u)[i].m = (k \o b)[place[i]].m
  <2>1. CASE i <= Len(k)
    BY <1>1, <1>3, <1>6, <1>7, <1>8, <2>1
  <2>2. CASE ~(i <= Len(k))
    <3>1. /\ place[i] = i + (n + 1) /\ i + (n + 1) \in 1..Len(k) + N /\ ~(i + (n + 1) <= Len(k))
          /\ i - Len(k) \in 1..(N - 1) - n /\ n + (i - Len(k)) \in 1..N - 1
          /\ (n + (i - Len(k))) + 1 = (i + (n + 1)) - Len(k)
      BY <1>1, <1>3, <1>8, <2>2
    <3>2. (k \o b)[place[i]] = b[(i + (n + 1)) - Len(k)]
      BY <1>7, <3>1
    <3>3. (k \o u)[i] = rest[n + (i - Len(k))]
      BY <1>5, <1>6, <1>8, <2>2, <3>1
    <3> QED BY <1>2, <3>1, <3>2, <3>3
  <2> QED BY <2>1, <2>2
<1>11. Within(k \o u, k \o b)
  <2> HIDE DEF place, u
  <2> QED BY <1>9, <1>10 DEF Within
<1>12. ASSUME NEW i \in DOMAIN b PROVE b[i].m \in Facts(u) \cup {Head(b).m} \cup Facts(v)
  <2>1. CASE i = 1
    BY <1>2, <2>1
  <2>2. CASE i # 1 /\ i - 1 <= n
    <3>1. i - 1 \in 1..n /\ i - 1 \in 1..N - 1 /\ (i - 1) + 1 = i
      BY <1>1, <1>3, <2>2
    <3>2. v[i - 1] = b[i]
      BY <1>2, <1>4, <3>1
    <3> QED BY <1>4, <3>1, <3>2, FactsAreMutations
  <2>3. CASE ~(i - 1 <= n)
    <3>1. /\ (i - 1) - n \in 1..(N - 1) - n /\ n + ((i - 1) - n) = i - 1
          /\ i - 1 \in 1..N - 1 /\ (i - 1) + 1 = i
      BY <1>1, <1>3, <2>3
    <3>2. u[(i - 1) - n] = b[i]
      BY <1>2, <1>5, <3>1
    <3> QED BY <1>5, <3>1, <3>2, FactsAreMutations
  <2> QED BY <2>1, <2>2, <2>3
<1>13. Facts(b) \subseteq Facts(u) \cup {Head(b).m} \cup Facts(v)
  BY <1>12, FactsAreMutations
<1>14. Head(b) \in Entry /\ Head(b).m \in Facts(b)
  BY <1>2, FactsAreMutations
<1> QED BY <1>2, <1>4, <1>5, <1>11, <1>13, <1>14

-----------------------------------------------------------------------------
(* What the lists of a process keep of what was promised. *)
\* No snapshot of n's message older than n is in h, or n has not been sent and
\* will replace it.
Stands(q, h, n, A) ==
  /\ NoOlder(Facts(q), n)
  /\ NoOlder(Facts(h), n) \/ (n \notin A /\ \E f \in Facts(q) : SameSlot(f, n) /\ f.at >= n.at)

\* What a process has in its queue q and in hand, h, for the promised mutations
\* P, when those of D are done with and those of A have been sent.
Sound(q, h, P, D, A) ==
  /\ OneSlot(q) /\ OneSlot(h) /\ InTurn(q) /\ InTurn(h) /\ Before(Facts(h), Facts(q))
  /\ Covers(Facts(h) \cup Facts(q) \cup D, P)
  /\ \A n \in P : n.kind = "snapshot" => Stands(q, h, n, A)

\* The same for one list, that is on disk or on its way to it.
Written(w, P, D) ==
  /\ OneSlot(w) /\ InTurn(w)
  /\ Covers(Facts(w) \cup D, P)
  /\ \A n \in P : n.kind = "snapshot" => NoOlder(Facts(w), n)

\* More covers less.
LEMMA CoversMonotone ==
  ASSUME NEW S, NEW S2, NEW T, NEW T2, Covers(S, T), S \subseteq S2, T2 \subseteq T
  PROVE  Covers(S2, T2)
BY DEF Covers, Covered

\* A set covers its parts.
LEMMA CoversItself ==
  ASSUME NEW S, NEW T, T \subseteq S
  PROVE  Covers(S, T)
BY DEF Covers, Covered

\* What covers two sets covers their union.
LEMMA CoversUnion ==
  ASSUME NEW S, NEW T, NEW U, Covers(S, T), Covers(S, U)
  PROVE  Covers(S, T \cup U)
BY DEF Covers, Covered

\* A part of what covers may be replaced by what covers that part.
LEMMA CoversReplaced ==
  ASSUME NEW R \in SUBSET Mutation, NEW S \in SUBSET Mutation, NEW D \in SUBSET Mutation,
         NEW P \in SUBSET Mutation, Covers(R, S), Covers(S \cup D, P)
  PROVE  Covers(R \cup D, P)
<1>1. Covers(R \cup D, S) /\ Covers(R \cup D, D)
  BY CoversMonotone, CoversItself
<1>2. Covers(R \cup D, S \cup D)
  BY <1>1, CoversUnion
<1>3. R \cup D \in SUBSET Mutation /\ S \cup D \in SUBSET Mutation
  OBVIOUS
<1> QED BY <1>2, <1>3, CoversTransitive

\* Fewer promises, more done with, fewer sent: what was sound stays so.
LEMMA SoundWeakens ==
  ASSUME NEW q, NEW h, NEW P, NEW D, NEW A, NEW P2, NEW D2, NEW A2, Sound(q, h, P, D, A),
         P2 \subseteq P, D \subseteq D2, A2 \subseteq A
  PROVE  Sound(q, h, P2, D2, A2)
<1>1. Covers(Facts(h) \cup Facts(q) \cup D2, P2)
  BY CoversMonotone DEF Sound
<1>2. \A n \in P2 : n.kind = "snapshot" => Stands(q, h, n, A2)
  BY DEF Sound, Stands
<1> QED BY <1>1, <1>2 DEF Sound

\* The same for a list on disk.
LEMMA WrittenWeakens ==
  ASSUME NEW w, NEW P, NEW D, NEW P2, NEW D2, Written(w, P, D), P2 \subseteq P, D \subseteq D2
  PROVE  Written(w, P2, D2)
<1>1. Covers(Facts(w) \cup D2, P2)
  BY CoversMonotone DEF Written
<1> QED BY <1>1 DEF Written

\* A flush that goes on: items leave the hand when they are done with.
LEMMA HandShrinks ==
  ASSUME NEW q \in Seq(Entry), NEW h \in Seq(Entry), NEW h2 \in Seq(Entry), NEW P, NEW D, NEW A, NEW D2,
         Sound(q, h, P, D, A), Within(h2, h), D \subseteq D2, Facts(h) \subseteq Facts(h2) \cup D2
  PROVE  Sound(q, h2, P, D2, A)
<1>1. OneSlot(h2) /\ InTurn(h2) /\ Facts(h2) \subseteq Facts(h)
  BY WithinKeeps DEF Sound
<1>2. Before(Facts(h2), Facts(q))
  BY <1>1 DEF Sound, Before
<1>3. Covers(Facts(h2) \cup Facts(q) \cup D2, P)
  <2>1. Facts(h) \cup Facts(q) \cup D \subseteq Facts(h2) \cup Facts(q) \cup D2
    OBVIOUS
  <2> QED BY <2>1, CoversMonotone DEF Sound
<1>4. \A n \in P : n.kind = "snapshot" => Stands(q, h2, n, A)
  BY <1>1 DEF Sound, Stands, NoOlder
<1> QED BY <1>1, <1>2, <1>3, <1>4 DEF Sound

\* The backoff of a queued mutation ends.
LEMMA QueueAlike ==
  ASSUME NEW q \in Seq(Entry), NEW q2 \in Seq(Entry), NEW h, NEW P, NEW D, NEW A,
         Sound(q, h, P, D, A), Alike(q2, q)
  PROVE  Sound(q2, h, P, D, A)
<1>1. Within(q2, q) /\ Facts(q2) = Facts(q)
  BY AlikeIsWithin
<1>2. OneSlot(q2) /\ InTurn(q2)
  BY <1>1, WithinKeeps DEF Sound
<1> QED BY <1>1, <1>2 DEF Sound, Stands

\* A flush takes the queue in hand.
LEMMA FlushStarts ==
  ASSUME NEW q \in Seq(Entry), NEW P \in SUBSET Mutation, NEW D \in SUBSET Mutation, NEW A,
         Sound(q, <<>>, P, D, A)
  PROVE  Sound(<<>>, Prune(q), P, D, A)
<1> DEFINE h == Prune(q)
<1>1. /\ h \in Seq(Entry) /\ Within(h, q) /\ Covers(Facts(h), Facts(q))
      /\ Facts(h) \subseteq Facts(q) /\ OneSlot(h) /\ InTurn(h)
  BY PruneProperties, WithinKeeps DEF Sound
<1>2. Facts(<<>>) = {} /\ OneSlot(<<>>) /\ InTurn(<<>>)
  BY DEF Facts, Items, OneSlot, InTurn
<1>3. Covers(Facts(h) \cup D, P)
  <2>1. Facts(h) \in SUBSET Mutation /\ Facts(q) \in SUBSET Mutation
    BY <1>1, FactsAreMutations
  <2>2. Facts(<<>>) \cup Facts(q) \cup D = Facts(q) \cup D
    BY <1>2
  <2>3. Covers(Facts(q) \cup D, P)
    BY <2>2 DEF Sound
  <2> QED BY <1>1, <2>1, <2>3, CoversReplaced
<1>4. Facts(h) \cup Facts(<<>>) \cup D = Facts(h) \cup D
  BY <1>2
<1>5. \A n \in P : n.kind = "snapshot" => Stands(<<>>, h, n, A)
  BY <1>1, <1>2 DEF Sound, Stands, NoOlder
<1>6. Before(Facts(h), Facts(<<>>))
  BY <1>2 DEF Before
<1> QED BY <1>1, <1>2, <1>3, <1>4, <1>5, <1>6 DEF Sound

\* A flush is over: what it has in hand goes back in front of the queue.
LEMMA FlushEnds ==
  ASSUME NEW q \in Seq(Entry), NEW h \in Seq(Entry), NEW P \in SUBSET Mutation,
         NEW D \in SUBSET Mutation, NEW A, Sound(q, h, P, D, A)
  PROVE  Merge(h, q) \in Seq(Entry) /\ Sound(Merge(h, q), <<>>, P, D, A)
<1> DEFINE r == Merge(h, q)
<1>1. /\ r \in Seq(Entry) /\ OneSlot(r) /\ InTurn(r)
      /\ Covers(Facts(r), Facts(h) \cup Facts(q))
  BY MergeItems, MergeOneSlot, MergeInTurn, MergeCovers DEF Sound
<1>2. Facts(<<>>) = {} /\ OneSlot(<<>>) /\ InTurn(<<>>)
  BY DEF Facts, Items, OneSlot, InTurn
<1>3. Covers(Facts(r) \cup D, P)
  <2>1. Facts(r) \in SUBSET Mutation /\ Facts(h) \cup Facts(q) \in SUBSET Mutation
    BY <1>1, FactsAreMutations
  <2>2. Covers((Facts(h) \cup Facts(q)) \cup D, P)
    BY DEF Sound
  <2> QED BY <1>1, <2>1, <2>2, CoversReplaced
<1>4. ASSUME NEW n \in P, n.kind = "snapshot" PROVE NoOlder(Facts(r), n)
  BY <1>4, MergeNoOlder DEF Sound, Stands
<1>5. \A n \in P : n.kind = "snapshot" => Stands(r, <<>>, n, A)
  BY <1>2, <1>4 DEF Stands, NoOlder
<1>6. Before(Facts(<<>>), Facts(r)) /\ Facts(<<>>) \cup Facts(r) \cup D = Facts(r) \cup D
  BY <1>2 DEF Before
<1> QED BY <1>1, <1>2, <1>3, <1>5, <1>6 DEF Sound

\* What persist writes keeps the promises.
LEMMA ContentKeeps ==
  ASSUME NEW q \in Seq(Entry), NEW k \in Seq(Entry), NEW b \in Seq(Entry), NEW P \in SUBSET Mutation,
         NEW D \in SUBSET Mutation, NEW A, Sound(q, k \o b, P, D, A)
  PROVE  LET w == Prune(Merge(Merge(k, b), q)) IN
         /\ w \in Seq(Entry) /\ Written(w, P, D)
         /\ Facts(w) \subseteq Facts(k) \cup Facts(b) \cup Facts(q)
<1> DEFINE h == Merge(k, b)
           r == Merge(h, q)
           w == Prune(r)
<1>1. OneSlot(k) /\ OneSlot(b) /\ InTurn(k) /\ InTurn(b) /\ Before(Facts(k), Facts(b))
  BY Pieces DEF Sound
<1>2. /\ k \o b \in Seq(Entry) /\ Facts(k \o b) = Facts(k) \cup Facts(b)
      /\ Facts(k) \subseteq Mutation /\ Facts(b) \subseteq Mutation /\ Facts(q) \subseteq Mutation
  BY ConcatFacts, FactsAreMutations
<1>3. /\ h \in Seq(Entry) /\ OneSlot(h) /\ InTurn(h) /\ Covers(Facts(h), Facts(k) \cup Facts(b))
      /\ Facts(h) \subseteq Facts(k) \cup Facts(b)
  BY <1>1, MergeItems, MergeOneSlot, MergeInTurn, MergeCovers, MergeFacts
<1> HIDE DEF h
<1>4. Sound(q, h, P, D, A)
  <2>1. Before(Facts(h), Facts(q))
    BY <1>2, <1>3 DEF Sound, Before
  <2>2. Covers(Facts(h) \cup (Facts(q) \cup D), P)
    <3>1. Covers((Facts(k) \cup Facts(b)) \cup (Facts(q) \cup D), P)
      BY <1>2 DEF Sound, Covers, Covered
    <3>2. /\ Facts(h) \in SUBSET Mutation /\ Facts(k) \cup Facts(b) \in SUBSET Mutation
          /\ Facts(q) \cup D \in SUBSET Mutation
      BY <1>2, <1>3
    <3> QED BY <1>3, <3>1, <3>2, CoversReplaced
  <2>3. Facts(h) \cup (Facts(q) \cup D) = Facts(h) \cup Facts(q) \cup D
    OBVIOUS
  <2>4. \A n \in P : n.kind = "snapshot" => Stands(q, h, n, A)
    BY <1>2, <1>3 DEF Sound, Stands, NoOlder
  <2> QED BY <1>3, <2>1, <2>2, <2>3, <2>4 DEF Sound
<1>5. r \in Seq(Entry) /\ Sound(r, <<>>, P, D, A) /\ Facts(r) \subseteq Facts(k) \cup Facts(b) \cup Facts(q)
  BY <1>3, <1>4, FlushEnds, MergeFacts
<1> HIDE DEF r
<1>6. Sound(<<>>, w, P, D, A) /\ w \in Seq(Entry) /\ Facts(w) \subseteq Facts(r)
  BY <1>5, FlushStarts, PruneProperties, WithinKeeps
<1>7. Written(w, P, D)
  <2> HIDE DEF w
  <2>1. Facts(w) \cup Facts(<<>>) \cup D = Facts(w) \cup D /\ Facts(<<>>) = {}
    BY DEF Facts, Items
  <2>2. \A n \in P : n.kind = "snapshot" => NoOlder(Facts(w), n)
    BY <1>6, <2>1 DEF Sound, Stands, NoOlder
  <2> QED BY <1>6, <2>1, <2>2 DEF Sound, Written
<1> QED BY <1>5, <1>6, <1>7 DEF h, r

\* What a process loads from the file keeps what the file keeps.
LEMMA LoadKeeps ==
  ASSUME NEW w \in Seq(Entry), NEW P \in SUBSET Mutation, NEW D \in SUBSET Mutation, NEW A, Written(w, P, D)
  PROVE  Prune(w) \in Seq(Entry) /\ Sound(Prune(w), <<>>, P, D, A) /\ Facts(Prune(w)) \subseteq Facts(w)
<1> DEFINE q == Prune(w)
<1>1. /\ q \in Seq(Entry) /\ Covers(Facts(q), Facts(w))
      /\ Facts(q) \subseteq Facts(w) /\ OneSlot(q) /\ InTurn(q)
  BY PruneProperties, WithinKeeps DEF Written
<1> HIDE DEF q
<1>2. Facts(<<>>) = {} /\ OneSlot(<<>>) /\ InTurn(<<>>)
  BY DEF Facts, Items, OneSlot, InTurn
<1>3. Covers(Facts(q) \cup D, P)
  <2>1. Facts(q) \in SUBSET Mutation /\ Facts(w) \in SUBSET Mutation
    BY <1>1, FactsAreMutations
  <2>2. Covers(Facts(w) \cup D, P)
    BY DEF Written
  <2> QED BY <1>1, <2>1, <2>2, CoversReplaced
<1>4. Facts(<<>>) \cup Facts(q) \cup D = Facts(q) \cup D /\ Before(Facts(<<>>), Facts(q))
  BY <1>2 DEF Before
<1>5. \A n \in P : n.kind = "snapshot" => Stands(q, <<>>, n, A)
  BY <1>1, <1>2 DEF Written, Stands, NoOlder
<1>6. Sound(q, <<>>, P, D, A)
  BY <1>1, <1>2, <1>3, <1>4, <1>5 DEF Sound
<1> QED BY <1>1, <1>6 DEF q

\* enqueue: the queue takes a mutation observed after all others, for good.
LEMMA EnqueueKeeps ==
  ASSUME NEW q \in Seq(Entry), NEW h \in Seq(Entry), NEW P \in SUBSET Mutation, NEW D \in SUBSET Mutation,
         NEW A, NEW K \in SUBSET Mutation, NEW e \in Entry, Sound(q, h, P, D, A),
         Facts(q) \cup Facts(h) \cup P \cup A \subseteq K, \A n \in K : n.at < e.m.at
  PROVE  LET r == Prune(Merge(q, <<e>>)) IN
         /\ r \in Seq(Entry) /\ Sound(r, h, P \cup {e.m}, D, A) /\ Facts(r) \subseteq Facts(q) \cup {e.m}
<1> DEFINE m == e.m
           t == <<e>>
           u == Merge(q, t)
           r == Prune(u)
<1>1. t \in Seq(Entry) /\ Facts(t) = {m} /\ OneSlot(t) /\ InTurn(t) /\ m \in Mutation
  <2>1. t \in Seq(Entry) /\ DOMAIN t = {1} /\ t[1] = e
    OBVIOUS
  <2>2. Facts(t) = {t[i].m : i \in DOMAIN t}
    BY <2>1, FactsAreMutations
  <2> HIDE DEF t
  <2>3. OneSlot(t) /\ InTurn(t)
    BY <2>1 DEF OneSlot, InTurn
  <2>4. m \in Mutation
    BY DEF Entry
  <2> QED BY <2>1, <2>2, <2>3, <2>4
<1>2. \A n \in K : n \in Mutation /\ n.at \in Nat /\ m.at \in Nat /\ n.at < m.at
  BY <1>1, TimesDistinguish
<1>3. Before(Facts(q), Facts(t))
  BY <1>1, <1>2 DEF Before
<1> HIDE DEF t, m
<1>4. /\ u \in Seq(Entry) /\ OneSlot(u) /\ InTurn(u) /\ Facts(u) \subseteq Facts(q) \cup {m}
      /\ Covers(Facts(u), Facts(q) \cup {m})
  BY <1>1, <1>3, MergeItems, MergeOneSlot, MergeInTurn, MergeCovers, MergeFacts DEF Sound
<1>5. NoOlder(Facts(u), m) \/ m.kind # "snapshot"
  <2>1. m \in Facts(t) /\ SameSlot(m, m) /\ m.at >= m.at
    <3>1. m.at \in Nat
      BY <1>1, TimesDistinguish
    <3> QED BY <1>1, <3>1, SameSlotIsSame
  <2>2. NoOlder(Facts(t), m)
    BY <1>1, TimesDistinguish DEF NoOlder, OlderSnapshot
  <2> QED BY <1>1, <2>1, <2>2, MergeNoOlder
<1> HIDE DEF u
<1>6. /\ r \in Seq(Entry) /\ OneSlot(r) /\ InTurn(r) /\ Facts(r) \subseteq Facts(u) /\ Covers(Facts(r), Facts(u))
  BY <1>4, PruneProperties, WithinKeeps
<1> HIDE DEF r
<1>7. Covers(Facts(r), Facts(q) \cup {m})
  <2>1. Facts(q) \cup {m} \in SUBSET Mutation /\ Facts(u) \in SUBSET Mutation /\ Facts(r) \in SUBSET Mutation
    BY <1>1, <1>4, <1>6, FactsAreMutations
  <2> QED BY <1>4, <1>6, <2>1, CoversTransitive
<1>8. Covers(Facts(h) \cup Facts(r) \cup D, P \cup {m})
  <2>1. Covers(Facts(r) \cup (Facts(h) \cup D), P)
    <3>1. /\ Facts(r) \in SUBSET Mutation /\ Facts(q) \in SUBSET Mutation
          /\ Facts(h) \cup D \in SUBSET Mutation
      BY <1>6, FactsAreMutations
    <3>2. Facts(q) \cup (Facts(h) \cup D) = Facts(h) \cup Facts(q) \cup D
      OBVIOUS
    <3>3. Covers(Facts(q) \cup (Facts(h) \cup D), P) /\ Covers(Facts(r), Facts(q))
      BY <1>7, <3>2, CoversMonotone DEF Sound
    <3> QED BY <3>1, <3>3, CoversReplaced
  <2>2. Covers(Facts(r) \cup (Facts(h) \cup D), {m})
    BY <1>7, CoversMonotone
  <2>3. Facts(r) \cup (Facts(h) \cup D) = Facts(h) \cup Facts(r) \cup D
    OBVIOUS
  <2> QED BY <2>1, <2>2, <2>3, CoversUnion
<1>9. ASSUME NEW n \in Facts(q) \cup {m}, n.kind = "snapshot"
      PROVE  \E g \in Facts(r) : SameSlot(g, n) /\ g.at >= n.at
  <2>1. PICK g \in Facts(r) : g = n \/ Supersedes(g, n)
    BY <1>7 DEF Covers, Covered
  <2>2. n.at \in Nat
    BY <1>1, <1>9, FactsAreMutations, TimesDistinguish
  <2> QED BY <1>9, <2>1, <2>2, SameSlotIsSame DEF Supersedes, SameSlot, IsTurn
<1>10. ASSUME NEW n \in P, n.kind = "snapshot" PROVE Stands(r, h, n, A)
  <2>1. NoOlder(Facts(q), n) /\ Stands(q, h, n, A)
    BY <1>10 DEF Sound, Stands
  <2>2. ~OlderSnapshot(m, n)
    BY <1>2 DEF OlderSnapshot
  <2>3. NoOlder(Facts(r), n)
    BY <1>4, <1>6, <2>1, <2>2 DEF NoOlder
  <2>4. ASSUME NEW f \in Facts(q), SameSlot(f, n), f.at >= n.at
        PROVE  \E g \in Facts(r) : SameSlot(g, n) /\ g.at >= n.at
    <3>1. f.kind = "snapshot"
      BY <1>10, <2>4 DEF SameSlot, IsTurn
    <3>2. PICK g \in Facts(r) : SameSlot(g, f) /\ g.at >= f.at
      BY <1>9, <3>1
    <3>3. g \in Mutation /\ f \in Mutation /\ n \in Mutation
      BY <1>6, FactsAreMutations
    <3>4. g.at >= n.at
      BY <2>4, <3>2, <3>3, TimesDistinguish
    <3> QED BY <2>4, <3>2, <3>4, SameSlotIsSame
  <2> QED BY <2>1, <2>3, <2>4 DEF Stands
<1>11. m.kind = "snapshot" => Stands(r, h, m, A)
  <2>1. m \notin A
    BY <1>2
  <2>2. m.kind = "snapshot" => NoOlder(Facts(r), m)
    BY <1>5, <1>6 DEF NoOlder
  <2> QED BY <1>9, <2>1, <2>2 DEF Stands
<1>12. Before(Facts(h), Facts(r))
  <2>1. \A a \in Facts(h) : a.at < m.at
    BY <1>2
  <2>2. Facts(r) \subseteq Facts(q) \cup {m}
    BY <1>4, <1>6
  <2> QED BY <2>1, <2>2 DEF Sound, Before
<1>13. Sound(r, h, P \cup {m}, D, A)
  BY <1>6, <1>8, <1>10, <1>11, <1>12 DEF Sound
<1> QED BY <1>4, <1>6, <1>13 DEF r, u, t, m

\* The item the flush has come to is sent.
LEMMA SendKeeps ==
  ASSUME NEW q \in Seq(Entry), NEW h \in Seq(Entry), NEW P \in SUBSET Mutation, NEW D, NEW A,
         Sound(q, h, P, D, A), NEW m \in Facts(h)
  PROVE  Sound(q, h, P, D, A \cup {m})
<1>1. ASSUME m \in P, m.kind = "snapshot" PROVE NoOlder(Facts(h), m)
  <2>1. SUFFICES ASSUME NEW o \in Facts(h), OlderSnapshot(o, m) PROVE FALSE
    BY DEF NoOlder
  <2>2. SameSlot(o, m)
    BY <1>1, <2>1 DEF OlderSnapshot, SameSlot, IsTurn
  <2>3. PICK i \in DOMAIN h, j \in DOMAIN h : h[i].m = o /\ h[j].m = m
    BY FactsAreMutations
  <2>4. o = m
    BY <2>2, <2>3 DEF Sound, OneSlot
  <2>5. m.at \in Nat
    BY <1>1, TimesDistinguish
  <2> QED BY <2>1, <2>4, <2>5 DEF OlderSnapshot
<1>2. \A n \in P : n.kind = "snapshot" => Stands(q, h, n, A \cup {m})
  BY <1>1 DEF Sound, Stands
<1> QED BY <1>2 DEF Sound

\* Turns observed before the item the flush has come to are done with.
LEMMA HeadIsNext ==
  ASSUME NEW q \in Seq(Entry), NEW k \in Seq(Entry), NEW b \in Seq(Entry), NEW P \in SUBSET Mutation,
         NEW D \in SUBSET Mutation, NEW A, Sound(q, k \o b, P, D, A), b # <<>>,
         \A m \in Facts(k) : ~IsTurn(m), NEW n \in P, IsTurn(n), IsTurn(Head(b).m), n.at < Head(b).m.at
  PROVE  n \in D
<1>1. n \in Facts(k) \cup Facts(b) \cup Facts(q) \cup D
  <2>1. Facts(k \o b) = Facts(k) \cup Facts(b)
    BY ConcatFacts
  <2> QED BY <2>1 DEF Sound, Covers, Covered, Supersedes
<1>2. Head(b) = b[1] /\ 1 \in DOMAIN b /\ DOMAIN b \subseteq Nat \ {0} /\ Head(b).m \in Facts(b) /\ Head(b).m \in Mutation
  <2>1. Len(b) \in Nat /\ Len(b) # 0 /\ DOMAIN b = 1..Len(b) /\ Head(b) = b[1]
    OBVIOUS
  <2> QED BY <2>1, FactsAreMutations
<1>3. n.at \in Nat /\ Head(b).m.at \in Nat
  BY <1>2, TimesDistinguish
<1>4. n \notin Facts(k)
  OBVIOUS
<1>5. n \notin Facts(b)
  <2>1. SUFFICES ASSUME NEW i \in DOMAIN b, n = b[i].m PROVE FALSE
    BY FactsAreMutations
  <2>2. i # 1
    BY <1>2, <1>3, <2>1
  <2>3. 1 < i /\ InTurn(b)
    BY <1>2, <2>2, Pieces DEF Sound
  <2>4. Head(b).m.at < n.at
    BY <1>2, <2>1, <2>3 DEF InTurn
  <2> QED BY <1>3, <2>4
<1>6. n \notin Facts(q)
  <2>1. SUFFICES ASSUME n \in Facts(q) PROVE FALSE
    OBVIOUS
  <2>2. Head(b).m \in Facts(k \o b)
    BY <1>2, ConcatFacts
  <2>3. Head(b).m.at < n.at
    BY <2>1, <2>2 DEF Sound, Before
  <2> QED BY <1>3, <2>3
<1> QED BY <1>1, <1>4, <1>5, <1>6

\* The mutations given up with an item are in the batch behind it.
LEMMA DependentsAreThere ==
  ASSUME NEW m, NEW b \in Seq(Entry)
  PROVE  Cardinality(Dependents(m, b)) \in 0..Len(b)
<1>1. Dependents(m, b) \subseteq 1..Len(b) /\ Len(b) \in Nat
  BY DEF Dependents
<1>2. IsFiniteSet(1..Len(b)) /\ Cardinality(1..Len(b)) = Len(b)
  <2> DEFINE N == Len(b)
  <2>1. N \in Nat
    OBVIOUS
  <2> HIDE DEF N
  <2>2. IsFiniteSet(1..N) /\ Cardinality(1..N) = IF 1 > N THEN 0 ELSE N - 1 + 1
    BY <2>1, FS_Interval
  <2>3. Cardinality(1..N) = N
    BY <2>1, <2>2
  <2> QED BY <2>2, <2>3 DEF N
<1>3. IsFiniteSet(Dependents(m, b)) /\ Cardinality(Dependents(m, b)) <= Len(b)
  BY <1>1, <1>2, FS_Subset
<1>4. Cardinality(Dependents(m, b)) \in Nat
  BY <1>3, FS_CardinalityType
<1> QED BY <1>1, <1>3, <1>4

\* Who waits for a write.
Request == [of : {"enqueue"}, m : Mutation] \cup [of : {"flush", "close"}, m : {None}]

\* The mutations whose enqueue waits, and the one whose enqueue waits for the
\* write that is next or under way.
Awaiting(s) == {s[i].m : i \in {j \in DOMAIN s : s[j].of = "enqueue"}}
FirstAwaiting(s) == IF s # <<>> /\ Head(s).of = "enqueue" THEN {Head(s).m} ELSE {}

\* Who waits for a write, when one more waits or the first is done.
LEMMA AwaitingProperties ==
  ASSUME NEW s \in Seq(Request)
  PROVE  /\ Awaiting(s) \subseteq Mutation /\ FirstAwaiting(s) \subseteq Awaiting(s)
         /\ s # <<>> => Head(s) \in Request /\ Tail(s) \in Seq(Request) /\ Awaiting(Tail(s)) \subseteq Awaiting(s)
         /\ \A x \in Request : /\ Append(s, x) \in Seq(Request)
                               /\ Append(s, x) # <<>>
                               /\ s # <<>> => FirstAwaiting(Append(s, x)) = FirstAwaiting(s)
                               /\ Awaiting(Append(s, x)) = Awaiting(s) \cup (IF x.of = "enqueue" THEN {x.m} ELSE {})
<1>1. \A i \in DOMAIN s : s[i] \in Request
  OBVIOUS
<1>2. \A x \in Request : x.of = "enqueue" => x.m \in Mutation
  BY DEF Request
<1>3. Awaiting(s) \subseteq Mutation
  BY <1>1, <1>2 DEF Awaiting
<1>4. s # <<>> => 1 \in DOMAIN s /\ Head(s) = s[1]
  OBVIOUS
<1>5. FirstAwaiting(s) \subseteq Awaiting(s)
  BY <1>4 DEF FirstAwaiting, Awaiting
<1>6. ASSUME s # <<>>
      PROVE  Head(s) \in Request /\ Tail(s) \in Seq(Request) /\ Awaiting(Tail(s)) \subseteq Awaiting(s)
  <2>1. Tail(s) \in Seq(Request) /\ \A i \in DOMAIN Tail(s) : i + 1 \in DOMAIN s /\ Tail(s)[i] = s[i + 1]
    BY <1>6
  <2> QED BY <1>1, <1>4, <1>6, <2>1 DEF Awaiting
<1>7. ASSUME NEW x \in Request
      PROVE  /\ Append(s, x) \in Seq(Request) /\ Append(s, x) # <<>>
             /\ s # <<>> => FirstAwaiting(Append(s, x)) = FirstAwaiting(s)
             /\ Awaiting(Append(s, x)) = Awaiting(s) \cup (IF x.of = "enqueue" THEN {x.m} ELSE {})
  <2> DEFINE t == Append(s, x)
  <2>1. /\ t \in Seq(Request) /\ t # <<>> /\ DOMAIN t = DOMAIN s \cup {Len(s) + 1}
        /\ \A i \in DOMAIN s : t[i] = s[i]
        /\ t[Len(s) + 1] = x
    BY AppendProperties
  <2>2. s # <<>> => Head(t) = Head(s)
    <3>1. Head(t) = t[1]
      BY <2>1
    <3> QED BY <1>4, <2>1, <3>1
  <2> HIDE DEF t
  <2>3. Awaiting(t) = Awaiting(s) \cup (IF x.of = "enqueue" THEN {x.m} ELSE {})
    <3>1. Awaiting(t) \subseteq Awaiting(s) \cup (IF x.of = "enqueue" THEN {x.m} ELSE {})
      BY <2>1 DEF Awaiting
    <3>2. Awaiting(s) \subseteq Awaiting(t)
      BY <2>1 DEF Awaiting
    <3>3. x.of = "enqueue" => x.m \in Awaiting(t)
      BY <2>1 DEF Awaiting
    <3> QED BY <3>1, <3>2, <3>3
  <2> QED BY <2>1, <2>2, <2>3 DEF FirstAwaiting, t
<1> QED BY <1>3, <1>5, <1>6, <1>7

\* A flush at stage st waits for one write, or for none.
FlushSaves(s) == {i \in DOMAIN s : s[i].of = "flush"}
OneFlush(s, st) == (\A i, j \in FlushSaves(s) : i = j) /\ (FlushSaves(s) # {} => st = "saving")

\* A flush still waits for at most one write when a write is done,
LEMMA OneFlushOfTail ==
  ASSUME NEW s \in Seq(Request), NEW st, OneFlush(s, st), s # <<>>
  PROVE  OneFlush(Tail(s), st) /\ (Head(s).of = "flush" => st = "saving" /\ FlushSaves(Tail(s)) = {})
<1>1. /\ \A i \in DOMAIN Tail(s) : i \in Int /\ i + 1 # 1 /\ i + 1 \in DOMAIN s /\ Tail(s)[i] = s[i + 1]
      /\ 1 \in DOMAIN s /\ Head(s) = s[1]
  OBVIOUS
<1>2. \A i \in FlushSaves(Tail(s)) : i \in Int /\ i + 1 # 1 /\ i + 1 \in FlushSaves(s)
  BY <1>1 DEF FlushSaves
<1>3. \A i, j \in FlushSaves(Tail(s)) : i = j
  <2>1. \A i, j \in FlushSaves(Tail(s)) : i + 1 = j + 1
    BY <1>2 DEF OneFlush
  <2> QED BY <1>2, <2>1
<1>4. OneFlush(Tail(s), st)
  BY <1>2, <1>3 DEF OneFlush
<1>5. ASSUME Head(s).of = "flush" PROVE st = "saving" /\ FlushSaves(Tail(s)) = {}
  <2>1. 1 \in FlushSaves(s)
    BY <1>1, <1>5 DEF FlushSaves
  <2> QED BY <1>2, <2>1 DEF OneFlush
<1> QED BY <1>4, <1>5

\* and when one more waits.
LEMMA OneFlushOfAppend ==
  ASSUME NEW s \in Seq(Request), NEW st, OneFlush(s, st), NEW x \in Request
  PROVE  /\ x.of # "flush" => OneFlush(Append(s, x), st)
         /\ x.of # "flush" /\ FlushSaves(s) = {} => FlushSaves(Append(s, x)) = {}
         /\ FlushSaves(s) = {} => OneFlush(Append(s, x), "saving")
<1> DEFINE t == Append(s, x)
<1>1. /\ DOMAIN t = DOMAIN s \cup {Len(s) + 1}
      /\ \A i \in DOMAIN s : t[i] = s[i]
      /\ t[Len(s) + 1] = x
  BY AppendProperties
<1> HIDE DEF t
<1>2. x.of # "flush" => FlushSaves(t) = FlushSaves(s)
  BY <1>1 DEF FlushSaves
<1>3. FlushSaves(s) = {} => FlushSaves(t) \subseteq {Len(s) + 1}
  BY <1>1 DEF FlushSaves
<1> QED BY <1>2, <1>3 DEF OneFlush, t

-----------------------------------------------------------------------------
(* Types, and what each step does to the lists. *)
\* The types of what a process has in memory, and which of it goes together.
MemoryTyped ==
  /\ up \in [Process -> BOOLEAN] /\ closed \in [Process -> BOOLEAN]
  /\ queue \in [Process -> Seq(Entry)] /\ batch \in [Process -> Seq(Entry)] /\ kept \in [Process -> Seq(Entry)]
  /\ stage \in [Process -> {"idle", "sending", "awaiting", "recording", "saving"}]
  /\ reason \in [Process -> {"soft", "flush", "close"}]
  /\ given \in [Process -> SUBSET Mutation] /\ changed \in [Process -> BOOLEAN]
  /\ snapshots \in [Process -> 0..SnapshotLimit]
  /\ wanted \in [Process -> SUBSET {"soft", "flush", "close"}] /\ timer \in [Process -> BOOLEAN]
  /\ saves \in [Process -> Seq(Request)] /\ writing \in [Process -> Seq(Entry) \cup {None}]

Coupled(p) ==
  /\ stage[p] \in {"sending", "awaiting"} <=> batch[p] # <<>>
  /\ batch[p] = <<>> => kept[p] = <<>>
  /\ writing[p] # None => saves[p] # <<>>
  /\ OneFlush(saves[p], stage[p])
  /\ ~up[p] => queue[p] = <<>> /\ batch[p] = <<>> /\ saves[p] = <<>> /\ stage[p] = "idle"

WorldTyped ==
  /\ file \in Seq(Entry) /\ deadFile \subseteq Mutation
  /\ wire \subseteq Mutation /\ log \in Seq(Mutation)
  /\ issued \subseteq Mutation /\ accepted \subseteq Mutation /\ abandoned \subseteq Mutation
  /\ starts \in [Process -> Nat] /\ trouble \subseteq Trouble /\ plan \in Plans

TypeInv == MemoryTyped /\ (\A p \in Process : Coupled(p)) /\ WorldTyped

\* The empty list is a list of anything.
LEMMA ListFacts ==
  /\ <<>> \in Seq(Entry) /\ <<>> \in Seq(Request) /\ <<>> \in Seq(Mutation)
  /\ \A st : OneFlush(<<>>, st)
BY DEF OneFlush, FlushSaves

\* What enqueue puts into the queue is an entry.
LEMMA FreshIsEntry == \A m \in Mutation : Fresh(m) \in Entry /\ Fresh(m).m = m
BY BoundsAreNatural DEF Fresh, Entry

\* Who waits for a write is a request.
LEMMA SaveIsRequest ==
  /\ \A m \in Mutation : Save("enqueue", m) \in Request /\ Save("enqueue", m).of = "enqueue" /\ Save("enqueue", m).m = m
  /\ \A of \in {"flush", "close"} : Save(of, None) \in Request /\ Save(of, None).of # "enqueue"
BY DEF Save, Request

\* No process is up at first.
LEMMA InitTyped == Init => TypeInv
BY ListFacts, BoundsAreNatural DEF Init, TypeInv, MemoryTyped, Coupled, WorldTyped

\* The processes other than p are as they were.
Apart(p) == \A r \in Process \ {p} :
  /\ up'[r] = up[r] /\ queue'[r] = queue[r] /\ batch'[r] = batch[r] /\ kept'[r] = kept[r]
  /\ stage'[r] = stage[r] /\ saves'[r] = saves[r] /\ writing'[r] = writing[r]

\* A step of one process leaves what the others hold together.
LEMMA ApartCoupled ==
  ASSUME \A r \in Process : Coupled(r), NEW p \in Process, Apart(p), Coupled(p)'
  PROVE  \A r \in Process : Coupled(r)'
BY DEF Apart, Coupled

\* What a step of a flush does to the queue and to what the flush has in hand.
Ends(p, q, h) ==
  queue'[p] = Merge(h, q) /\ batch'[p] = <<>> /\ kept'[p] = <<>>
Goes(p, q, k, b) ==
  queue'[p] = q /\ batch'[p] = b /\ kept'[p] = k
Turns(p) ==
  /\ up[p] /\ Apart(p) /\ UNCHANGED <<up, writing>>
  /\ Awaiting(saves'[p]) = Awaiting(saves[p])
  /\ saves[p] # <<>> => FirstAwaiting(saves'[p]) = FirstAwaiting(saves[p])

\* What such a step must leave typed apart from that.
AroundTyped ==
  /\ reason \in [Process -> {"soft", "flush", "close"}] /\ snapshots \in [Process -> 0..SnapshotLimit]
  /\ wanted \in [Process -> SUBSET {"soft", "flush", "close"}]
AllCoupled == \A r \in Process : Coupled(r)

\* A process that is gone holds nothing.
LEMMA ForgetTyped ==
  ASSUME TypeInv, NEW p \in Process, Forget(p)
  PROVE  MemoryTyped' /\ (\A r \in Process : Coupled(r)')
         /\ Apart(p) /\ ~up'[p] /\ writing'[p] = None /\ saves'[p] = <<>> /\ kept'[p] = <<>>
<1>1. MemoryTyped'
  BY ListFacts, BoundsAreNatural DEF TypeInv, MemoryTyped, Forget
<1>2. Apart(p) /\ ~up'[p] /\ writing'[p] = None /\ saves'[p] = <<>> /\ kept'[p] = <<>>
      /\ queue'[p] = <<>> /\ batch'[p] = <<>> /\ stage'[p] = "idle"
  BY DEF TypeInv, MemoryTyped, Forget, Apart
<1> QED BY <1>1, <1>2, ListFacts, ApartCoupled DEF Coupled, TypeInv

\* A flush that is over makes close wait for one more write, or nobody.
LEMMA SettlesTyped ==
  ASSUME TypeInv, NEW p \in Process, NEW s \in Seq(Request), FlushSaves(s) = {}, Settles(p, s)
  PROVE  /\ saves' \in [Process -> Seq(Request)]
         /\ \A r \in Process \ {p} : saves'[r] = saves[r]
         /\ Awaiting(saves'[p]) = Awaiting(s)
         /\ s # <<>> => saves'[p] # <<>> /\ FirstAwaiting(saves'[p]) = FirstAwaiting(s)
         /\ FlushSaves(saves'[p]) = {}
<1>1. /\ Save("close", None) \in Request /\ Save("close", None).of # "enqueue"
      /\ Save("close", None).of # "flush"
  BY SaveIsRequest DEF Save
<1>2. /\ Append(s, Save("close", None)) \in Seq(Request)
      /\ Append(s, Save("close", None)) # <<>>
      /\ s # <<>> => FirstAwaiting(Append(s, Save("close", None))) = FirstAwaiting(s)
      /\ Awaiting(Append(s, Save("close", None))) = Awaiting(s)
      /\ FlushSaves(Append(s, Save("close", None))) = {}
  <2>1. Awaiting(Append(s, Save("close", None)))
          = Awaiting(s) \cup (IF Save("close", None).of = "enqueue" THEN {Save("close", None).m} ELSE {})
    BY <1>1, AwaitingProperties
  <2>2. Awaiting(Append(s, Save("close", None))) = Awaiting(s)
    BY <1>1, <2>1
  <2>3. FlushSaves(Append(s, Save("close", None))) = {}
    <3>1. OneFlush(s, "idle")
      BY DEF OneFlush
    <3> QED BY <1>1, <3>1, OneFlushOfAppend
  <2> QED BY <1>1, <2>2, <2>3, AwaitingProperties
<1>3. saves'[p] = s \/ saves'[p] = Append(s, Save("close", None))
  BY DEF Settles, TypeInv, MemoryTyped
<1>4. saves' \in [Process -> Seq(Request)]
  BY <1>2 DEF Settles, TypeInv, MemoryTyped
<1>5. \A r \in Process \ {p} : saves'[r] = saves[r]
  BY DEF Settles, TypeInv, MemoryTyped
<1> QED BY <1>2, <1>3, <1>4, <1>5

\* What a flush that is over leaves in memory.
LEMMA OverTyped ==
  ASSUME TypeInv, NEW p \in Process, up[p], stage[p] # "saving",
         NEW q \in Seq(Entry), NEW g \in SUBSET Mutation, NEW c \in BOOLEAN,
         Over(p, q, g, c), UNCHANGED <<up, closed, writing>>, AroundTyped'
  PROVE  MemoryTyped' /\ AllCoupled' /\ Turns(p) /\ Goes(p, q, <<>>, <<>>)
<1>1. /\ queue' \in [Process -> Seq(Entry)] /\ batch' \in [Process -> Seq(Entry)] /\ kept' \in [Process -> Seq(Entry)]
      /\ given' \in [Process -> SUBSET Mutation] /\ changed' \in [Process -> BOOLEAN]
      /\ queue'[p] = q /\ batch'[p] = <<>> /\ kept'[p] = <<>>
      /\ \A r \in Process \ {p} : queue'[r] = queue[r] /\ batch'[r] = batch[r] /\ kept'[r] = kept[r]
  BY ListFacts DEF Over, TypeInv, MemoryTyped
<1>2. saves[p] \in Seq(Request) /\ FlushSaves(saves[p]) = {} /\ OneFlush(saves[p], stage[p])
  BY DEF TypeInv, MemoryTyped, Coupled, OneFlush
<1>3. /\ stage' \in [Process -> {"idle", "sending", "awaiting", "recording", "saving"}]
      /\ \A r \in Process \ {p} : stage'[r] = stage[r]
      /\ stage'[p] \in {"idle", "recording", "saving"}
      /\ timer' \in [Process -> BOOLEAN]
  BY DEF Over, RetryTimer, TypeInv, MemoryTyped
<1>4. /\ saves' \in [Process -> Seq(Request)] /\ \A r \in Process \ {p} : saves'[r] = saves[r]
      /\ Awaiting(saves'[p]) = Awaiting(saves[p])
      /\ saves[p] # <<>> => saves'[p] # <<>> /\ FirstAwaiting(saves'[p]) = FirstAwaiting(saves[p])
      /\ OneFlush(saves'[p], stage'[p])
  <2>1. CASE Settles(p, saves[p])
    BY <1>2, <2>1, SettlesTyped DEF OneFlush
  <2>2. CASE UNCHANGED saves
    BY <1>2, <2>2 DEF TypeInv, MemoryTyped, OneFlush
  <2>3. CASE saves' = [saves EXCEPT ![p] = Append(@, Save("flush", None))] /\ stage' = [stage EXCEPT ![p] = "saving"]
    <3>1. Save("flush", None) \in Request /\ Save("flush", None).of # "enqueue"
      BY SaveIsRequest
    <3>2. /\ saves'[p] = Append(saves[p], Save("flush", None)) /\ \A r \in Process \ {p} : saves'[r] = saves[r]
      BY <2>3 DEF TypeInv, MemoryTyped
    <3>3. Append(saves[p], Save("flush", None)) \in Seq(Request)
      BY <1>2, <3>1, AwaitingProperties
    <3>4. saves' \in [Process -> Seq(Request)]
      BY <2>3, <3>3 DEF TypeInv, MemoryTyped
    <3>5. Awaiting(saves'[p]) = Awaiting(saves[p]) \cup (IF Save("flush", None).of = "enqueue" THEN {Save("flush", None).m} ELSE {})
      BY <1>2, <3>1, <3>2, AwaitingProperties
    <3>6. Awaiting(saves'[p]) = Awaiting(saves[p])
      BY <3>1, <3>5
    <3>7. OneFlush(saves'[p], "saving") /\ stage'[p] = "saving"
      BY <1>2, <2>3, <3>1, <3>2, OneFlushOfAppend DEF TypeInv, MemoryTyped
    <3> QED BY <1>2, <3>1, <3>2, <3>4, <3>6, <3>7, AwaitingProperties
  <2> QED BY <2>1, <2>2, <2>3 DEF Over
<1>5. MemoryTyped'
  BY <1>1, <1>3, <1>4 DEF TypeInv, MemoryTyped, AroundTyped
<1>6. Apart(p)
  BY <1>1, <1>3, <1>4 DEF Apart
<1>7. Coupled(p)'
  <2>1. Coupled(p)
    BY DEF TypeInv
  <2> QED BY <1>1, <1>3, <1>4, <2>1 DEF Coupled
<1>8. AllCoupled'
  BY <1>6, <1>7, ApartCoupled DEF TypeInv, AllCoupled
<1>9. Turns(p) /\ Goes(p, q, <<>>, <<>>)
  BY <1>1, <1>4, <1>6 DEF Turns, Goes
<1> QED BY <1>5, <1>8, <1>9

\* The same for a flush that goes on, or is over when nothing is left to do.
LEMMA GoOnTyped ==
  ASSUME TypeInv, NEW p \in Process, up[p], stage[p] # "saving",
         NEW q \in Seq(Entry), NEW k \in Seq(Entry), NEW b \in Seq(Entry),
         NEW g \in SUBSET Mutation, NEW c \in BOOLEAN,
         GoOn(p, q, k, b, g, c), UNCHANGED <<up, closed, writing>>, AroundTyped'
  PROVE  MemoryTyped' /\ AllCoupled' /\ Turns(p) /\ (Ends(p, q, k \o b) \/ Goes(p, q, k, b))
<1>1. CASE b = <<>> /\ Over(p, Merge(k, q), g, c)
  <2>1. Merge(k, q) \in Seq(Entry) /\ k \o b = k
    BY <1>1, MergeItems, ConcatEmptySeq
  <2>2. MemoryTyped' /\ AllCoupled' /\ Turns(p) /\ Goes(p, Merge(k, q), <<>>, <<>>)
    BY <1>1, <2>1, OverTyped
  <2> QED BY <2>1, <2>2 DEF Goes, Ends
<1>2. CASE /\ b # <<>>
           /\ queue' = [queue EXCEPT ![p] = q]
           /\ batch' = [batch EXCEPT ![p] = b] /\ kept' = [kept EXCEPT ![p] = k]
           /\ given' = [given EXCEPT ![p] = g] /\ changed' = [changed EXCEPT ![p] = c]
           /\ stage' = [stage EXCEPT ![p] = "sending"]
           /\ timer' = [timer EXCEPT ![p] = FALSE]
           /\ UNCHANGED saves
  <2>1. MemoryTyped'
    BY <1>2 DEF TypeInv, MemoryTyped, AroundTyped
  <2>2. Apart(p) /\ queue'[p] = q /\ batch'[p] = b /\ kept'[p] = k /\ stage'[p] = "sending"
    BY <1>2 DEF TypeInv, MemoryTyped, Apart
  <2>3. Coupled(p)'
    <3>1. Coupled(p)
      BY DEF TypeInv
    <3>2. OneFlush(saves'[p], stage'[p])
      BY <1>2, <3>1 DEF Coupled, OneFlush
    <3> QED BY <1>2, <2>2, <3>1, <3>2 DEF Coupled
  <2>4. AllCoupled'
    BY <2>2, <2>3, ApartCoupled DEF TypeInv, AllCoupled
  <2>5. Turns(p) /\ Goes(p, q, k, b)
    BY <1>2, <2>2 DEF Turns, Goes
  <2> QED BY <2>1, <2>4, <2>5
<1> QED BY <1>1, <1>2 DEF GoOn

-----------------------------------------------------------------------------
(* The safety invariant. *)
\* What the flush of a process still has in hand.
Hand(p) == kept[p] \o batch[p]

\* Mutations whose enqueue returned or waits for its write; those done with; and
\* those that have been sent.
Promised == accepted \cup UNION {Awaiting(saves[p]) : p \in Process}
Done == Items(log) \cup abandoned
Seen == wire \cup Items(log)

OneUp == \A p, q \in Process : up[p] /\ up[q] => p = q

\* Nothing is anywhere that was not passed to enqueue.
WorldKnown == Seen \cup abandoned \cup Facts(file) \cup Promised \subseteq issued
MemoryKnown(p) == /\ Facts(queue[p]) \cup Facts(Hand(p)) \subseteq issued
                  /\ writing[p] # None => Facts(writing[p]) \subseteq issued

MemorySound(p) ==
  /\ up[p] => Sound(queue[p], Hand(p), Promised, Done, Seen)
  /\ writing[p] # None => Written(writing[p], accepted \cup FirstAwaiting(saves[p]), Done)
  /\ \A m \in Facts(kept[p]) : ~IsTurn(m)

\* Turns observed before m are done with.
Follows(m, P, D) == \A n \in P : IsTurn(m) /\ IsTurn(n) /\ n.at < m.at => n \in D
Ordered == \A m \in Seen : Follows(m, Promised, Done)

\* TurnsArriveInOrder, for turns whose enqueue waits too.
LogInTurn == \A i, j \in DOMAIN log :
  i < j /\ IsTurn(log[i]) /\ IsTurn(log[j]) /\ log[j] \in Promised \ abandoned => log[i].at < log[j].at

SafeInv ==
  /\ OneUp /\ WorldKnown /\ (\A p \in Process : MemoryKnown(p) /\ MemorySound(p))
  /\ Written(file, accepted, Done)
  /\ Ordered /\ LogInTurn

\* What the types say of the sets the safety invariant is about.
LEMMA WorldFacts ==
  ASSUME TypeInv
  PROVE  /\ Items(log) \subseteq Mutation /\ Done \in SUBSET Mutation /\ Seen \in SUBSET Mutation
         /\ Promised \in SUBSET Mutation /\ accepted \subseteq Promised
         /\ \A p \in Process : /\ Awaiting(saves[p]) \subseteq Promised /\ FirstAwaiting(saves[p]) \subseteq Promised
                               /\ queue[p] \in Seq(Entry) /\ Hand(p) \in Seq(Entry)
                               /\ kept[p] \in Seq(Entry) /\ batch[p] \in Seq(Entry)
                               /\ saves[p] \in Seq(Request) /\ (writing[p] # None => writing[p] \in Seq(Entry))
                               /\ Facts(Hand(p)) = Facts(kept[p]) \cup Facts(batch[p])
<1>1. Items(log) \subseteq Mutation
  BY DEF TypeInv, WorldTyped, Items
<1>2. \A p \in Process : /\ queue[p] \in Seq(Entry) /\ kept[p] \in Seq(Entry) /\ batch[p] \in Seq(Entry)
                         /\ saves[p] \in Seq(Request) /\ (writing[p] # None => writing[p] \in Seq(Entry))
  BY DEF TypeInv, MemoryTyped
<1>3. \A p \in Process : /\ Awaiting(saves[p]) \subseteq Mutation /\ Awaiting(saves[p]) \subseteq Promised
                         /\ FirstAwaiting(saves[p]) \subseteq Awaiting(saves[p])
  BY <1>2, AwaitingProperties DEF Promised
<1>4. \A p \in Process : Hand(p) \in Seq(Entry) /\ Facts(Hand(p)) = Facts(kept[p]) \cup Facts(batch[p])
  BY <1>2, ConcatFacts DEF Hand
<1>5. Promised \in SUBSET Mutation
  BY <1>3 DEF Promised, TypeInv, WorldTyped
<1>6. Done \in SUBSET Mutation /\ Seen \in SUBSET Mutation
  BY <1>1 DEF Done, Seen, TypeInv, WorldTyped
<1>7. accepted \subseteq Promised
  BY DEF Promised
<1> QED BY <1>1, <1>2, <1>3, <1>4, <1>5, <1>6, <1>7

\* Nothing is promised at first.
LEMMA InitSafe == Init => SafeInv
<1> SUFFICES ASSUME Init PROVE SafeInv
  OBVIOUS
<1>1. /\ Items(<<>>) = {} /\ Facts(<<>>) = {} /\ Awaiting(<<>>) = {}
      /\ OneSlot(<<>>) /\ InTurn(<<>>) /\ Covers({}, {})
  BY DEF Facts, Items, Awaiting, OneSlot, InTurn, Covers
<1>2. Promised = {} /\ Seen = {} /\ Done = {}
  BY <1>1 DEF Init, Promised, Seen, Done
<1>3. ASSUME NEW p \in Process PROVE MemoryKnown(p) /\ MemorySound(p)
  <2>1. kept[p] = <<>> /\ batch[p] = <<>> /\ queue[p] = <<>> /\ ~up[p] /\ writing[p] = None
    BY DEF Init
  <2>2. Hand(p) = <<>>
    BY <2>1, ListFacts DEF Hand
  <2> QED BY <1>1, <2>1, <2>2 DEF MemoryKnown, MemorySound
<1>4. Written(file, accepted, Done)
  BY <1>1, <1>2 DEF Init, Written, Covers
<1>5. OneUp
  BY DEF Init, OneUp
<1>6. WorldKnown /\ Ordered /\ LogInTurn
  BY <1>1, <1>2 DEF Init, WorldKnown, Ordered, LogInTurn
<1> QED BY <1>3, <1>4, <1>5, <1>6 DEF SafeInv

\* A process that is not up holds nothing.
DownSound == \A p \in Process : ~up[p] => MemoryKnown(p) /\ MemorySound(p) /\ Awaiting(saves[p]) = {}

\* What the types say of a process that is down.
LEMMA DownIsSound == TypeInv => DownSound
<1> SUFFICES ASSUME TypeInv, NEW p \in Process, ~up[p]
             PROVE  MemoryKnown(p) /\ MemorySound(p) /\ Awaiting(saves[p]) = {}
  BY DEF DownSound
<1>1. queue[p] = <<>> /\ batch[p] = <<>> /\ kept[p] = <<>> /\ saves[p] = <<>> /\ writing[p] = None
  BY DEF TypeInv, Coupled
<1>2. Facts(<<>>) = {} /\ <<>> \o <<>> = <<>> /\ Awaiting(<<>>) = {}
  BY DEF Facts, Items, Awaiting
<1> QED BY <1>1, <1>2 DEF MemoryKnown, MemorySound, Hand

\* The same after a step.
LEMMA DownIsSoundNext == TypeInv' => DownSound'
BY DownIsSound, PTL

\* A step of process p, that is up and may go down.
LEMMA SafeMoves ==
  ASSUME TypeInv, TypeInv', SafeInv, NEW p \in Process, up[p], Apart(p),
         issued' = issued, log' = log, abandoned \subseteq abandoned', abandoned' \subseteq issued,
         Awaiting(saves'[p]) \subseteq Awaiting(saves[p]), accepted' \subseteq Promised,
         Written(file, accepted, Done)', Facts(file') \subseteq issued,
         MemoryKnown(p)',
         up'[p] => Sound(queue'[p], Hand(p)', Promised, Done', Seen'),
         writing'[p] # None => Written(writing'[p], accepted' \cup FirstAwaiting(saves'[p]), Done'),
         \A m \in Facts(kept'[p]) : ~IsTurn(m),
         \A m \in Seen' \ Seen : m \in issued /\ Follows(m, Promised, Done')
  PROVE  SafeInv'
<1>1. \A q \in Process \ {p} : ~up[q] /\ ~up'[q]
  BY DEF SafeInv, OneUp, Apart
<1>2. \A q \in Process \ {p} : MemoryKnown(q)' /\ MemorySound(q)' /\ Awaiting(saves'[q]) = {}
  <2>1. DownSound'
    BY DownIsSoundNext
  <2> QED BY <1>1, <2>1 DEF DownSound
<1>3. Promised' \subseteq Promised
  BY <1>2 DEF Promised
<1>4. Done \subseteq Done'
  BY DEF Done
<1>5. MemorySound(p)'
  <2>1. up'[p] => Sound(queue'[p], Hand(p)', Promised', Done', Seen')
    BY <1>3, SoundWeakens
  <2> QED BY <2>1 DEF MemorySound
<1>6. OneUp'
  BY <1>1 DEF OneUp
<1>7. WorldKnown'
  BY <1>3 DEF WorldKnown, SafeInv, Seen
<1>8. Ordered'
  BY <1>3, <1>4 DEF SafeInv, Ordered, Follows
<1>9. LogInTurn'
  BY <1>3 DEF SafeInv, LogInTurn
<1> QED BY <1>2, <1>5, <1>6, <1>7, <1>8, <1>9 DEF SafeInv

-----------------------------------------------------------------------------
(* The steps, by what they do. *)
\* What the types say of a process, and of the item its flush has come to.
LEMMA InHand ==
  ASSUME TypeInv, NEW p \in Process
  PROVE  /\ queue[p] \in Seq(Entry) /\ kept[p] \in Seq(Entry) /\ batch[p] \in Seq(Entry)
         /\ given[p] \in SUBSET Mutation /\ changed[p] \in BOOLEAN /\ saves[p] \in Seq(Request)
         /\ saves[p] # <<>> => up[p]
         /\ stage[p] \notin {"sending", "awaiting"} => batch[p] = <<>> /\ kept[p] = <<>>
         /\ stage[p] # "idle" => up[p]
         /\ stage[p] \in {"sending", "awaiting"} =>
              /\ up[p] /\ batch[p] # <<>> /\ Tail(batch[p]) \in Seq(Entry)
              /\ This(p) \in Entry /\ This(p).m \in Mutation /\ This(p).m \in Facts(batch[p])
<1>1. /\ queue[p] \in Seq(Entry) /\ kept[p] \in Seq(Entry) /\ batch[p] \in Seq(Entry)
      /\ given[p] \in SUBSET Mutation /\ changed[p] \in BOOLEAN /\ saves[p] \in Seq(Request)
  BY DEF TypeInv, MemoryTyped
<1>2. Coupled(p) /\ up[p] \in BOOLEAN
  BY DEF TypeInv, MemoryTyped
<1>3. ASSUME stage[p] \in {"sending", "awaiting"}
      PROVE  /\ up[p] /\ batch[p] # <<>> /\ Tail(batch[p]) \in Seq(Entry)
             /\ This(p) \in Entry /\ This(p).m \in Mutation /\ This(p).m \in Facts(batch[p])
  <2>1. up[p] /\ batch[p] # <<>>
    BY <1>2, <1>3 DEF Coupled
  <2>2. 0 \in 0..Len(Tail(batch[p]))
    BY <1>1, <2>1
  <2>3. Tail(batch[p]) \in Seq(Entry) /\ This(p) \in Entry /\ This(p).m \in Facts(batch[p])
    BY <1>1, <2>1, <2>2, DoneWith DEF This
  <2> QED BY <1>1, <2>1, <2>3, FactsAreMutations
<1>4. saves[p] # <<>> => up[p]
  BY <1>2 DEF Coupled
<1>5. stage[p] \notin {"sending", "awaiting"} => batch[p] = <<>> /\ kept[p] = <<>>
  BY <1>2 DEF Coupled
<1>6. stage[p] # "idle" => up[p]
  BY <1>2 DEF Coupled
<1> QED BY <1>1, <1>3, <1>4, <1>5, <1>6

\* A flush that is over: types are kept, and what was in hand is in the queue.
LEMMA OverTurns ==
  ASSUME TypeInv, NEW p \in Process, up[p], stage[p] # "saving", NEW q \in Seq(Entry), NEW h \in Seq(Entry),
         NEW g \in SUBSET Mutation, NEW c \in BOOLEAN,
         Over(p, Merge(h, q), g, c), Same(p), UNCHANGED snapshots, WorldTyped'
  PROVE  TypeInv' /\ Turns(p) /\ Ends(p, q, h)
<1>1. Merge(h, q) \in Seq(Entry)
  BY MergeItems
<1>2. AroundTyped' /\ UNCHANGED <<up, closed, writing>>
  BY DEF Same, TypeInv, MemoryTyped, AroundTyped
<1>3. MemoryTyped' /\ AllCoupled' /\ Turns(p) /\ Goes(p, Merge(h, q), <<>>, <<>>)
  BY <1>1, <1>2, OverTyped
<1> QED BY <1>3 DEF TypeInv, AllCoupled, Ends, Goes

\* A flush that goes on or is over.
LEMMA GoOnTurns ==
  ASSUME TypeInv, NEW p \in Process, up[p], stage[p] # "saving",
         NEW q \in Seq(Entry), NEW k \in Seq(Entry), NEW b \in Seq(Entry),
         NEW g \in SUBSET Mutation, NEW c \in BOOLEAN,
         GoOn(p, q, k, b, g, c), Same(p), UNCHANGED snapshots, WorldTyped'
  PROVE  TypeInv' /\ Turns(p) /\ (Ends(p, q, k \o b) \/ Goes(p, q, k, b))
<1>1. AroundTyped' /\ UNCHANGED <<up, closed, writing>>
  BY DEF Same, TypeInv, MemoryTyped, AroundTyped
<1>2. MemoryTyped' /\ AllCoupled' /\ Turns(p) /\ (Ends(p, q, k \o b) \/ Goes(p, q, k, b))
  BY <1>1, GoOnTyped
<1> QED BY <1>2 DEF TypeInv, AllCoupled

\* A flush starts: the queue is in hand.
LEMMA StartFlushTurns ==
  ASSUME TypeInv, NEW p \in Process, NEW r \in {"soft", "flush", "close"}, StartFlush(p, r),
         wanted' \in [Process -> SUBSET {"soft", "flush", "close"}]
  PROVE  /\ TypeInv' /\ Turns(p)
         /\ Ends(p, <<>>, Prune(queue[p])) \/ Goes(p, <<>>, <<>>, Prune(queue[p]))
<1> DEFINE b == Prune(queue[p])
           c == changed[p] \/ Len(b) # Len(queue[p])
<1>1. b \in Seq(Entry) /\ c \in BOOLEAN
  BY InHand, PruneProperties
<1>2. /\ up[p] /\ stage[p] # "saving" /\ GoOn(p, <<>>, <<>>, b, {}, c)
      /\ reason' = [reason EXCEPT ![p] = r] /\ snapshots' = [snapshots EXCEPT ![p] = 0]
      /\ UNCHANGED <<up, closed, writing, file, deadFile, net, history>>
  BY DEF StartFlush
<1>3. AroundTyped' /\ UNCHANGED <<up, closed, writing>>
  BY <1>2, BoundsAreNatural DEF TypeInv, MemoryTyped, AroundTyped
<1>4. WorldTyped'
  BY <1>2 DEF TypeInv, WorldTyped, net, history
<1> HIDE DEF b, c
<1>5. <<>> \o b = b
  BY <1>1, ConcatEmptySeq
<1>6. {} \in SUBSET Mutation
  OBVIOUS
<1>7. MemoryTyped' /\ AllCoupled' /\ Turns(p) /\ (Ends(p, <<>>, <<>> \o b) \/ Goes(p, <<>>, <<>>, b))
  BY <1>1, <1>2, <1>3, <1>6, ListFacts, GoOnTyped
<1> QED BY <1>4, <1>5, <1>7 DEF TypeInv, AllCoupled, b

\* The other steps of a flush, by what they do.
LEMMA PassOverTurns ==
  ASSUME TypeInv, NEW p \in Process, PassOver(p) \/ Defer(p)
  PROVE  /\ TypeInv' /\ Turns(p) /\ stage[p] = "sending" /\ This(p).m.kind = "snapshot"
         /\ \E e \in Entry :
              /\ e.m = This(p).m
              /\ \/ Ends(p, queue[p], Append(kept[p], e) \o Tail(batch[p]))
                 \/ Goes(p, queue[p], Append(kept[p], e), Tail(batch[p]))
<1>1. /\ Same(p) /\ UNCHANGED <<snapshots, net, abandoned, trouble>> /\ stage[p] = "sending"
      /\ This(p).m.kind = "snapshot"
  BY DEF PassOver, Defer, Sending, OverLimit
<1>2. WorldTyped'
  BY <1>1 DEF TypeInv, WorldTyped, net, Same
<1>3. PICK e \in Entry, c \in BOOLEAN :
        /\ e.m = This(p).m
        /\ GoOn(p, queue[p], Append(kept[p], e), Tail(batch[p]), given[p], c)
  <2>1. This(p) \in Entry /\ [This(p) EXCEPT !.waiting = TRUE] \in Entry
        /\ [This(p) EXCEPT !.waiting = TRUE].m = This(p).m
    <3>1. This(p) \in Entry
      BY <1>1, InHand
    <3> QED BY <3>1 DEF Entry
  <2>2. changed[p] \in BOOLEAN
    BY InHand
  <2> QED BY <2>1, <2>2 DEF PassOver, Defer
<1>4. Append(kept[p], e) \in Seq(Entry) /\ Tail(batch[p]) \in Seq(Entry)
  BY <1>1, <1>3, InHand, KeptOn DEF This
<1>5. TypeInv' /\ Turns(p)
      /\ \/ Ends(p, queue[p], Append(kept[p], e) \o Tail(batch[p]))
         \/ Goes(p, queue[p], Append(kept[p], e), Tail(batch[p]))
  BY <1>1, <1>2, <1>3, <1>4, InHand, GoOnTurns
<1> QED BY <1>1, <1>3, <1>5

\* An item that will be tried again is an entry.
LEMMA RetriedIsEntry ==
  ASSUME TypeInv, NEW p \in Process, stage[p] \in {"sending", "awaiting"}, NEW n \in {0, 1},
         This(p).attempts + n <= MaxAttempts
  PROVE  Retried(p, n) \in Entry /\ Retried(p, n).m = This(p).m
<1> DEFINE e == This(p)
           r == Retried(p, n)
<1>1. e \in Entry
  BY InHand
<1>2. e.attempts \in Nat /\ e.attempts + n \in 0..MaxAttempts /\ e.m \in Mutation
  BY <1>1, BoundsAreNatural DEF Entry
<1>3. r = [e EXCEPT !.attempts = e.attempts + n, !.waiting = TRUE]
  BY DEF Retried
<1> HIDE DEF e, r
<1>4. r = [m |-> e.m, attempts |-> e.attempts + n, waiting |-> TRUE]
  BY <1>1, <1>3 DEF Entry
<1> QED BY <1>2, <1>4 DEF Entry, e, r

\* An item holds up the flush: it is not due, or was not acknowledged.
LEMMA HoldUpTurns ==
  ASSUME TypeInv, NEW p \in Process, HoldUp(p) \/ AuthFails(p) \/ Fail(p)
  PROVE  /\ TypeInv' /\ Turns(p) /\ stage[p] \in {"sending", "awaiting"}
         /\ Same(p) /\ log' = log /\ abandoned' = abandoned /\ wire' \subseteq wire
         /\ \E e \in Entry : e.m = This(p).m /\ Ends(p, queue[p], Remaining(p, e))
<1>1. /\ stage[p] \in {"sending", "awaiting"} /\ Same(p) /\ UNCHANGED snapshots
      /\ log' = log /\ abandoned' = abandoned /\ wire' \subseteq wire /\ trouble' \subseteq Trouble
  BY DEF HoldUp, AuthFails, Fail, Unanswered, Sending, net, Strikes, Trouble, TypeInv, WorldTyped
<1>2. WorldTyped'
  BY <1>1 DEF TypeInv, WorldTyped, Same
<1>3. PICK e \in Entry, c \in BOOLEAN :
        e.m = This(p).m /\ Over(p, Merge(Remaining(p, e), queue[p]), given[p], c)
  <2>1. This(p) \in Entry /\ changed[p] \in BOOLEAN
    BY <1>1, InHand
  <2>2. CASE HoldUp(p)
    BY <2>1, <2>2 DEF HoldUp
  <2>3. CASE AuthFails(p)
    <3>1. This(p).attempts + 0 <= MaxAttempts
      BY <2>1, BoundsAreNatural DEF Entry
    <3> QED BY <1>1, <2>3, <3>1, RetriedIsEntry DEF AuthFails
  <2>4. CASE Fail(p)
    <3>1. This(p).attempts + 1 <= MaxAttempts
      BY <2>1, <2>4, BoundsAreNatural DEF Entry, Fail
    <3> QED BY <1>1, <2>4, <3>1, RetriedIsEntry DEF Fail
  <2> QED BY <2>2, <2>3, <2>4
<1>4. Remaining(p, e) \in Seq(Entry)
  BY <1>1, <1>3, InHand, KeptOn DEF Remaining, This
<1>5. TypeInv' /\ Turns(p) /\ Ends(p, queue[p], Remaining(p, e))
  BY <1>1, <1>2, <1>3, <1>4, InHand, OverTurns
<1> QED BY <1>1, <1>3, <1>5

\* Acknowledged, or given up with the n mutations that depend on it.
LEMMA AckTurns ==
  ASSUME TypeInv, NEW p \in Process, Ack(p)
  PROVE  /\ TypeInv' /\ Turns(p) /\ stage[p] = "awaiting" /\ This(p).m \in Items(log)
         /\ Same(p) /\ UNCHANGED <<net, abandoned>>
         /\ \/ Ends(p, queue[p], kept[p] \o Tail(batch[p]))
            \/ Goes(p, queue[p], kept[p], Tail(batch[p]))
<1>1. /\ Same(p) /\ UNCHANGED <<snapshots, net, abandoned, trouble>> /\ stage[p] = "awaiting"
      /\ This(p).m \in Items(log)
      /\ GoOn(p, queue[p], kept[p], Tail(batch[p]), given[p], TRUE)
  BY DEF Ack
<1>2. WorldTyped'
  BY <1>1 DEF TypeInv, WorldTyped, net, Same
<1>3. Tail(batch[p]) \in Seq(Entry) /\ up[p]
  BY <1>1, InHand
<1> QED BY <1>1, <1>2, <1>3, InHand, GoOnTurns

\* The item is given up together with the n mutations that depend on it.
LEMMA GiveUpTurns ==
  ASSUME TypeInv, NEW p \in Process, GiveUp(p)
  PROVE  /\ TypeInv' /\ Turns(p) /\ stage[p] = "awaiting"
         /\ Same(p) /\ log' = log /\ wire' \subseteq wire
         /\ \E n \in 0..Len(Tail(batch[p])) :
              LET rest == Tail(batch[p]) IN
              /\ abandoned' = abandoned \cup {This(p).m} \cup Facts(SubSeq(rest, 1, n))
              /\ \/ Ends(p, queue[p], kept[p] \o SubSeq(rest, n + 1, Len(rest)))
                 \/ Goes(p, queue[p], kept[p], SubSeq(rest, n + 1, Len(rest)))
<1> DEFINE rest == Tail(batch[p])
           n == Cardinality(Dependents(This(p).m, rest))
           gone == {This(p).m} \cup Facts(SubSeq(rest, 1, n))
           b == SubSeq(rest, n + 1, Len(rest))
<1>1. /\ Same(p) /\ UNCHANGED snapshots /\ stage[p] = "awaiting" /\ log' = log /\ wire' \subseteq wire
      /\ trouble' \subseteq Trouble
      /\ abandoned' = abandoned \cup gone
      /\ GoOn(p, queue[p], kept[p], b, given[p] \cup gone, TRUE)
  BY DEF GiveUp, Unanswered, Strikes, Trouble, TypeInv, WorldTyped
<1>2. /\ rest \in Seq(Entry) /\ up[p] /\ batch[p] # <<>> /\ This(p).m \in Mutation
      /\ batch[p] \in Seq(Entry) /\ kept[p] \in Seq(Entry) /\ queue[p] \in Seq(Entry) /\ given[p] \in SUBSET Mutation
  BY <1>1, InHand
<1>3. n \in 0..Len(rest)
  BY <1>2, DependentsAreThere
<1> HIDE DEF n
<1>4. SubSeq(rest, 1, n) \in Seq(Entry) /\ b \in Seq(Entry)
  BY <1>2, <1>3, DoneWith
<1>5. gone \subseteq Mutation
  BY <1>2, <1>4, FactsAreMutations
<1> HIDE DEF b
<1>6. WorldTyped'
  BY <1>1, <1>5 DEF TypeInv, WorldTyped, Same
<1>7. given[p] \cup gone \in SUBSET Mutation
  BY <1>2, <1>5
<1>8. TypeInv' /\ Turns(p) /\ (Ends(p, queue[p], kept[p] \o b) \/ Goes(p, queue[p], kept[p], b))
  <2> HIDE DEF gone
  <2> QED BY <1>1, <1>2, <1>4, <1>6, <1>7, GoOnTurns
<1> QED BY <1>1, <1>3, <1>8 DEF b

\* Start: the queue is the file, pruned.
LEMMA StartTyped ==
  ASSUME TypeInv, NEW p \in Process, Start(p)
  PROVE  /\ TypeInv' /\ Apart(p) /\ ~up[p] /\ up'[p] /\ queue'[p] = Prune(file)
         /\ UNCHANGED <<batch, kept, saves, writing, file, wire, log, issued, accepted, abandoned>>
<1>1. Prune(file) \in Seq(Entry)
  BY PruneProperties DEF TypeInv, WorldTyped
<1>2. MemoryTyped' /\ WorldTyped'
  BY <1>1 DEF Start, disk, net, TypeInv, MemoryTyped, WorldTyped
<1>3. /\ Apart(p) /\ ~up[p] /\ up'[p] /\ queue'[p] = Prune(file)
      /\ UNCHANGED <<batch, kept, saves, writing, file, wire, log, issued, accepted, abandoned, stage>>
  BY DEF Start, MayStart, Apart, disk, net, TypeInv, MemoryTyped
<1>4. Coupled(p)'
  BY <1>3 DEF TypeInv, Coupled
<1> QED BY <1>2, <1>3, <1>4, ApartCoupled DEF TypeInv

\* Crash: the memory is gone, the file stays.
LEMMA CrashTyped ==
  ASSUME TypeInv, NEW p \in Process, Crash(p)
  PROVE  /\ TypeInv' /\ up[p] /\ Apart(p) /\ ~up'[p]
         /\ UNCHANGED <<file, wire, log, issued, accepted, abandoned>>
<1>1. Forget(p) /\ up[p] /\ UNCHANGED <<file, deadFile, net, history>>
  BY DEF Crash
<1>2. MemoryTyped' /\ AllCoupled' /\ Apart(p) /\ ~up'[p]
  BY <1>1, ForgetTyped DEF AllCoupled
<1>3. WorldTyped'
  BY <1>1 DEF TypeInv, WorldTyped, net, history
<1> QED BY <1>1, <1>2, <1>3 DEF TypeInv, AllCoupled, net, history

\* Enqueue: the queue takes the mutation, and enqueue waits for a write.
LEMMA EnqueueTyped ==
  ASSUME TypeInv, NEW p \in Process, NEW m \in plan, Enqueue(p, m)
  PROVE  /\ TypeInv' /\ m \in Mutation /\ Apart(p) /\ up[p] /\ issued' = issued \cup {m}
         /\ queue'[p] = Prune(Merge(queue[p], <<Fresh(m)>>))
         /\ saves'[p] = Append(saves[p], Save("enqueue", m))
         /\ \A n \in issued : n.at < m.at
         /\ UNCHANGED <<up, batch, kept, writing, file, wire, log, accepted, abandoned>>
<1>1. m \in Mutation
  BY PlansAreOfMutations DEF TypeInv, WorldTyped
<1>2. queue[p] \in Seq(Entry) /\ saves[p] \in Seq(Request) /\ Fresh(m) \in Entry /\ Save("enqueue", m) \in Request
  BY <1>1, InHand, FreshIsEntry, SaveIsRequest
<1>3. Prune(Merge(queue[p], <<Fresh(m)>>)) \in Seq(Entry)
  <2>1. <<Fresh(m)>> \in Seq(Entry)
    BY <1>2
  <2> QED BY <1>2, <2>1, MergeItems, PruneProperties
<1>4. Append(saves[p], Save("enqueue", m)) \in Seq(Request) /\ Append(saves[p], Save("enqueue", m)) # <<>>
  BY <1>2, AwaitingProperties
<1>5. /\ up[p] /\ \A n \in issued : n.at < m.at
      /\ issued' = issued \cup {m}
      /\ queue' = [queue EXCEPT ![p] = Prune(Merge(queue[p], <<Fresh(m)>>))]
      /\ saves' = [saves EXCEPT ![p] = Append(saves[p], Save("enqueue", m))]
      /\ UNCHANGED <<up, closed, flush, wanted, timer, writing, file, deadFile, net,
                     accepted, abandoned, starts, trouble, plan>>
  BY DEF Enqueue
<1>6. MemoryTyped' /\ WorldTyped'
  BY <1>1, <1>3, <1>4, <1>5 DEF TypeInv, MemoryTyped, WorldTyped, flush, net
<1>7. /\ Apart(p) /\ queue'[p] = Prune(Merge(queue[p], <<Fresh(m)>>))
      /\ saves'[p] = Append(saves[p], Save("enqueue", m)) /\ UNCHANGED <<batch, kept, stage>>
  BY <1>5 DEF Apart, TypeInv, MemoryTyped, flush
<1>8. Coupled(p)'
  <2>1. Coupled(p) /\ Save("enqueue", m).of # "flush"
    BY DEF TypeInv, Save
  <2>2. OneFlush(saves'[p], stage'[p])
    BY <1>2, <1>7, <2>1, OneFlushOfAppend DEF Coupled
  <2> QED BY <1>4, <1>5, <1>7, <2>1, <2>2 DEF Coupled
<1> QED BY <1>1, <1>5, <1>6, <1>7, <1>8, ApartCoupled DEF TypeInv, net

\* persist writes what the process holds.
LEMMA ContentTyped ==
  ASSUME TypeInv, NEW p \in Process
  PROVE  Content(p) \in Seq(Entry)
BY InHand, MergeItems, PruneProperties DEF Content, InFlight

\* BeginWrite: the content is fixed.
LEMMA BeginWriteTyped ==
  ASSUME TypeInv, NEW p \in Process, BeginWrite(p)
  PROVE  /\ TypeInv' /\ Apart(p) /\ up[p] /\ writing'[p] = Content(p)
         /\ UNCHANGED <<up, queue, batch, kept, saves, file, wire, log, issued, accepted, abandoned>>
<1>1. /\ saves[p] # <<>> /\ writing' = [writing EXCEPT ![p] = Content(p)]
      /\ UNCHANGED <<up, closed, queue, flush, wanted, timer, saves, file, deadFile, net, history>>
  BY DEF BeginWrite
<1>2. MemoryTyped' /\ WorldTyped'
  BY <1>1, ContentTyped DEF TypeInv, MemoryTyped, WorldTyped, flush, net, history
<1>3. Apart(p) /\ writing'[p] = Content(p) /\ UNCHANGED <<batch, kept, stage>>
  BY <1>1 DEF Apart, TypeInv, MemoryTyped, flush
<1>4. Coupled(p)' /\ up[p]
  BY <1>1, <1>3 DEF TypeInv, Coupled
<1> QED BY <1>1, <1>2, <1>3, <1>4, ApartCoupled DEF TypeInv, net, history

\* A write that ends, and the same of one that fails: the one who waited for it
\* goes on, or the process leaves.
Resumes(p) ==
  /\ up'[p] /\ writing'[p] = None
  /\ UNCHANGED <<queue, batch, kept>>
  /\ Awaiting(saves'[p]) \subseteq Awaiting(saves[p])

\* EndWrite: the file is what was written, and at most its saver is accepted.
LEMMA EndWriteTyped ==
  ASSUME TypeInv, NEW p \in Process, EndWrite(p)
  PROVE  /\ TypeInv' /\ Apart(p) /\ up[p] /\ writing[p] # None /\ file' = writing[p]
         /\ (~up'[p] /\ Awaiting(saves'[p]) = {}) \/ Resumes(p)
         /\ accepted' \subseteq accepted \cup FirstAwaiting(saves[p])
         /\ UNCHANGED <<wire, log, issued, abandoned>>
<1>1. /\ writing[p] # None /\ file' = writing[p] /\ UNCHANGED <<deadFile, net, issued, abandoned, starts, trouble, plan>>
  BY DEF EndWrite
<1>2. saves[p] # <<>> /\ up[p] /\ writing[p] \in Seq(Entry) /\ saves[p] \in Seq(Request)
  BY <1>1 DEF TypeInv, Coupled, MemoryTyped
<1>3. /\ Tail(saves[p]) \in Seq(Request) /\ Awaiting(Tail(saves[p])) \subseteq Awaiting(saves[p])
      /\ Saver(p) \in Request /\ (Saver(p).of = "enqueue" => FirstAwaiting(saves[p]) = {Saver(p).m} /\ Saver(p).m \in Mutation)
  BY <1>2, AwaitingProperties DEF Saver, FirstAwaiting, Request
<1>8. /\ OneFlush(Tail(saves[p]), stage[p])
      /\ Saver(p).of = "flush" => stage[p] = "saving" /\ FlushSaves(Tail(saves[p])) = {}
  <2>1. OneFlush(saves[p], stage[p])
    BY DEF TypeInv, Coupled
  <2>2. /\ OneFlush(Tail(saves[p]), stage[p])
        /\ Head(saves[p]).of = "flush" => stage[p] = "saving" /\ FlushSaves(Tail(saves[p])) = {}
    BY <1>2, <2>1, OneFlushOfTail
  <2> QED BY <2>2 DEF Saver
<1>4. UNCHANGED <<wire, log, issued, abandoned>>
  BY <1>1 DEF net
<1>5. CASE Forget(p) /\ UNCHANGED accepted
  <2>1. MemoryTyped' /\ AllCoupled' /\ Apart(p) /\ ~up'[p] /\ saves'[p] = <<>>
    BY <1>5, ForgetTyped DEF AllCoupled
  <2>2. WorldTyped' /\ Awaiting(<<>>) = {}
    BY <1>1, <1>2, <1>5 DEF TypeInv, WorldTyped, net, Awaiting
  <2> QED BY <1>1, <1>2, <1>4, <1>5, <2>1, <2>2 DEF TypeInv, AllCoupled
<1>6. CASE /\ stage' = [stage EXCEPT ![p] = "idle"] /\ Saver(p).of = "flush"
           /\ RetryTimer(p, queue[p])
           /\ writing' = [writing EXCEPT ![p] = None]
           /\ UNCHANGED <<up, closed, queue, reason, batch, kept, given, changed, snapshots, wanted, accepted>>
           /\ Settles(p, Tail(saves[p]))
  <2>1. /\ saves' \in [Process -> Seq(Request)] /\ \A r \in Process \ {p} : saves'[r] = saves[r]
        /\ Awaiting(saves'[p]) \subseteq Awaiting(saves[p])
    BY <1>3, <1>6, <1>8, SettlesTyped
  <2>6. FlushSaves(saves'[p]) = {}
    BY <1>3, <1>6, <1>8, SettlesTyped
  <2>2. MemoryTyped'
    BY <1>6, <2>1 DEF TypeInv, MemoryTyped, RetryTimer
  <2>3. WorldTyped'
    BY <1>1, <1>2, <1>6 DEF TypeInv, WorldTyped, net
  <2>4. Apart(p) /\ Resumes(p) /\ stage'[p] = "idle"
    BY <1>2, <1>6, <2>1 DEF TypeInv, MemoryTyped, Apart, Resumes
  <2>5. Coupled(p)'
    <3>1. Coupled(p) /\ stage[p] = "saving"
      BY <1>6, <1>8 DEF TypeInv
    <3>2. OneFlush(saves'[p], stage'[p])
      BY <2>6 DEF OneFlush
    <3> QED BY <1>6, <2>4, <3>1, <3>2 DEF Coupled, Resumes
  <2> QED BY <1>1, <1>2, <1>4, <1>6, <2>2, <2>3, <2>4, <2>5, ApartCoupled DEF TypeInv
<1>7. CASE /\ Saver(p).of = "enqueue" /\ accepted' = accepted \cup {Saver(p).m}
           /\ wanted' = [wanted EXCEPT ![p] = IF closed[p] THEN @ ELSE @ \cup {"soft"}]
           /\ saves' = [saves EXCEPT ![p] = Tail(@)]
           /\ writing' = [writing EXCEPT ![p] = None]
           /\ UNCHANGED <<up, closed, queue, flush, timer>>
  <2>1. saves' = [saves EXCEPT ![p] = Tail(saves[p])] /\ saves'[p] = Tail(saves[p])
    BY <1>7 DEF TypeInv, MemoryTyped
  <2>2. MemoryTyped'
    BY <1>3, <1>7, <2>1 DEF TypeInv, MemoryTyped, flush
  <2>3. WorldTyped'
    BY <1>1, <1>2, <1>3, <1>7 DEF TypeInv, WorldTyped, net
  <2>4. Apart(p) /\ Resumes(p)
    BY <1>2, <1>3, <1>7, <2>1 DEF TypeInv, MemoryTyped, Apart, Resumes, flush
  <2>5. Coupled(p)'
    <3>1. Coupled(p) /\ stage' = stage
      BY <1>7 DEF TypeInv, flush
    <3>2. OneFlush(saves'[p], stage'[p])
      BY <1>8, <2>1, <3>1
    <3> QED BY <1>2, <1>7, <2>4, <3>1, <3>2 DEF Coupled, Resumes
  <2> QED BY <1>1, <1>2, <1>3, <1>4, <1>7, <2>2, <2>3, <2>4, <2>5, ApartCoupled DEF TypeInv
<1> QED BY <1>5, <1>6, <1>7 DEF EndWrite

\* FailWrite: the file stays, and nobody is accepted.
LEMMA FailWriteTyped ==
  ASSUME TypeInv, NEW p \in Process, FailWrite(p)
  PROVE  /\ TypeInv' /\ Apart(p) /\ up[p]
         /\ (~up'[p] /\ Awaiting(saves'[p]) = {}) \/ Resumes(p)
         /\ UNCHANGED <<file, wire, log, issued, accepted, abandoned>>
<1>1. /\ writing[p] # None /\ trouble' = trouble \cup {"write"}
      /\ UNCHANGED <<file, deadFile, net, issued, accepted, abandoned, starts, plan>>
  BY DEF FailWrite, Strikes
<1>2. saves[p] # <<>> /\ up[p] /\ saves[p] \in Seq(Request)
  BY <1>1 DEF TypeInv, Coupled, MemoryTyped
<1>3. /\ Tail(saves[p]) \in Seq(Request) /\ Awaiting(Tail(saves[p])) \subseteq Awaiting(saves[p])
  BY <1>2, AwaitingProperties
<1>4. WorldTyped' /\ UNCHANGED <<file, wire, log, issued, accepted, abandoned>>
  BY <1>1 DEF TypeInv, WorldTyped, net, Trouble
<1>5. CASE Forget(p)
  <2>1. MemoryTyped' /\ AllCoupled' /\ Apart(p) /\ ~up'[p] /\ saves'[p] = <<>>
    BY <1>5, ForgetTyped DEF AllCoupled
  <2>2. Awaiting(<<>>) = {}
    BY DEF Awaiting
  <2> QED BY <1>2, <1>4, <1>5, <2>1, <2>2 DEF TypeInv, AllCoupled
<1>6. CASE /\ Saver(p).of = "enqueue" \/ (Saver(p).of = "flush" /\ ~CloseWaits(p))
           /\ stage' = [stage EXCEPT ![p] = IF Saver(p).of = "flush" THEN "idle" ELSE @]
           /\ wanted' = [wanted EXCEPT ![p] = IF Saver(p).of = "flush" THEN {} ELSE @]
           /\ saves' = [saves EXCEPT ![p] = Tail(@)]
           /\ writing' = [writing EXCEPT ![p] = None]
           /\ UNCHANGED <<up, closed, queue, reason, batch, kept, given, changed, snapshots, timer>>
  <2>1. saves' = [saves EXCEPT ![p] = Tail(saves[p])] /\ saves'[p] = Tail(saves[p])
    BY <1>6 DEF TypeInv, MemoryTyped
  <2>2. MemoryTyped'
    BY <1>3, <1>6, <2>1 DEF TypeInv, MemoryTyped
  <2>3. Apart(p) /\ Resumes(p) /\ stage'[p] = IF Saver(p).of = "flush" THEN "idle" ELSE stage[p]
    BY <1>2, <1>3, <1>6, <2>1 DEF TypeInv, MemoryTyped, Apart, Resumes
  <2>4. /\ OneFlush(Tail(saves[p]), stage[p]) /\ Coupled(p)
        /\ Saver(p).of = "flush" => stage[p] = "saving" /\ FlushSaves(Tail(saves[p])) = {}
    <3>1. OneFlush(saves[p], stage[p]) /\ Coupled(p)
      BY DEF TypeInv, Coupled
    <3>2. /\ OneFlush(Tail(saves[p]), stage[p])
          /\ Head(saves[p]).of = "flush" => stage[p] = "saving" /\ FlushSaves(Tail(saves[p])) = {}
      BY <1>2, <3>1, OneFlushOfTail
    <3> QED BY <3>1, <3>2 DEF Saver
  <2>5. OneFlush(saves'[p], stage'[p])
    BY <2>1, <2>3, <2>4 DEF OneFlush
  <2>6. Coupled(p)'
    BY <1>2, <1>6, <2>3, <2>4, <2>5 DEF Coupled, Resumes
  <2> QED BY <1>2, <1>4, <2>2, <2>3, <2>6, ApartCoupled DEF TypeInv
<1> QED BY <1>5, <1>6 DEF FailWrite

\* Steps that touch neither what the process holds nor whom it lets wait.
Quiet(p) ==
  /\ up[p] /\ Apart(p) /\ UNCHANGED <<up, kept, writing, file, wire, log, issued, accepted, abandoned>>
  /\ Alike(queue'[p], queue[p]) /\ Hand(p)' = Hand(p)
  /\ Awaiting(saves'[p]) = Awaiting(saves[p])
  /\ saves[p] # <<>> => FirstAwaiting(saves'[p]) = FirstAwaiting(saves[p])

\* Record moves no mutation that matters to the file or the server.
LEMMA RecordTyped ==
  ASSUME TypeInv, NEW p \in Process, Record(p)
  PROVE  TypeInv' /\ Quiet(p)
<1>1. /\ stage[p] = "recording" /\ deadFile' = deadFile \cup given[p]
      /\ given' = [given EXCEPT ![p] = {}] /\ stage' = [stage EXCEPT ![p] = "saving"]
      /\ saves' = [saves EXCEPT ![p] = Append(saves[p], Save("flush", None))]
      /\ UNCHANGED <<up, closed, queue, reason, batch, kept, changed, snapshots, wanted, timer,
                     writing, file, net, history>>
  BY DEF Record
<1>2. up[p] /\ saves[p] \in Seq(Request) /\ given[p] \in SUBSET Mutation /\ Coupled(p)
  BY <1>1, InHand DEF TypeInv
<1>3. Save("flush", None) \in Request /\ Save("flush", None).of # "enqueue"
  BY SaveIsRequest
<1>4. /\ Append(saves[p], Save("flush", None)) \in Seq(Request)
      /\ Append(saves[p], Save("flush", None)) # <<>>
      /\ saves[p] # <<>> => FirstAwaiting(Append(saves[p], Save("flush", None))) = FirstAwaiting(saves[p])
  BY <1>2, <1>3, AwaitingProperties
<1>5. Awaiting(Append(saves[p], Save("flush", None))) = Awaiting(saves[p])
  <2>1. Awaiting(Append(saves[p], Save("flush", None)))
          = Awaiting(saves[p]) \cup (IF Save("flush", None).of = "enqueue" THEN {Save("flush", None).m} ELSE {})
    BY <1>2, <1>3, AwaitingProperties
  <2> QED BY <1>3, <2>1
<1>6. MemoryTyped' /\ WorldTyped'
  BY <1>1, <1>2, <1>4 DEF TypeInv, MemoryTyped, WorldTyped, net, history
<1>7. /\ Apart(p) /\ saves'[p] = Append(saves[p], Save("flush", None)) /\ stage'[p] = "saving"
  BY <1>1 DEF Apart, TypeInv, MemoryTyped
<1>8. Coupled(p)'
  <2>1. FlushSaves(saves[p]) = {} /\ OneFlush(saves[p], stage[p])
    BY <1>1, <1>2 DEF Coupled, OneFlush
  <2>2. OneFlush(saves'[p], stage'[p])
    BY <1>2, <1>3, <1>7, <2>1, OneFlushOfAppend
  <2> QED BY <1>1, <1>2, <1>4, <1>7, <2>2 DEF Coupled
<1>9. Quiet(p)
  BY <1>1, <1>2, <1>4, <1>5, <1>7 DEF Quiet, Alike, Hand, net, history
<1> QED BY <1>6, <1>7, <1>8, <1>9, ApartCoupled DEF TypeInv

\* RecordFails: the same, or the process leaves.
LEMMA RecordFailsTyped ==
  ASSUME TypeInv, NEW p \in Process, RecordFails(p)
  PROVE  /\ TypeInv' /\ Apart(p) /\ up[p]
         /\ (~up'[p] /\ Awaiting(saves'[p]) = {}) \/ Quiet(p)
         /\ UNCHANGED <<file, wire, log, issued, accepted, abandoned>>
<1>1. /\ stage[p] = "recording" /\ trouble' = trouble \cup {"write"} /\ up[p]
      /\ UNCHANGED <<file, deadFile, net, issued, accepted, abandoned, starts, plan>>
  BY InHand DEF RecordFails, Strikes
<1>2. WorldTyped' /\ UNCHANGED <<file, wire, log, issued, accepted, abandoned>>
  BY <1>1 DEF TypeInv, WorldTyped, net, Trouble
<1>3. CASE Forget(p)
  <2>1. MemoryTyped' /\ AllCoupled' /\ Apart(p) /\ ~up'[p] /\ saves'[p] = <<>>
    BY <1>3, ForgetTyped DEF AllCoupled
  <2>2. Awaiting(<<>>) = {}
    BY DEF Awaiting
  <2> QED BY <1>1, <1>2, <1>3, <2>1, <2>2 DEF TypeInv, AllCoupled
<1>4. CASE /\ given' = [given EXCEPT ![p] = {}]
           /\ stage' = [stage EXCEPT ![p] = "idle"]
           /\ wanted' = [wanted EXCEPT ![p] = {}]
           /\ UNCHANGED <<up, closed, queue, reason, batch, kept, changed, snapshots, timer, saves, writing>>
  <2>1. MemoryTyped'
    BY <1>4 DEF TypeInv, MemoryTyped
  <2>2. Apart(p) /\ stage'[p] = "idle"
    BY <1>4 DEF Apart, TypeInv, MemoryTyped
  <2>3. Coupled(p)'
    BY <1>1, <1>4, <2>2 DEF TypeInv, Coupled, OneFlush
  <2>4. Quiet(p)
    BY <1>1, <1>2, <1>4, <2>2 DEF Quiet, Alike, Hand
  <2> QED BY <1>1, <1>2, <2>1, <2>2, <2>3, <2>4, ApartCoupled DEF TypeInv
<1> QED BY <1>3, <1>4 DEF RecordFails

\* Connect, Drain and Close only call flushes.
LEMMA QuietSteps ==
  ASSUME TypeInv, NEW p \in Process, Connect(p) \/ Drain(p) \/ Close(p)
  PROVE  TypeInv' /\ Quiet(p)
<1>1. /\ up[p] /\ UNCHANGED <<up, queue, flush, disk, net, history>>
      /\ closed' \in [Process -> BOOLEAN] /\ timer' \in [Process -> BOOLEAN]
      /\ wanted' \in [Process -> SUBSET {"soft", "flush", "close"}]
  <2>1. /\ closed \in [Process -> BOOLEAN] /\ timer \in [Process -> BOOLEAN]
        /\ wanted \in [Process -> SUBSET {"soft", "flush", "close"}]
    BY DEF TypeInv, MemoryTyped
  <2>2. CASE Connect(p)
    BY <2>1, <2>2 DEF Connect
  <2>3. CASE Drain(p)
    BY <2>1, <2>3 DEF Drain
  <2>4. CASE Close(p)
    BY <2>1, <2>4 DEF Close
  <2> QED BY <2>2, <2>3, <2>4
<1>2. MemoryTyped' /\ WorldTyped'
  BY <1>1 DEF TypeInv, MemoryTyped, WorldTyped, flush, disk, net, history
<1>3. Apart(p) /\ UNCHANGED <<queue, batch, kept, stage, saves, writing>>
  BY <1>1 DEF Apart, flush, disk
<1>4. Coupled(p)'
  BY <1>1, <1>3 DEF TypeInv, Coupled
<1>5. Quiet(p)
  BY <1>1, <1>3 DEF Quiet, Alike, Hand, flush, disk, net, history
<1> QED BY <1>2, <1>3, <1>4, <1>5, ApartCoupled DEF TypeInv

\* An entry whose time has come is an entry of the same mutation.
LEMMA DueIsEntry ==
  ASSUME NEW e \in Entry
  PROVE  LET f == [m |-> e.m, attempts |-> e.attempts, waiting |-> FALSE] IN
         [e EXCEPT !.waiting = FALSE] = f /\ f \in Entry /\ f.m = e.m
<1> DEFINE f == [m |-> e.m, attempts |-> e.attempts, waiting |-> FALSE]
           r == [e EXCEPT !.waiting = FALSE]
<1>1. e.attempts \in 0..MaxAttempts /\ e.m \in Mutation
  BY DEF Entry
<1>2. r = [e EXCEPT !.waiting = FALSE]
  OBVIOUS
<1> HIDE DEF r
<1>3. r = f
  BY <1>2 DEF Entry
<1> QED BY <1>1, <1>3 DEF Entry, r

\* BackoffEnds changes a time only.
LEMMA BackoffEndsTyped ==
  ASSUME TypeInv, NEW p \in Process, BackoffEnds(p)
  PROVE  TypeInv' /\ Quiet(p)
<1>1. PICK i \in DOMAIN queue[p] :
        /\ queue' = [queue EXCEPT ![p][i].waiting = FALSE]
        /\ UNCHANGED <<up, closed, flush, wanted, timer, disk, net, history>>
  BY DEF BackoffEnds
<1> DEFINE s == queue[p]
           t == queue'[p]
           e == s[i]
           f == [m |-> e.m, attempts |-> e.attempts, waiting |-> FALSE]
<1>2. s \in Seq(Entry) /\ e \in Entry /\ i \in DOMAIN s /\ s # <<>>
  BY <1>1, InHand, FactsAreMutations
<1>3. [e EXCEPT !.waiting = FALSE] = f /\ f \in Entry /\ f.m = e.m
  BY <1>2, DueIsEntry
<1>4. queue' = [queue EXCEPT ![p] = [s EXCEPT ![i] = [e EXCEPT !.waiting = FALSE]]]
  BY <1>1
<1>5. t = [s EXCEPT ![i] = f] /\ \A r \in Process \ {p} : queue'[r] = queue[r]
  BY <1>3, <1>4 DEF TypeInv, MemoryTyped
<1>6. t \in Seq(Entry) /\ Alike(t, s)
  <2> HIDE DEF t, s, e, f
  <2>1. t \in Seq(Entry) /\ Len(t) = Len(s)
    BY <1>2, <1>3, <1>5, ExceptSeq
  <2>2. \A j \in DOMAIN s : t[j] = IF j = i THEN f ELSE s[j]
    BY <1>2, <1>5
  <2>3. \A j \in DOMAIN s : t[j].m = s[j].m
    BY <1>3, <2>2 DEF e
  <2> QED BY <2>1, <2>3 DEF Alike
<1>7. queue' \in [Process -> Seq(Entry)]
  BY <1>3, <1>4, <1>5, <1>6 DEF TypeInv, MemoryTyped
<1>8. MemoryTyped' /\ WorldTyped'
  BY <1>1, <1>7 DEF TypeInv, MemoryTyped, WorldTyped, flush, disk, net, history
<1>9. Apart(p) /\ UNCHANGED <<up, batch, kept, stage, saves, writing>>
  BY <1>1, <1>5 DEF Apart, flush, disk
<1>10. up[p]
  BY <1>2 DEF TypeInv, Coupled
<1>11. Coupled(p)'
  BY <1>9, <1>10 DEF TypeInv, Coupled
<1>12. Quiet(p)
  BY <1>1, <1>6, <1>9, <1>10 DEF Quiet, Hand, disk, net, history
<1> QED BY <1>8, <1>9, <1>11, <1>12, ApartCoupled DEF TypeInv

\* Send: the item is on the wire.
LEMMA SendTyped ==
  ASSUME TypeInv, NEW p \in Process, Send(p)
  PROVE  /\ TypeInv' /\ up[p] /\ Apart(p) /\ stage[p] = "sending"
         /\ UNCHANGED <<up, queue, batch, kept, saves, writing, file, log, issued, accepted, abandoned>>
         /\ wire' = wire \cup {This(p).m}
<1>1. /\ stage[p] = "sending" /\ ~NotDue(p) /\ ~OverLimit(p)
      /\ stage' = [stage EXCEPT ![p] = "awaiting"]
      /\ snapshots' = [snapshots EXCEPT ![p] =
           IF reason[p] = "soft" /\ This(p).m.kind = "snapshot" THEN @ + 1 ELSE @]
      /\ wire' = wire \cup {This(p).m}
      /\ UNCHANGED <<queue, batch, kept, given, changed, timer, saves, log, abandoned, trouble>>
      /\ Same(p)
  BY DEF Send, Sending
<1>2. up[p] /\ This(p).m \in Mutation /\ Coupled(p)
  BY <1>1, InHand DEF TypeInv
<1>3. snapshots' \in [Process -> 0..SnapshotLimit]
  <2>1. snapshots[p] \in 0..SnapshotLimit /\ SnapshotLimit \in Nat
    BY BoundsAreNatural DEF TypeInv, MemoryTyped
  <2>2. reason[p] = "soft" /\ This(p).m.kind = "snapshot" => snapshots[p] + 1 \in 0..SnapshotLimit
    BY <1>1, <2>1 DEF OverLimit
  <2> QED BY <1>1, <2>2 DEF TypeInv, MemoryTyped
<1>4. MemoryTyped'
  BY <1>1, <1>3 DEF TypeInv, MemoryTyped, Same
<1>5. WorldTyped'
  BY <1>1, <1>2 DEF TypeInv, WorldTyped, Same
<1>6. Apart(p) /\ stage'[p] = "awaiting"
  BY <1>1 DEF Apart, Same, TypeInv, MemoryTyped
<1>7. Coupled(p)'
  BY <1>1, <1>2, <1>6 DEF Coupled, OneFlush, Same
<1> QED BY <1>1, <1>2, <1>4, <1>5, <1>6, <1>7, ApartCoupled DEF TypeInv, Same

\* Arrive: the log takes the mutation once.
LEMMA ArriveTyped ==
  ASSUME TypeInv, NEW m \in wire, Arrive(m)
  PROVE  TypeInv'
<1>1. m \in Mutation
  BY DEF TypeInv, WorldTyped
<1>2. WorldTyped'
  BY <1>1, AppendProperties DEF Arrive, TypeInv, WorldTyped, history, disk
<1>3. MemoryTyped' /\ UNCHANGED <<up, queue, batch, kept, stage, saves, writing>>
  BY DEF Arrive, TypeInv, MemoryTyped, flush, disk
<1>4. AllCoupled'
  BY <1>3 DEF TypeInv, AllCoupled, Coupled
<1> QED BY <1>2, <1>3, <1>4 DEF TypeInv, AllCoupled

\* RunFlush and TimerFires: the queue, pruned, is in hand.
LEMMA RunFlushTyped ==
  ASSUME TypeInv, NEW p \in Process, RunFlush(p) \/ TimerFires(p)
  PROVE  /\ TypeInv' /\ Turns(p) /\ stage[p] = "idle"
         /\ Ends(p, <<>>, Prune(queue[p])) \/ Goes(p, <<>>, <<>>, Prune(queue[p]))
         /\ UNCHANGED <<file, wire, log, issued, accepted, abandoned>>
<1>0. wanted \in [Process -> SUBSET {"soft", "flush", "close"}]
  BY DEF TypeInv, MemoryTyped
<1>1. PICK r \in {"soft", "flush", "close"} :
        StartFlush(p, r) /\ (wanted' = [wanted EXCEPT ![p] = @ \ {r}] \/ wanted' = wanted)
  <2>1. CASE RunFlush(p)
    <3>1. PICK r \in wanted[p] : StartFlush(p, r) /\ wanted' = [wanted EXCEPT ![p] = @ \ {r}]
      BY <2>1 DEF RunFlush
    <3>2. r \in {"soft", "flush", "close"}
      BY <1>0, <3>1
    <3> QED BY <3>1, <3>2
  <2>2. CASE TimerFires(p)
    BY <2>2 DEF TimerFires
  <2> QED BY <2>1, <2>2
<1>2. wanted' \in [Process -> SUBSET {"soft", "flush", "close"}]
  BY <1>0, <1>1
<1>3. stage[p] = "idle" /\ UNCHANGED <<file, wire, log, issued, accepted, abandoned>>
  BY <1>1 DEF StartFlush, net, history
<1> QED BY <1>1, <1>2, <1>3, StartFlushTurns

\* Every step keeps the types.
LEMMA NextTyped == TypeInv /\ [Next]_vars => TypeInv'
<1> SUFFICES ASSUME TypeInv, [Next]_vars PROVE TypeInv'
  OBVIOUS
<1>1. CASE UNCHANGED vars
  <2>1. MemoryTyped' /\ WorldTyped'
    BY <1>1 DEF vars, flush, disk, net, history, TypeInv, MemoryTyped, WorldTyped
  <2>2. AllCoupled'
    BY <1>1 DEF vars, flush, disk, TypeInv, AllCoupled, Coupled
  <2> QED BY <2>1, <2>2 DEF TypeInv, AllCoupled
<1>2. ASSUME NEW m \in wire, Arrive(m) PROVE TypeInv'
  BY <1>2, ArriveTyped
<1>3. ASSUME NEW p \in Process,
             \/ Start(p) \/ Crash(p) \/ BeginWrite(p) \/ EndWrite(p) \/ FailWrite(p)
             \/ \E m \in plan : Enqueue(p, m)
      PROVE TypeInv'
  BY <1>3, StartTyped, CrashTyped, BeginWriteTyped, EndWriteTyped, FailWriteTyped, EnqueueTyped
<1>4. ASSUME NEW p \in Process,
             \/ RunFlush(p) \/ TimerFires(p) \/ BackoffEnds(p) \/ Connect(p) \/ Drain(p) \/ Close(p)
             \/ Record(p) \/ RecordFails(p)
      PROVE TypeInv'
  BY <1>4, RunFlushTyped, BackoffEndsTyped, QuietSteps, RecordTyped, RecordFailsTyped
<1>5. ASSUME NEW p \in Process,
             \/ PassOver(p) \/ HoldUp(p) \/ Defer(p) \/ Send(p) \/ Ack(p) \/ AuthFails(p) \/ Fail(p) \/ GiveUp(p)
      PROVE TypeInv'
  BY <1>5, PassOverTurns, HoldUpTurns, SendTyped, AckTurns, GiveUpTurns
<1> QED BY <1>1, <1>2, <1>3, <1>4, <1>5 DEF Next

-----------------------------------------------------------------------------
(* The steps are safe. *)
WorldSets == Seen \in SUBSET Mutation /\ Done \in SUBSET Mutation

\* The sent and the done with are mutations,
LEMMA WorldIsOfMutations == TypeInv => WorldSets
BY WorldFacts DEF WorldSets

\* after a step too.
LEMMA WorldIsOfMutationsNext == TypeInv' => WorldSets'
BY WorldIsOfMutations, PTL

\* The process that is up, or was, has what it holds in good order.
LEMMA HeldIsSound ==
  ASSUME TypeInv, SafeInv, NEW p \in Process, up[p]
  PROVE  /\ Sound(queue[p], Hand(p), Promised, Done, Seen)
         /\ Facts(queue[p]) \cup Facts(Hand(p)) \subseteq issued
         /\ Promised \subseteq issued /\ Seen \subseteq issued /\ abandoned \subseteq issued
         /\ Facts(file) \subseteq issued /\ accepted \subseteq Promised
         /\ Written(file, accepted, Done)
         /\ writing[p] # None => /\ Written(writing[p], accepted \cup FirstAwaiting(saves[p]), Done)
                                 /\ Facts(writing[p]) \subseteq issued
         /\ \A m \in Facts(kept[p]) : ~IsTurn(m)
BY DEF SafeInv, MemorySound, MemoryKnown, WorldKnown, Promised

\* A flush goes on, or is over; it gave up the mutations gone.
FlushStep(p) ==
  /\ Turns(p)
  /\ UNCHANGED <<file, log, issued, accepted>> /\ wire' \subseteq wire
  /\ abandoned \subseteq abandoned' /\ abandoned' \subseteq issued

\* Such a step is safe when what the process then holds is sound.
LEMMA FlushStepSafe ==
  ASSUME TypeInv, TypeInv', SafeInv, NEW p \in Process, FlushStep(p),
         Sound(queue'[p], Hand(p)', Promised, Done', Seen),
         Facts(queue'[p]) \cup Facts(Hand(p)') \subseteq issued,
         \A m \in Facts(kept'[p]) : ~IsTurn(m)
  PROVE  SafeInv'
<1>1. up[p] /\ Apart(p) /\ UNCHANGED <<up, writing, file, log, issued, accepted>>
  BY DEF FlushStep, Turns
<1>2. abandoned \subseteq abandoned' /\ abandoned' \subseteq issued /\ Seen' \subseteq Seen /\ Done \subseteq Done'
  BY <1>1 DEF FlushStep, Seen, Done
<1>3. writing[p] # None => saves[p] # <<>>
  BY DEF TypeInv, Coupled
<1>4. Awaiting(saves'[p]) = Awaiting(saves[p]) /\ (writing[p] # None => FirstAwaiting(saves'[p]) = FirstAwaiting(saves[p]))
  BY <1>3 DEF FlushStep, Turns
<1>5. accepted' \subseteq Promised /\ Facts(file') \subseteq issued
  BY <1>1, HeldIsSound
<1>6. Written(file, accepted, Done)'
  BY <1>1, <1>2, HeldIsSound, WrittenWeakens
<1>7. writing'[p] # None => Written(writing'[p], accepted' \cup FirstAwaiting(saves'[p]), Done')
  <2> SUFFICES ASSUME writing'[p] # None PROVE Written(writing'[p], accepted' \cup FirstAwaiting(saves'[p]), Done')
    OBVIOUS
  <2>1. /\ writing'[p] = writing[p] /\ accepted' \cup FirstAwaiting(saves'[p]) = accepted \cup FirstAwaiting(saves[p])
        /\ writing[p] # None
    BY <1>1, <1>4
  <2>2. Written(writing[p], accepted \cup FirstAwaiting(saves[p]), Done)
    BY <1>1, <2>1, HeldIsSound
  <2> QED BY <1>2, <2>1, <2>2, WrittenWeakens
<1>8. MemoryKnown(p)'
  BY <1>1, HeldIsSound DEF MemoryKnown
<1>9. Sound(queue'[p], Hand(p)', Promised, Done', Seen')
  BY <1>2, SoundWeakens
<1> QED BY <1>1, <1>2, <1>4, <1>5, <1>6, <1>7, <1>8, <1>9, SafeMoves

\* It is when the flush ends and puts back all that is not done with,
LEMMA EndsSafe ==
  ASSUME TypeInv, TypeInv', SafeInv, NEW p \in Process, FlushStep(p), NEW q \in Seq(Entry), NEW h \in Seq(Entry),
         Ends(p, q, h), Sound(q, h, Promised, Done', Seen), Facts(q) \cup Facts(h) \subseteq issued
  PROVE  SafeInv'
<1>1. Promised \in SUBSET Mutation /\ Done' \in SUBSET Mutation
  BY WorldFacts, WorldIsOfMutationsNext DEF WorldSets
<1>2. /\ queue'[p] = Merge(h, q) /\ Hand(p)' = <<>> /\ kept'[p] = <<>>
  BY ListFacts, ConcatEmptySeq DEF Ends, Hand
<1>3. Sound(Merge(h, q), <<>>, Promised, Done', Seen) /\ Facts(Merge(h, q)) \subseteq issued /\ Facts(<<>>) = {}
  <2>1. Sound(Merge(h, q), <<>>, Promised, Done', Seen)
    BY <1>1, FlushEnds
  <2>2. Facts(Merge(h, q)) \subseteq issued
    BY MergeFacts
  <2>3. Facts(<<>>) = {}
    BY DEF Facts, Items
  <2> QED BY <2>1, <2>2, <2>3
<1> QED BY <1>2, <1>3, FlushStepSafe

\* and when it goes on with all that is not done with.
LEMMA GoesSafe ==
  ASSUME TypeInv, TypeInv', SafeInv, NEW p \in Process, FlushStep(p), NEW q \in Seq(Entry),
         NEW k \in Seq(Entry), NEW b \in Seq(Entry),
         Goes(p, q, k, b), Sound(q, k \o b, Promised, Done', Seen), Facts(q) \cup Facts(k \o b) \subseteq issued,
         \A m \in Facts(k) : ~IsTurn(m)
  PROVE  SafeInv'
<1>1. queue'[p] = q /\ Hand(p)' = k \o b /\ kept'[p] = k
  BY DEF Goes, Hand
<1> QED BY <1>1, FlushStepSafe

\* A flush starts: nothing leaves the queue but superseded ends.
LEMMA RunFlushSafe ==
  ASSUME TypeInv, SafeInv, NEW p \in Process, RunFlush(p) \/ TimerFires(p)
  PROVE  SafeInv'
<1> DEFINE b == Prune(queue[p])
<1>1. /\ TypeInv' /\ Turns(p) /\ stage[p] = "idle"
      /\ Ends(p, <<>>, b) \/ Goes(p, <<>>, <<>>, b)
      /\ UNCHANGED <<file, wire, log, issued, accepted, abandoned>> /\ up[p]
  BY RunFlushTyped DEF Turns
<1>2. /\ queue[p] \in Seq(Entry) /\ b \in Seq(Entry) /\ Facts(b) \subseteq Facts(queue[p])
      /\ Facts(<<>>) = {} /\ <<>> \o b = b /\ Hand(p) = <<>>
  <2>1. queue[p] \in Seq(Entry) /\ batch[p] = <<>> /\ kept[p] = <<>>
    BY <1>1, InHand
  <2>2. b \in Seq(Entry) /\ Within(b, queue[p])
    BY <2>1, PruneProperties
  <2>3. Facts(b) \subseteq Facts(queue[p])
    BY <2>1, <2>2, WithinKeeps
  <2>4. Hand(p) = <<>>
    BY <2>1, ListFacts, ConcatEmptySeq DEF Hand
  <2>5. <<>> \o b = b
    BY <2>2, ConcatEmptySeq
  <2>6. Facts(<<>>) = {}
    BY DEF Facts, Items
  <2> QED BY <2>1, <2>2, <2>3, <2>4, <2>5, <2>6
<1> HIDE DEF b
<1>3. FlushStep(p) /\ Done' = Done
  BY <1>1, HeldIsSound DEF FlushStep, Done
<1>4. Sound(<<>>, b, Promised, Done, Seen)
  BY <1>1, <1>2, HeldIsSound, FlushStarts, WorldFacts DEF b
<1>5. Facts(<<>>) \cup Facts(b) \subseteq issued
  BY <1>1, <1>2, HeldIsSound
<1>6. CASE Ends(p, <<>>, b)
  BY <1>1, <1>2, <1>3, <1>4, <1>5, <1>6, ListFacts, EndsSafe
<1>7. CASE Goes(p, <<>>, <<>>, b)
  BY <1>1, <1>2, <1>3, <1>4, <1>5, <1>7, ListFacts, GoesSafe
<1> QED BY <1>1, <1>6, <1>7

\* A snapshot is passed over or deferred: the flush keeps it.
LEMMA PassOverSafe ==
  ASSUME TypeInv, SafeInv, NEW p \in Process, PassOver(p) \/ Defer(p)
  PROVE  SafeInv'
<1>1. /\ TypeInv' /\ Turns(p) /\ stage[p] = "sending" /\ This(p).m.kind = "snapshot" /\ up[p]
  BY PassOverTurns DEF Turns
<1>2. PICK e \in Entry :
        /\ e.m = This(p).m
        /\ \/ Ends(p, queue[p], Append(kept[p], e) \o Tail(batch[p]))
           \/ Goes(p, queue[p], Append(kept[p], e), Tail(batch[p]))
  BY PassOverTurns
<1> DEFINE k == Append(kept[p], e)
           b == Tail(batch[p])
           q == queue[p]
<1>3. UNCHANGED <<file, wire, log, issued, accepted, abandoned>>
  BY DEF PassOver, Defer, Same, net
<1>4. FlushStep(p) /\ Done' = Done
  BY <1>1, <1>3, HeldIsSound DEF FlushStep, Done
<1>5. /\ q \in Seq(Entry) /\ k \in Seq(Entry) /\ b \in Seq(Entry) /\ k \o b \in Seq(Entry)
      /\ Alike(k \o b, Hand(p)) /\ Hand(p) \in Seq(Entry) /\ Facts(k) = Facts(kept[p]) \cup {This(p).m}
  <2>1. /\ q \in Seq(Entry) /\ kept[p] \in Seq(Entry) /\ batch[p] \in Seq(Entry) /\ batch[p] # <<>>
        /\ Head(batch[p]) = This(p)
    BY <1>1, InHand DEF This
  <2>2. /\ k \in Seq(Entry) /\ b \in Seq(Entry) /\ k \o b \in Seq(Entry) /\ Alike(k \o b, Hand(p))
    BY <1>2, <2>1, KeptOn DEF Hand
  <2>3. k = kept[p] \o <<e>> /\ <<e>> \in Seq(Entry)
    BY <2>1, AppendIsConcat
  <2>4. Facts(<<e>>) = {e.m}
    BY DEF Facts, Items
  <2>5. Facts(k) = Facts(kept[p]) \cup {This(p).m}
    <3>1. Facts(kept[p] \o <<e>>) = Facts(kept[p]) \cup Facts(<<e>>)
      BY <2>1, <2>3, ConcatFacts
    <3> HIDE DEF k
    <3> QED BY <1>2, <2>3, <2>4, <3>1
  <2> QED BY <2>1, <2>2, <2>5, WorldFacts
<1> HIDE DEF k, b, q
<1>6. Within(k \o b, Hand(p)) /\ Facts(k \o b) = Facts(Hand(p))
  BY <1>5, AlikeIsWithin
<1>7. Sound(q, k \o b, Promised, Done', Seen) /\ Facts(q) \cup Facts(k \o b) \subseteq issued
  <2>1. Sound(q, Hand(p), Promised, Done, Seen) /\ Facts(q) \cup Facts(Hand(p)) \subseteq issued
    BY <1>1, HeldIsSound DEF q
  <2>2. Facts(Hand(p)) \subseteq Facts(k \o b) \cup Done
    BY <1>6
  <2>3. Sound(q, k \o b, Promised, Done, Seen)
    BY <1>5, <1>6, <2>1, <2>2, HandShrinks
  <2> QED BY <1>4, <1>6, <2>1, <2>3
<1>8. \A m \in Facts(k) : ~IsTurn(m)
  BY <1>1, <1>5, HeldIsSound DEF IsTurn
<1>9. CASE Ends(p, q, k \o b)
  BY <1>1, <1>4, <1>5, <1>7, <1>9, EndsSafe
<1>10. CASE Goes(p, q, k, b)
  BY <1>1, <1>4, <1>5, <1>7, <1>8, <1>10, GoesSafe
<1> QED BY <1>2, <1>9, <1>10 DEF k, b, q

\* An item holds up the flush: it goes back with all that follows it.
LEMMA HoldUpSafe ==
  ASSUME TypeInv, SafeInv, NEW p \in Process, HoldUp(p) \/ AuthFails(p) \/ Fail(p)
  PROVE  SafeInv'
<1>1. /\ TypeInv' /\ Turns(p) /\ stage[p] \in {"sending", "awaiting"} /\ up[p]
      /\ Same(p) /\ log' = log /\ abandoned' = abandoned /\ wire' \subseteq wire
  BY HoldUpTurns DEF Turns
<1>2. PICK e \in Entry : e.m = This(p).m /\ Ends(p, queue[p], Remaining(p, e))
  BY HoldUpTurns
<1> DEFINE h == Remaining(p, e)
           q == queue[p]
<1>3. FlushStep(p) /\ Done' = Done
  BY <1>1, HeldIsSound DEF FlushStep, Done, Same
<1>4. q \in Seq(Entry) /\ h \in Seq(Entry) /\ Alike(h, Hand(p)) /\ Hand(p) \in Seq(Entry)
  <2>1. /\ q \in Seq(Entry) /\ kept[p] \in Seq(Entry) /\ batch[p] \in Seq(Entry) /\ batch[p] # <<>>
        /\ Head(batch[p]) = This(p)
    BY <1>1, InHand DEF This
  <2>2. h \in Seq(Entry) /\ Alike(h, Hand(p))
    BY <1>2, <2>1, KeptOn DEF Hand, Remaining
  <2> QED BY <2>1, <2>2, WorldFacts
<1> HIDE DEF h, q
<1>5. Within(h, Hand(p)) /\ Facts(h) = Facts(Hand(p))
  BY <1>4, AlikeIsWithin
<1>6. Sound(q, h, Promised, Done', Seen) /\ Facts(q) \cup Facts(h) \subseteq issued
  <2>1. Sound(q, Hand(p), Promised, Done, Seen) /\ Facts(q) \cup Facts(Hand(p)) \subseteq issued
    BY <1>1, HeldIsSound DEF q
  <2>2. Facts(Hand(p)) \subseteq Facts(h) \cup Done
    BY <1>5
  <2>3. Sound(q, h, Promised, Done, Seen)
    BY <1>4, <1>5, <2>1, <2>2, HandShrinks
  <2> QED BY <1>3, <1>5, <2>1, <2>3
<1>7. Ends(p, q, h)
  BY <1>2 DEF q, h
<1> QED BY <1>1, <1>3, <1>4, <1>6, <1>7, EndsSafe

\* The flush is done with its item and n more, which are now done with.
LEMMA DoneSafe ==
  ASSUME TypeInv, TypeInv', SafeInv, NEW p \in Process, FlushStep(p), stage[p] = "awaiting",
         NEW n \in 0..Len(Tail(batch[p])),
         {This(p).m} \cup Facts(SubSeq(Tail(batch[p]), 1, n)) \subseteq Done',
         LET b == SubSeq(Tail(batch[p]), n + 1, Len(Tail(batch[p]))) IN
           Ends(p, queue[p], kept[p] \o b) \/ Goes(p, queue[p], kept[p], b)
  PROVE  SafeInv'
<1> DEFINE b == SubSeq(Tail(batch[p]), n + 1, Len(Tail(batch[p])))
           k == kept[p]
           q == queue[p]
           h == k \o b
<1>1. /\ q \in Seq(Entry) /\ k \in Seq(Entry) /\ batch[p] \in Seq(Entry) /\ batch[p] # <<>>
      /\ Head(batch[p]) = This(p) /\ up[p]
  BY InHand DEF This
<1>2. /\ b \in Seq(Entry) /\ Within(k \o b, Hand(p))
      /\ Facts(batch[p]) \subseteq Facts(b) \cup {This(p).m} \cup Facts(SubSeq(Tail(batch[p]), 1, n))
  BY <1>1, DoneWith DEF Hand
<1>3. Ends(p, q, h) \/ Goes(p, q, k, b)
  OBVIOUS
<1>4. Facts(Hand(p)) = Facts(k) \cup Facts(batch[p]) /\ Hand(p) \in Seq(Entry)
  BY WorldFacts
<1> HIDE DEF b, q
<1>5. h \in Seq(Entry) /\ Facts(h) = Facts(k) \cup Facts(b)
  BY <1>1, <1>2, ConcatFacts
<1>6. Facts(Hand(p)) \subseteq Facts(h) \cup Done' /\ Facts(h) \subseteq Facts(Hand(p)) /\ Done \subseteq Done'
  <2>1. Facts(h) \subseteq Facts(Hand(p))
    BY <1>2, <1>4, <1>5, WithinKeeps
  <2>2. Done \subseteq Done'
    BY DEF FlushStep, Done
  <2> QED BY <1>2, <1>4, <1>5, <2>1, <2>2
<1>7. Sound(q, Hand(p), Promised, Done, Seen) /\ Facts(q) \cup Facts(Hand(p)) \subseteq issued
  BY <1>1, HeldIsSound DEF q
<1>8. Sound(q, h, Promised, Done', Seen)
  <2> HIDE DEF h, k
  <2> QED BY <1>1, <1>2, <1>4, <1>5, <1>6, <1>7, HandShrinks DEF h
<1>9. Facts(q) \cup Facts(h) \subseteq issued
  BY <1>6, <1>7
<1>10. \A m \in Facts(k) : ~IsTurn(m)
  BY <1>1, HeldIsSound
<1> HIDE DEF k
<1>11. CASE Ends(p, q, h)
  <2> HIDE DEF h
  <2> QED BY <1>1, <1>5, <1>8, <1>9, <1>11, EndsSafe
<1>12. CASE Goes(p, q, k, b)
  BY <1>1, <1>2, <1>8, <1>9, <1>10, <1>12, GoesSafe
<1> QED BY <1>3, <1>11, <1>12

\* An item is acknowledged: the server has it.
LEMMA AckSafe ==
  ASSUME TypeInv, SafeInv, NEW p \in Process, Ack(p)
  PROVE  SafeInv'
<1>1. /\ TypeInv' /\ Turns(p) /\ stage[p] = "awaiting" /\ This(p).m \in Items(log) /\ up[p]
      /\ Same(p) /\ UNCHANGED <<net, abandoned>>
      /\ \/ Ends(p, queue[p], kept[p] \o Tail(batch[p]))
         \/ Goes(p, queue[p], kept[p], Tail(batch[p]))
  BY AckTurns DEF Turns
<1>2. FlushStep(p) /\ Done' = Done
  BY <1>1, HeldIsSound DEF FlushStep, Done, Same, net
<1>3. Tail(batch[p]) \in Seq(Entry) /\ 0 \in 0..Len(Tail(batch[p]))
  BY <1>1, InHand
<1>4. SubSeq(Tail(batch[p]), 0 + 1, Len(Tail(batch[p]))) = Tail(batch[p])
  BY <1>3, SubSeqFull
<1>5. Facts(SubSeq(Tail(batch[p]), 1, 0)) = {}
  <2>1. SubSeq(Tail(batch[p]), 1, 0) = <<>>
    BY SubSeqEmpty
  <2> QED BY <2>1 DEF Facts, Items
<1>6. {This(p).m} \cup Facts(SubSeq(Tail(batch[p]), 1, 0)) \subseteq Done'
  BY <1>1, <1>2, <1>5 DEF Done
<1> QED BY <1>1, <1>2, <1>3, <1>4, <1>6, DoneSafe

\* Items are given up: they are abandoned, and only they leave the hand.
LEMMA GiveUpSafe ==
  ASSUME TypeInv, SafeInv, NEW p \in Process, GiveUp(p)
  PROVE  SafeInv'
<1>1. /\ TypeInv' /\ Turns(p) /\ stage[p] = "awaiting" /\ Same(p) /\ log' = log /\ wire' \subseteq wire /\ up[p]
  BY GiveUpTurns DEF Turns
<1>2. PICK n \in 0..Len(Tail(batch[p])) :
        LET rest == Tail(batch[p]) IN
        /\ abandoned' = abandoned \cup {This(p).m} \cup Facts(SubSeq(rest, 1, n))
        /\ \/ Ends(p, queue[p], kept[p] \o SubSeq(rest, n + 1, Len(rest)))
           \/ Goes(p, queue[p], kept[p], SubSeq(rest, n + 1, Len(rest)))
  BY GiveUpTurns
<1>3. {This(p).m} \cup Facts(SubSeq(Tail(batch[p]), 1, n)) \subseteq issued
  <2>1. batch[p] \in Seq(Entry) /\ batch[p] # <<>> /\ kept[p] \in Seq(Entry) /\ This(p).m \in Facts(batch[p])
    BY <1>1, InHand
  <2>2. Facts(batch[p]) \subseteq issued
    BY <1>1, HeldIsSound, WorldFacts
  <2>3. Facts(SubSeq(Tail(batch[p]), 1, n)) \subseteq Facts(batch[p])
    <3> DEFINE rest == Tail(batch[p])
               v == SubSeq(rest, 1, n)
    <3>1. rest \in Seq(Entry) /\ v \in Seq(Entry) /\ n \in Nat /\ n <= Len(rest)
      BY <2>1, DoneWith
    <3>2. Len(v) = n /\ \A i \in 1..n : v[i] = rest[i]
      BY <3>1
    <3>3. \A i \in 1..Len(rest) : rest[i] = batch[p][i + 1] /\ i + 1 \in DOMAIN batch[p]
      BY <2>1
    <3> HIDE DEF rest, v
    <3>4. \A i \in DOMAIN v : \E j \in DOMAIN batch[p] : v[i] = batch[p][j]
      <4>1. DOMAIN v = 1..n /\ \A i \in 1..n : i \in 1..Len(rest)
        BY <3>1, <3>2
      <4> QED BY <3>2, <3>3, <4>1
    <3>5. \A i \in DOMAIN v : v[i].m \in Facts(batch[p])
      BY <2>1, <3>4, FactsAreMutations
    <3>6. Facts(v) = {v[i].m : i \in DOMAIN v}
      BY <3>1, FactsAreMutations
    <3>7. Facts(v) \subseteq Facts(batch[p])
      BY <3>5, <3>6
    <3> QED BY <3>7 DEF v, rest
  <2> QED BY <2>1, <2>2, <2>3
<1>4. FlushStep(p)
  BY <1>1, <1>2, <1>3, HeldIsSound DEF FlushStep, Same
<1>5. {This(p).m} \cup Facts(SubSeq(Tail(batch[p]), 1, n)) \subseteq Done'
  BY <1>2 DEF Done
<1> QED BY <1>1, <1>2, <1>4, <1>5, DoneSafe

\* While process p is up the others hold nothing, before its step and after.
LEMMA OthersAreDown ==
  ASSUME TypeInv, TypeInv', NEW p \in Process, Apart(p),
         (SafeInv /\ up[p]) \/ (OneUp' /\ up'[p])
  PROVE  \A q \in Process \ {p} :
           /\ ~up[q] /\ ~up'[q] /\ Awaiting(saves[q]) = {} /\ Awaiting(saves'[q]) = {}
           /\ MemoryKnown(q)' /\ MemorySound(q)'
<1>1. \A q \in Process \ {p} : ~up[q] /\ ~up'[q]
  BY DEF SafeInv, OneUp, Apart
<1>2. DownSound /\ DownSound'
  BY DownIsSound, DownIsSoundNext
<1> QED BY <1>1, <1>2 DEF DownSound

\* The outbox loads the file.
LEMMA StartSafe ==
  ASSUME TypeInv, SafeInv, OneUp', NEW p \in Process, Start(p)
  PROVE  SafeInv'
<1>1. /\ TypeInv' /\ Apart(p) /\ ~up[p] /\ up'[p] /\ queue'[p] = Prune(file)
      /\ UNCHANGED <<batch, kept, saves, writing, file, wire, log, issued, accepted, abandoned>>
  BY StartTyped
<1>2. \A q \in Process \ {p} :
        /\ ~up[q] /\ ~up'[q] /\ Awaiting(saves[q]) = {} /\ Awaiting(saves'[q]) = {}
        /\ MemoryKnown(q)' /\ MemorySound(q)'
  BY <1>1, OthersAreDown
<1>3. batch[p] = <<>> /\ kept[p] = <<>> /\ saves[p] = <<>> /\ writing[p] = None
  BY <1>1 DEF TypeInv, Coupled
<1>4. Awaiting(<<>>) = {} /\ Facts(<<>>) = {} /\ <<>> \o <<>> = <<>>
  BY DEF Awaiting, Facts, Items
<1>5. Promised = accepted /\ Promised' = accepted
  BY <1>1, <1>2, <1>3, <1>4 DEF Promised
<1>6. Seen' = Seen /\ Done' = Done
  BY <1>1 DEF Seen, Done
<1>7. Sound(Prune(file), <<>>, accepted, Done, Seen) /\ Facts(Prune(file)) \subseteq Facts(file)
  <2>1. file \in Seq(Entry) /\ accepted \in SUBSET Mutation /\ Done \in SUBSET Mutation
    BY WorldFacts DEF TypeInv, WorldTyped
  <2> QED BY <2>1, LoadKeeps DEF SafeInv
<1>8. Hand(p)' = <<>>
  BY <1>1, <1>3, <1>4 DEF Hand
<1>9. MemorySound(p)'
  BY <1>1, <1>3, <1>4, <1>5, <1>6, <1>7, <1>8 DEF MemorySound
<1>10. MemoryKnown(p)'
  BY <1>1, <1>3, <1>4, <1>7, <1>8 DEF MemoryKnown, SafeInv, WorldKnown
<1>11. WorldKnown' /\ Written(file, accepted, Done)' /\ Ordered' /\ LogInTurn'
  BY <1>1, <1>5, <1>6 DEF SafeInv, WorldKnown, Ordered, LogInTurn
<1> QED BY <1>2, <1>9, <1>10, <1>11 DEF SafeInv

\* A new mutation, later than all others, joins the queue.
LEMMA EnqueueSafe ==
  ASSUME TypeInv, SafeInv, NEW p \in Process, NEW m \in plan, Enqueue(p, m)
  PROVE  SafeInv'
<1>1. /\ TypeInv' /\ m \in Mutation /\ Apart(p) /\ up[p] /\ issued' = issued \cup {m}
      /\ queue'[p] = Prune(Merge(queue[p], <<Fresh(m)>>))
      /\ saves'[p] = Append(saves[p], Save("enqueue", m))
      /\ \A n \in issued : n.at < m.at
      /\ UNCHANGED <<up, batch, kept, writing, file, wire, log, accepted, abandoned>>
  BY EnqueueTyped
<1>2. \A q \in Process \ {p} :
        /\ ~up[q] /\ ~up'[q] /\ Awaiting(saves[q]) = {} /\ Awaiting(saves'[q]) = {}
        /\ MemoryKnown(q)' /\ MemorySound(q)'
  BY <1>1, OthersAreDown
<1>3. /\ Awaiting(saves'[p]) = Awaiting(saves[p]) \cup {m}
      /\ saves[p] # <<>> => FirstAwaiting(saves'[p]) = FirstAwaiting(saves[p])
  <2>1. saves[p] \in Seq(Request) /\ Save("enqueue", m) \in Request
        /\ Save("enqueue", m).of = "enqueue" /\ Save("enqueue", m).m = m
    BY <1>1, InHand, SaveIsRequest
  <2> QED BY <1>1, <2>1, AwaitingProperties
<1>4. Promised' = Promised \cup {m}
  <2>1. UNION {Awaiting(saves[q]) : q \in Process} = Awaiting(saves[p])
    BY <1>2
  <2>2. UNION {Awaiting(saves'[q]) : q \in Process} = Awaiting(saves'[p])
    BY <1>2
  <2> QED BY <1>1, <1>3, <2>1, <2>2 DEF Promised
<1>5. Seen' = Seen /\ Done' = Done /\ Hand(p)' = Hand(p)
  BY <1>1 DEF Seen, Done, Hand
<1>6. /\ Sound(queue'[p], Hand(p), Promised \cup {m}, Done, Seen)
      /\ Facts(queue'[p]) \subseteq Facts(queue[p]) \cup {m}
  <2> DEFINE e == Fresh(m)
             r == Prune(Merge(queue[p], <<e>>))
  <2>1. e \in Entry /\ e.m = m
    BY <1>1, FreshIsEntry
  <2>2. /\ queue[p] \in Seq(Entry) /\ Hand(p) \in Seq(Entry) /\ Promised \in SUBSET Mutation
        /\ Done \in SUBSET Mutation /\ issued \in SUBSET Mutation
    BY WorldFacts DEF TypeInv, WorldTyped
  <2>3. /\ Sound(queue[p], Hand(p), Promised, Done, Seen)
        /\ Facts(queue[p]) \cup Facts(Hand(p)) \cup Promised \cup Seen \subseteq issued
    BY <1>1, HeldIsSound
  <2> HIDE DEF e
  <2>4. \A n \in issued : n.at < e.m.at
    BY <1>1, <2>1
  <2>5. Sound(r, Hand(p), Promised \cup {e.m}, Done, Seen) /\ Facts(r) \subseteq Facts(queue[p]) \cup {e.m}
    BY <2>1, <2>2, <2>3, <2>4, EnqueueKeeps
  <2> QED BY <1>1, <2>1, <2>5 DEF e
<1>7. MemorySound(p)'
  <2>1. writing[p] # None => saves[p] # <<>>
    BY DEF TypeInv, Coupled
  <2>2. writing'[p] # None => Written(writing'[p], accepted' \cup FirstAwaiting(saves'[p]), Done')
    BY <1>1, <1>3, <1>5, <2>1, HeldIsSound
  <2>3. \A n \in Facts(kept'[p]) : ~IsTurn(n)
    BY <1>1, HeldIsSound
  <2> QED BY <1>4, <1>5, <1>6, <2>2, <2>3 DEF MemorySound
<1>8. MemoryKnown(p)'
  BY <1>1, <1>5, <1>6 DEF MemoryKnown, SafeInv
<1>9. \A s \in Seen : s # m /\ ~(m.at < s.at)
  <2> SUFFICES ASSUME NEW s \in Seen PROVE s # m /\ ~(m.at < s.at)
    OBVIOUS
  <2>1. s \in issued /\ s \in Mutation
    BY <1>1, HeldIsSound, WorldFacts
  <2>2. s.at < m.at /\ s.at \in Nat /\ m.at \in Nat
    BY <1>1, <2>1, TimesDistinguish
  <2> QED BY <2>2
<1>10. Ordered'
  BY <1>4, <1>5, <1>9 DEF SafeInv, Ordered, Follows
<1>11. LogInTurn'
  <2>1. \A j \in DOMAIN log : log[j] \in Seen
    BY DEF Seen, Items
  <2> QED BY <1>1, <1>4, <1>9, <2>1 DEF SafeInv, LogInTurn
<1>12. WorldKnown' /\ OneUp' /\ Written(file, accepted, Done)'
  BY <1>1, <1>4, <1>5 DEF SafeInv, WorldKnown, OneUp
<1> QED BY <1>2, <1>7, <1>8, <1>10, <1>11, <1>12 DEF SafeInv

\* The memory of the process is gone.
LEMMA GoneSafe ==
  ASSUME TypeInv, TypeInv', SafeInv, NEW p \in Process, up[p], Apart(p), ~up'[p], Awaiting(saves'[p]) = {},
         UNCHANGED <<wire, log, issued, abandoned>>, accepted' \subseteq Promised,
         Written(file, accepted, Done)', Facts(file') \subseteq issued
  PROVE  SafeInv'
<1>1. MemoryKnown(p)' /\ MemorySound(p)'
  BY DownIsSoundNext DEF DownSound
<1>2. Seen' = Seen /\ abandoned' \subseteq issued
  BY HeldIsSound DEF Seen
<1>3. \A m \in Facts(kept'[p]) : ~IsTurn(m)
  BY <1>1 DEF MemorySound
<1>4. writing'[p] # None => Written(writing'[p], accepted' \cup FirstAwaiting(saves'[p]), Done')
  BY <1>1 DEF MemorySound
<1> QED BY <1>1, <1>2, <1>3, <1>4, SafeMoves

\* A write has ended, or failed, and the process goes on.
LEMMA ResumesSafe ==
  ASSUME TypeInv, TypeInv', SafeInv, NEW p \in Process, up[p], Apart(p), Resumes(p),
         UNCHANGED <<wire, log, issued, abandoned>>, accepted' \subseteq Promised,
         Written(file, accepted, Done)', Facts(file') \subseteq issued
  PROVE  SafeInv'
<1>1. Seen' = Seen /\ Done' = Done /\ abandoned' \subseteq issued /\ Hand(p)' = Hand(p)
  BY HeldIsSound DEF Seen, Done, Hand, Resumes
<1>2. Sound(queue'[p], Hand(p)', Promised, Done', Seen')
  BY <1>1, HeldIsSound DEF Resumes
<1>3. MemoryKnown(p)'
  BY <1>1, HeldIsSound DEF Resumes, MemoryKnown
<1>4. \A m \in Facts(kept'[p]) : ~IsTurn(m)
  BY HeldIsSound DEF Resumes
<1>5. writing'[p] = None /\ Awaiting(saves'[p]) \subseteq Awaiting(saves[p])
  BY DEF Resumes
<1> QED BY <1>1, <1>2, <1>3, <1>4, <1>5, SafeMoves

\* A crash loses what was not promised, or is done with, or is in the file.
LEMMA CrashSafe ==
  ASSUME TypeInv, SafeInv, NEW p \in Process, Crash(p)
  PROVE  SafeInv'
<1>1. /\ TypeInv' /\ up[p] /\ Apart(p) /\ ~up'[p]
      /\ UNCHANGED <<file, wire, log, issued, accepted, abandoned>>
  BY CrashTyped
<1>2. Awaiting(saves'[p]) = {}
  BY <1>1, DownIsSoundNext DEF DownSound
<1>3. Done' = Done /\ accepted' \subseteq Promised /\ Written(file, accepted, Done)' /\ Facts(file') \subseteq issued
  <2>1. Done' = Done
    BY <1>1 DEF Done
  <2> QED BY <1>1, <2>1, HeldIsSound
<1> QED BY <1>1, <1>2, <1>3, GoneSafe

\* What is written covers all that is promised.
LEMMA BeginWriteSafe ==
  ASSUME TypeInv, SafeInv, NEW p \in Process, BeginWrite(p)
  PROVE  SafeInv'
<1>1. /\ TypeInv' /\ Apart(p) /\ up[p] /\ writing'[p] = Content(p)
      /\ UNCHANGED <<up, queue, batch, kept, saves, file, wire, log, issued, accepted, abandoned>>
  BY BeginWriteTyped
<1>2. /\ queue[p] \in Seq(Entry) /\ kept[p] \in Seq(Entry) /\ batch[p] \in Seq(Entry)
      /\ Promised \in SUBSET Mutation /\ Done \in SUBSET Mutation
      /\ accepted \cup FirstAwaiting(saves[p]) \subseteq Promised
      /\ Facts(Hand(p)) = Facts(kept[p]) \cup Facts(batch[p])
  BY WorldFacts
<1>3. Sound(queue[p], kept[p] \o batch[p], Promised, Done, Seen)
  BY <1>1, HeldIsSound DEF Hand
<1>4. /\ Written(Content(p), Promised, Done)
      /\ Facts(Content(p)) \subseteq Facts(kept[p]) \cup Facts(batch[p]) \cup Facts(queue[p])
  BY <1>2, <1>3, ContentKeeps DEF Content, InFlight
<1>5. Written(Content(p), accepted \cup FirstAwaiting(saves[p]), Done)
  BY <1>2, <1>4, WrittenWeakens
<1>6. Seen' = Seen /\ Done' = Done /\ Hand(p)' = Hand(p) /\ abandoned' \subseteq issued
  BY <1>1, HeldIsSound DEF Seen, Done, Hand
<1>7. /\ Written(file, accepted, Done)' /\ accepted' \subseteq Promised /\ Facts(file') \subseteq issued
      /\ Sound(queue'[p], Hand(p)', Promised, Done', Seen')
      /\ \A m \in Facts(kept'[p]) : ~IsTurn(m)
  BY <1>1, <1>6, HeldIsSound
<1>8. MemoryKnown(p)'
  BY <1>1, <1>2, <1>4, <1>6, HeldIsSound DEF MemoryKnown
<1>9. writing'[p] # None => Written(writing'[p], accepted' \cup FirstAwaiting(saves'[p]), Done')
  BY <1>1, <1>5, <1>6
<1> QED BY <1>1, <1>6, <1>7, <1>8, <1>9, SafeMoves

\* The file is now what was written, and the mutation that waited is accepted.
LEMMA EndWriteSafe ==
  ASSUME TypeInv, SafeInv, NEW p \in Process, EndWrite(p)
  PROVE  SafeInv'
<1>1. /\ TypeInv' /\ Apart(p) /\ up[p] /\ writing[p] # None /\ file' = writing[p]
      /\ (~up'[p] /\ Awaiting(saves'[p]) = {}) \/ Resumes(p)
      /\ accepted' \subseteq accepted \cup FirstAwaiting(saves[p])
      /\ UNCHANGED <<wire, log, issued, abandoned>>
  BY EndWriteTyped
<1>2. Done' = Done
  BY <1>1 DEF Done
<1>3. Written(writing[p], accepted \cup FirstAwaiting(saves[p]), Done) /\ Facts(writing[p]) \subseteq issued
  BY <1>1, HeldIsSound
<1>4. Written(file, accepted, Done)'
  BY <1>1, <1>2, <1>3, WrittenWeakens
<1>5. accepted' \subseteq Promised /\ Facts(file') \subseteq issued
  BY <1>1, <1>3, WorldFacts
<1> QED BY <1>1, <1>4, <1>5, GoneSafe, ResumesSafe

\* A write fails: the file is as it was.
LEMMA FailWriteSafe ==
  ASSUME TypeInv, SafeInv, NEW p \in Process, FailWrite(p)
  PROVE  SafeInv'
<1>1. /\ TypeInv' /\ Apart(p) /\ up[p]
      /\ (~up'[p] /\ Awaiting(saves'[p]) = {}) \/ Resumes(p)
      /\ UNCHANGED <<file, wire, log, issued, accepted, abandoned>>
  BY FailWriteTyped
<1>2. Done' = Done
  BY <1>1 DEF Done
<1>3. accepted' \subseteq Promised /\ Written(file, accepted, Done)' /\ Facts(file') \subseteq issued
  BY <1>1, <1>2, HeldIsSound
<1> QED BY <1>1, <1>3, GoneSafe, ResumesSafe

\* Steps that move nothing but times, flags and calls.
LEMMA QuietSafe ==
  ASSUME TypeInv, TypeInv', SafeInv, NEW p \in Process, Quiet(p)
  PROVE  SafeInv'
<1>1. /\ up[p] /\ Apart(p) /\ UNCHANGED <<up, kept, writing, file, wire, log, issued, accepted, abandoned>>
      /\ Alike(queue'[p], queue[p]) /\ Hand(p)' = Hand(p)
      /\ Awaiting(saves'[p]) = Awaiting(saves[p])
      /\ saves[p] # <<>> => FirstAwaiting(saves'[p]) = FirstAwaiting(saves[p])
  BY DEF Quiet
<1>2. queue[p] \in Seq(Entry) /\ queue'[p] \in Seq(Entry)
  BY DEF TypeInv, MemoryTyped
<1>3. Sound(queue'[p], Hand(p), Promised, Done, Seen) /\ Facts(queue'[p]) = Facts(queue[p])
  BY <1>1, <1>2, HeldIsSound, QueueAlike, AlikeIsWithin
<1>4. Seen' = Seen /\ Done' = Done /\ abandoned' \subseteq issued
  BY <1>1, HeldIsSound DEF Seen, Done
<1>5. /\ Written(file, accepted, Done)' /\ accepted' \subseteq Promised /\ Facts(file') \subseteq issued
      /\ \A m \in Facts(kept'[p]) : ~IsTurn(m)
  BY <1>1, <1>4, HeldIsSound
<1>6. MemoryKnown(p)'
  BY <1>1, <1>3, HeldIsSound DEF MemoryKnown
<1>7. writing'[p] # None => Written(writing'[p], accepted' \cup FirstAwaiting(saves'[p]), Done')
  <2>1. writing[p] # None => saves[p] # <<>>
    BY DEF TypeInv, Coupled
  <2> QED BY <1>1, <1>4, <2>1, HeldIsSound
<1> QED BY <1>1, <1>3, <1>4, <1>5, <1>6, <1>7, SafeMoves

\* Dead letters cannot be written: they were abandoned before.
LEMMA RecordFailsSafe ==
  ASSUME TypeInv, SafeInv, NEW p \in Process, RecordFails(p)
  PROVE  SafeInv'
<1>1. /\ TypeInv' /\ Apart(p) /\ up[p]
      /\ (~up'[p] /\ Awaiting(saves'[p]) = {}) \/ Quiet(p)
      /\ UNCHANGED <<file, wire, log, issued, accepted, abandoned>>
  BY RecordFailsTyped
<1>2. Done' = Done
  BY <1>1 DEF Done
<1>3. accepted' \subseteq Promised /\ Written(file, accepted, Done)' /\ Facts(file') \subseteq issued
  BY <1>1, <1>2, HeldIsSound
<1> QED BY <1>1, <1>3, GoneSafe, QuietSafe

\* The item that is sent is the earliest turn that is not done with.
LEMMA SendSafe ==
  ASSUME TypeInv, SafeInv, NEW p \in Process, Send(p)
  PROVE  SafeInv'
<1> DEFINE m == This(p).m
<1>1. /\ TypeInv' /\ up[p] /\ Apart(p) /\ stage[p] = "sending"
      /\ UNCHANGED <<up, queue, batch, kept, saves, writing, file, log, issued, accepted, abandoned>>
      /\ wire' = wire \cup {m}
  BY SendTyped
<1>2. /\ queue[p] \in Seq(Entry) /\ kept[p] \in Seq(Entry) /\ batch[p] \in Seq(Entry) /\ batch[p] # <<>>
      /\ m \in Facts(batch[p])
  BY <1>1, InHand
<1>3. /\ Promised \in SUBSET Mutation /\ Done \in SUBSET Mutation /\ Hand(p) \in Seq(Entry) /\ m \in Facts(Hand(p))
  BY <1>2, WorldFacts
<1>4. Sound(queue[p], Hand(p), Promised, Done, Seen) /\ m \in issued
  BY <1>1, <1>3, HeldIsSound
<1>5. Done' = Done /\ Seen' = Seen \cup {m} /\ Hand(p)' = Hand(p) /\ abandoned' \subseteq issued
  BY <1>1, HeldIsSound DEF Done, Seen, Hand
<1>6. Follows(m, Promised, Done)
  <2> SUFFICES ASSUME NEW n \in Promised, IsTurn(m), IsTurn(n), n.at < m.at PROVE n \in Done
    BY DEF Follows
  <2>1. \A x \in Facts(kept[p]) : ~IsTurn(x)
    BY <1>1, HeldIsSound
  <2>2. Sound(queue[p], kept[p] \o batch[p], Promised, Done, Seen)
    BY <1>4 DEF Hand
  <2>3. IsTurn(Head(batch[p]).m) /\ n.at < Head(batch[p]).m.at
    BY DEF This
  <2> QED BY <1>2, <1>3, <2>1, <2>2, <2>3, HeadIsNext
<1>7. Sound(queue[p], Hand(p), Promised, Done, Seen \cup {m})
  <2> HIDE DEF m
  <2> QED BY <1>2, <1>3, <1>4, SendKeeps
<1> HIDE DEF m
<1>8. /\ Written(file, accepted, Done)' /\ accepted' \subseteq Promised /\ Facts(file') \subseteq issued
      /\ \A x \in Facts(kept'[p]) : ~IsTurn(x)
  BY <1>1, <1>5, HeldIsSound
<1>9. MemoryKnown(p)'
  BY <1>1, <1>5, HeldIsSound DEF MemoryKnown
<1>10. writing'[p] # None => Written(writing'[p], accepted' \cup FirstAwaiting(saves'[p]), Done')
  BY <1>1, <1>5, HeldIsSound
<1>11. \A x \in Seen' \ Seen : x \in issued /\ Follows(x, Promised, Done')
  BY <1>4, <1>5, <1>6
<1> QED BY <1>1, <1>5, <1>7, <1>8, <1>9, <1>10, <1>11, SafeMoves

\* A request arrives: the turns observed before it are done with.
LEMMA ArriveSafe ==
  ASSUME TypeInv, SafeInv, NEW m \in wire, Arrive(m)
  PROVE  SafeInv'
<1>1. /\ UNCHANGED <<up, queue, batch, kept, saves, writing, file, issued, accepted, abandoned>>
      /\ wire' = wire \ {m} /\ log' = IF m \in Items(log) THEN log ELSE Append(log, m)
  BY DEF Arrive, flush, disk, history
<1>2. log \in Seq(Mutation) /\ m \in Mutation
  BY DEF TypeInv, WorldTyped
<1>3. Items(log') = Items(log) \cup {m}
  <2>1. CASE m \in Items(log)
    BY <1>1, <2>1
  <2>2. CASE m \notin Items(log)
    <3>1. log' = Append(log, m)
      BY <1>1, <2>2
    <3>2. DOMAIN log' = DOMAIN log \cup {Len(log) + 1} /\ log'[Len(log) + 1] = m /\ \A i \in DOMAIN log : log'[i] = log[i]
      BY <1>2, <3>1
    <3> QED BY <3>2 DEF Items
  <2> QED BY <2>1, <2>2
<1>4. Seen' = Seen /\ Done' = Done \cup {m} /\ Promised' = Promised
  BY <1>1, <1>3 DEF Seen, Done, Promised
<1>5. ASSUME NEW p \in Process PROVE MemoryKnown(p)' /\ MemorySound(p)'
  <2>1. Hand(p)' = Hand(p)
    BY <1>1 DEF Hand
  <2>2. MemoryKnown(p) /\ MemorySound(p)
    BY DEF SafeInv
  <2>3. Done \subseteq Done'
    BY <1>4
  <2>4. up[p] => Sound(queue[p], Hand(p), Promised, Done', Seen)
    BY <2>2, <2>3, SoundWeakens DEF MemorySound
  <2>5. writing[p] # None => Written(writing[p], accepted \cup FirstAwaiting(saves[p]), Done')
    BY <2>2, <2>3, WrittenWeakens DEF MemorySound
  <2>6. MemorySound(p)'
    BY <1>1, <1>4, <2>1, <2>2, <2>4, <2>5 DEF MemorySound
  <2> QED BY <1>1, <2>1, <2>2, <2>6 DEF MemoryKnown
<1>6. Written(file, accepted, Done)'
  BY <1>1, <1>4, WrittenWeakens DEF SafeInv
<1>7. Ordered'
  BY <1>4 DEF SafeInv, Ordered, Follows
<1>8. LogInTurn'
  <2>1. CASE m \in Items(log)
    BY <1>1, <1>4, <2>1 DEF SafeInv, LogInTurn
  <2>2. CASE m \notin Items(log)
    <3>1. /\ DOMAIN log' = 1..Len(log) + 1 /\ DOMAIN log = 1..Len(log) /\ Len(log) \in Nat
          /\ log'[Len(log) + 1] = m /\ \A i \in DOMAIN log : log'[i] = log[i]
      BY <1>1, <1>2, <2>2
    <3> SUFFICES ASSUME NEW i \in DOMAIN log', NEW j \in DOMAIN log', i < j, IsTurn(log'[i]), IsTurn(log'[j]),
                        log'[j] \in Promised \ abandoned
                 PROVE  log'[i].at < log'[j].at
      BY <1>1, <1>4 DEF LogInTurn
    <3>2. i \in DOMAIN log
      BY <3>1
    <3>3. CASE j \in DOMAIN log
      BY <3>1, <3>2, <3>3 DEF SafeInv, LogInTurn
    <3>4. CASE j = Len(log) + 1
      <4> DEFINE n == log[i]
      <4>1. n \in Mutation /\ n \in Seen /\ n # m /\ log'[i] = n /\ log'[j] = m
        BY <1>2, <2>2, <3>1, <3>2, <3>4 DEF Seen, Items
      <4> HIDE DEF n
      <4>2. m \notin Done
        BY <2>2, <3>4, <4>1 DEF Done
      <4>3. ~(m.at < n.at)
        BY <4>1, <4>2 DEF SafeInv, Ordered, Follows
      <4> QED BY <1>2, <4>1, <4>3, TimesDistinguish
    <3> QED BY <3>1, <3>3, <3>4
  <2> QED BY <2>1, <2>2
<1>9. WorldKnown' /\ OneUp'
  <2>1. Seen \subseteq issued /\ abandoned \cup Facts(file) \cup Promised \subseteq issued
    BY DEF SafeInv, WorldKnown
  <2> QED BY <1>1, <1>4, <2>1 DEF SafeInv, WorldKnown, OneUp
<1> QED BY <1>5, <1>6, <1>7, <1>8, <1>9 DEF SafeInv

\* Every step keeps what is promised, as long as one process at a time is up.
LEMMA NextSafe == TypeInv /\ SafeInv /\ OneUp' /\ [Next]_vars => SafeInv'
<1> SUFFICES ASSUME TypeInv, SafeInv, OneUp', [Next]_vars PROVE SafeInv'
  OBVIOUS
<1>0. TypeInv'
  BY NextTyped
<1>1. CASE UNCHANGED vars
  <2>1. UNCHANGED <<up, queue, batch, kept, saves, writing, file, wire, log, issued, accepted, abandoned>>
    BY <1>1 DEF vars, flush, disk, net, history
  <2>2. Promised' = Promised /\ Seen' = Seen /\ Done' = Done /\ \A p \in Process : Hand(p)' = Hand(p)
    BY <2>1 DEF Promised, Seen, Done, Hand
  <2>3. \A p \in Process : MemoryKnown(p)' /\ MemorySound(p)'
    BY <2>1, <2>2 DEF SafeInv, MemoryKnown, MemorySound
  <2>4. WorldKnown' /\ Written(file, accepted, Done)' /\ Ordered' /\ LogInTurn'
    BY <2>1, <2>2 DEF SafeInv, WorldKnown, Ordered, LogInTurn
  <2> QED BY <2>3, <2>4 DEF SafeInv
<1>2. ASSUME NEW m \in wire, Arrive(m) PROVE SafeInv'
  BY <1>2, ArriveSafe
<1>3. ASSUME NEW p \in Process,
             \/ Start(p) \/ Crash(p) \/ BeginWrite(p) \/ EndWrite(p) \/ FailWrite(p)
             \/ \E m \in plan : Enqueue(p, m)
      PROVE SafeInv'
  BY <1>3, StartSafe, CrashSafe, BeginWriteSafe, EndWriteSafe, FailWriteSafe, EnqueueSafe
<1>4. ASSUME NEW p \in Process,
             \/ RunFlush(p) \/ TimerFires(p) \/ BackoffEnds(p) \/ Connect(p) \/ Drain(p) \/ Close(p)
             \/ Record(p) \/ RecordFails(p)
      PROVE SafeInv'
  BY <1>0, <1>4, RunFlushSafe, BackoffEndsTyped, QuietSteps, RecordTyped, QuietSafe, RecordFailsSafe
<1>5. ASSUME NEW p \in Process,
             \/ PassOver(p) \/ HoldUp(p) \/ Defer(p) \/ Send(p) \/ Ack(p) \/ AuthFails(p) \/ Fail(p) \/ GiveUp(p)
      PROVE SafeInv'
  BY <1>5, PassOverSafe, HoldUpSafe, SendSafe, AckSafe, GiveUpSafe
<1> QED BY <1>1, <1>2, <1>3, <1>4, <1>5 DEF Next

-----------------------------------------------------------------------------
(* The theorems. *)
\* The invariant has the types.
LEMMA TypeInvGivesTypes == TypeInv => OutboxTypeOK
<1> SUFFICES ASSUME TypeInv PROVE OutboxTypeOK
  OBVIOUS
<1>1. \A v \in {up, closed, changed, timer} : v \in [Process -> BOOLEAN]
  BY DEF TypeInv, MemoryTyped
<1>2. \A s \in Seq(Entry) : Items(s) \subseteq Entry
  BY DEF Items
<1>3. \A v \in {queue, batch, kept} : DOMAIN v = Process /\ \A p \in Process : Items(v[p]) \subseteq Entry
  BY <1>2 DEF TypeInv, MemoryTyped
<1>4. ASSUME NEW p \in Process
      PROVE  /\ Items(saves[p]) \subseteq [of : {"enqueue", "flush", "close"}, m : Mutation \cup {None}]
             /\ writing[p] # None => saves[p] # <<>> /\ Items(writing[p]) \subseteq Entry
  <2>1. saves[p] \in Seq(Request) /\ (writing[p] # None => saves[p] # <<>> /\ writing[p] \in Seq(Entry))
    BY DEF TypeInv, MemoryTyped, Coupled
  <2>2. Request \subseteq [of : {"enqueue", "flush", "close"}, m : Mutation \cup {None}]
    BY DEF Request
  <2>3. Items(saves[p]) \subseteq Request
    BY <2>1 DEF Items
  <2> QED BY <1>2, <2>1, <2>2, <2>3
<1>5. Items(file) \subseteq Entry
  BY <1>2 DEF TypeInv, WorldTyped
<1>6. \A s \in {deadFile, wire, Items(log), issued, accepted, abandoned} : s \subseteq Mutation
  BY DEF TypeInv, WorldTyped, Items
<1>7. /\ stage \in [Process -> {"idle", "sending", "awaiting", "recording", "saving"}]
      /\ reason \in [Process -> {"soft", "flush", "close"}]
      /\ given \in [Process -> SUBSET Mutation] /\ snapshots \in [Process -> 0..SnapshotLimit]
      /\ wanted \in [Process -> SUBSET {"soft", "flush", "close"}]
      /\ starts \in [Process -> Nat] /\ trouble \in SUBSET Trouble /\ plan \in Plans
  BY DEF TypeInv, MemoryTyped, WorldTyped
<1> QED BY <1>1, <1>3, <1>4, <1>5, <1>6, <1>7 DEF OutboxTypeOK

\* The types hold in every behaviour.
LEMMA AlwaysTyped == Spec => []TypeInv
BY InitTyped, NextTyped, PTL DEF Spec

\* Every variable of the outbox has its type: in particular what a flush keeps,
\* holds and puts back are entries of mutations, no attempt is counted past the
\* maximum, and a write under way is one that somebody waits for
\* (createSessionMutationOutbox).
THEOREM OutboxTypeCorrect == Spec => []OutboxTypeOK
BY AlwaysTyped, TypeInvGivesTypes, PTL

\* No step of a runner brings a second process up.
LEMMA NextOneUp ==
  ASSUME Daemon \notin Process
  PROVE  TypeInv /\ TypeInv' /\ OneUp /\ [Next]_vars => OneUp'
<1> SUFFICES ASSUME TypeInv, TypeInv', OneUp, [Next]_vars PROVE OneUp'
  OBVIOUS
<1>1. ASSUME NEW p \in Process, Start(p) PROVE OneUp'
  <2>1. \A q \in Process : ~up[q]
    BY <1>1 DEF Start, MayStart
  <2>2. \A q \in Process \ {p} : up'[q] = up[q]
    BY <1>1, StartTyped DEF Apart
  <2> QED BY <2>1, <2>2 DEF OneUp
<1>2. ASSUME \A q \in Process : up'[q] => up[q] PROVE OneUp'
  BY <1>2 DEF OneUp
<1>3. ASSUME NEW p \in Process, Forget(p) PROVE OneUp'
  BY <1>2, <1>3 DEF Forget, TypeInv, MemoryTyped
<1>4. CASE UNCHANGED up
  BY <1>2, <1>4
<1>5. ASSUME NEW p \in Process,
             Crash(p) \/ BeginWrite(p) \/ EndWrite(p) \/ FailWrite(p) \/ Record(p) \/ RecordFails(p)
                      \/ \E m \in plan : Enqueue(p, m)
      PROVE OneUp'
  BY <1>3, <1>4, <1>5 DEF Crash, BeginWrite, EndWrite, FailWrite, Record, RecordFails, Enqueue
<1>6. ASSUME NEW p \in Process,
             RunFlush(p) \/ TimerFires(p) \/ BackoffEnds(p) \/ Connect(p) \/ Drain(p) \/ Close(p)
      PROVE OneUp'
  BY <1>4, <1>6 DEF RunFlush, TimerFires, StartFlush, BackoffEnds, Connect, Drain, Close
<1>7. ASSUME NEW p \in Process,
             \/ PassOver(p) \/ HoldUp(p) \/ Defer(p) \/ Send(p) \/ Ack(p) \/ AuthFails(p) \/ Fail(p) \/ GiveUp(p)
      PROVE OneUp'
  BY <1>4, <1>7 DEF PassOver, HoldUp, Defer, Send, Ack, AuthFails, Fail, GiveUp, Unanswered, Same
<1>8. ASSUME NEW m \in wire, Arrive(m) PROVE OneUp'
  BY <1>4, <1>8 DEF Arrive
<1>9. CASE UNCHANGED vars
  BY <1>4, <1>9 DEF vars
<1> QED BY <1>1, <1>5, <1>6, <1>7, <1>8, <1>9 DEF Next

\* Without the daemon, which reports the end of a runner that may be resumed
\* meanwhile, one process at a time has the outbox of a session open.
THEOREM OneAtATime ==
  ASSUME Daemon \notin Process
  PROVE  Spec => []OneUp
<1>1. Init => OneUp
  BY DEF Init, OneUp
<1> QED BY <1>1, NextOneUp, AlwaysTyped, PTL DEF Spec

\* Nothing promised is lost, in every behaviour with one process up at a time.
LEMMA AlwaysSafe == Spec /\ []OneUp => [](TypeInv /\ SafeInv)
BY InitSafe, NextSafe, AlwaysTyped, PTL DEF Spec

\* What the invariant says of the file,
LEMMA NothingLostIsSafe == TypeInv /\ SafeInv => NothingAcceptedIsLost
<1> SUFFICES ASSUME TypeInv, SafeInv, NEW m \in accepted
             PROVE  Kept(m) \/ \E n \in issued : Supersedes(n, m) /\ Kept(n)
  BY DEF NothingAcceptedIsLost
<1>1. PICK n \in Facts(file) \cup Done : n = m \/ Supersedes(n, m)
  BY DEF SafeInv, Written, Covers, Covered
<1>2. Kept(n) /\ n \in issued
  BY DEF Kept, Done, SafeInv, WorldKnown, Seen
<1> QED BY <1>1, <1>2

\* of the log,
LEMMA InTurnIsSafe == TypeInv /\ SafeInv => TurnsArriveInOrder
<1> SUFFICES ASSUME SafeInv PROVE TurnsArriveInOrder
  OBVIOUS
<1>1. accepted \subseteq Promised
  BY DEF Promised
<1> QED BY <1>1 DEF SafeInv, LogInTurn, TurnsArriveInOrder

\* and of snapshots.
LEMMA SnapshotStandsIsSafe == TypeInv /\ SafeInv => AcceptedSnapshotStands
<1> SUFFICES ASSUME TypeInv, SafeInv, NEW n \in accepted, n.kind = "snapshot"
             PROVE  /\ \A p \in Process : stage[p] = "awaiting" /\ n \in Seen => ~OlderSnapshot(This(p).m, n)
                    /\ \A e \in Items(file) : ~OlderSnapshot(e.m, n)
  BY DEF AcceptedSnapshotStands, Seen
<1>1. \A e \in Items(file) : ~OlderSnapshot(e.m, n)
  BY DEF SafeInv, Written, NoOlder, Facts
<1>2. ASSUME NEW p \in Process, stage[p] = "awaiting", n \in Seen
      PROVE  ~OlderSnapshot(This(p).m, n)
  <2>1. up[p] /\ This(p).m \in Facts(Hand(p))
    BY <1>2, InHand, WorldFacts
  <2>2. n \in Promised /\ Sound(queue[p], Hand(p), Promised, Done, Seen)
    BY <2>1, HeldIsSound
  <2>3. NoOlder(Facts(Hand(p)), n)
    BY <1>2, <2>2 DEF Sound, Stands
  <2> QED BY <2>1, <2>3 DEF NoOlder
<1> QED BY <1>1, <1>2

\* A mutation whose enqueue returned is in the file, at the server or given up,
\* or one that supersedes it is, at every moment: over crashes, failed writes,
\* lost and late answers, merging and pruning of the lists (enqueue, persist,
\* flushInner), as long as one process at a time has the outbox open. That is so
\* without the daemon; with it TLC shows a loss.
THEOREM AcceptedIsNeverLost ==
  /\ Spec /\ []OneUp => []NothingAcceptedIsLost
  /\ Daemon \notin Process => (Spec => []NothingAcceptedIsLost)
<1>1. Spec /\ []OneUp => []NothingAcceptedIsLost
  BY AlwaysSafe, NothingLostIsSafe, PTL
<1>2. ASSUME Daemon \notin Process PROVE Spec => []NothingAcceptedIsLost
  BY <1>1, <1>2, OneAtATime, PTL
<1> QED BY <1>1, <1>2

\* Turns whose enqueue returned, or will when its write ends, reach the server in
\* the order they were observed in, given up ones excepted: whatever holds up,
\* retries or restarts the flush (flushInner), and however late a request is.
THEOREM AcceptedTurnsArriveInOrder ==
  /\ Spec /\ []OneUp => []TurnsArriveInOrder
  /\ Daemon \notin Process => (Spec => []TurnsArriveInOrder)
<1>1. Spec /\ []OneUp => []TurnsArriveInOrder
  BY AlwaysSafe, InTurnIsSafe, PTL
<1>2. ASSUME Daemon \notin Process PROVE Spec => []TurnsArriveInOrder
  BY <1>1, <1>2, OneAtATime, PTL
<1> QED BY <1>1, <1>2

\* Once a newer snapshot of a message was accepted and sent, an older one is
\* neither sent after it nor written to the file again, whichever of the two was
\* being retried when the other came (mergeQueuedSessionMutations, persist).
THEOREM OlderSnapshotsStayAway ==
  /\ Spec /\ []OneUp => []AcceptedSnapshotStands
  /\ Daemon \notin Process => (Spec => []AcceptedSnapshotStands)
<1>1. Spec /\ []OneUp => []AcceptedSnapshotStands
  BY AlwaysSafe, SnapshotStandsIsSafe, PTL
<1>2. ASSUME Daemon \notin Process PROVE Spec => []AcceptedSnapshotStands
  BY <1>1, <1>2, OneAtATime, PTL
<1> QED BY <1>1, <1>2
===============================================================================
