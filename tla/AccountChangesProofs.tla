------------------------- MODULE AccountChangesProofs -------------------------
(***************************************************************************)
(* Theorems about the change feed, for any number of entities, clients and *)
(* sweepers.  The inductive invariant says where the changes without a row *)
(* are: below the floor, or below what a sweep in progress has deleted and *)
(* will raise the floor to.                                                *)
(***************************************************************************)
EXTENDS AccountChanges, TLAPS

\* Rows carry the cursor of the entity's last change; changes have distinct
\* cursors; nothing is ahead of Account.seq.
FeedInv ==
  /\ \A e \in Entity : row[e] = 0 \/ row[e] = last[e]
  /\ \A e \in Entity : last[e] <= seq
  /\ \A e, f \in Entity : last[e] = last[f] /\ last[e] # 0 => e = f
  /\ floor <= seq

\* A sweep deletes only what was there, and has no candidates when it is over.
SweepInv ==
  \A w \in Sweeper : /\ sweep[w].deleted <= seq
                     /\ ~ sweep[w].running => sweep[w].todo = {}

PrunedInv ==
  ~ torn => \A e \in Entity : row[e] = 0 =>
    last[e] <= floor \/ \E w \in Sweeper : sweep[w].running /\ last[e] <= sweep[w].deleted

\* A calm request past its first query finds a row for each change behind it.
RequestInv ==
  \A c \in Client : request[c].pc = "rows" /\ c \in calm /\ ~ torn =>
    /\ ~ Sweeping
    /\ \A e \in Entity : request[c].after < last[e] => row[e] # 0

Inv == TypeOK /\ FeedInv /\ SweepInv /\ PrunedInv /\ RequestInv
-----------------------------------------------------------------------------
LEMMA InitInv == Init => Inv
<1> SUFFICES ASSUME Init PROVE Inv
  OBVIOUS
<1>1. /\ NoSweep \in [running : BOOLEAN, todo : SUBSET Candidate, deleted : Nat]
      /\ NoRequest \in [pc : {"idle", "account", "rows"}, after : Nat, seqRead : Nat]
      /\ NoReply \in [status : {"none", "ok", "gone"}, rows : SUBSET Candidate, next : Nat]
  BY DEF NoSweep, NoRequest, NoReply
<1>2. TypeOK
  BY <1>1 DEF Init, TypeOK
<1>3. FeedInv /\ PrunedInv
  BY DEF Init, FeedInv, PrunedInv
<1>4. SweepInv /\ RequestInv
  BY DEF Init, SweepInv, RequestInv, NoSweep, NoRequest
<1> QED BY <1>2, <1>3, <1>4 DEF Inv

LEMMA MarkStep ==
  ASSUME Inv, NEW e \in Entity, MarkAccountChanged(e)
  PROVE  Inv'
<1> USE DEF Inv
<1>1. TypeOK'
  BY DEF TypeOK, MarkAccountChanged, Candidate
<1>2. FeedInv'
  BY DEF TypeOK, FeedInv, MarkAccountChanged
<1>3. SweepInv'
  BY DEF TypeOK, SweepInv, MarkAccountChanged
<1>4. PrunedInv'
  BY DEF TypeOK, PrunedInv, MarkAccountChanged
<1>5. RequestInv'
  BY DEF TypeOK, RequestInv, MarkAccountChanged, Sweeping
<1> QED BY <1>1, <1>2, <1>3, <1>4, <1>5

LEMMA AgeStep ==
  ASSUME Inv, NEW e \in Entity, Age(e)
  PROVE  Inv'
  BY DEF Inv, TypeOK, FeedInv, SweepInv, PrunedInv, RequestInv, Sweeping, Age

LEMMA RequestStep ==
  ASSUME Inv, NEW c \in Client, NEW after \in 0..(seq + 1), RequestChanges(c, after)
  PROVE  Inv'
<1>1. TypeOK'
  BY DEF Inv, TypeOK, RequestChanges, feed
<1>2. FeedInv' /\ SweepInv' /\ PrunedInv'
  BY DEF Inv, FeedInv, SweepInv, PrunedInv, RequestChanges, feed
<1>3. RequestInv'
  BY DEF Inv, TypeOK, RequestInv, RequestChanges, feed, Sweeping
<1> QED BY <1>1, <1>2, <1>3 DEF Inv

LEMMA ReadAccountStep ==
  ASSUME Inv, NEW c \in Client, ReadAccount(c)
  PROVE  Inv'
<1>1. TypeOK'
  BY DEF Inv, TypeOK, ReadAccount, feed, NoRequest, Sweeping, Candidate
<1>2. FeedInv' /\ SweepInv' /\ PrunedInv'
  BY DEF Inv, FeedInv, SweepInv, PrunedInv, ReadAccount, feed
<1>3. RequestInv'
  <2> SUFFICES ASSUME NEW d \in Client, request'[d].pc = "rows", d \in calm', ~ torn
               PROVE  /\ ~ Sweeping
                      /\ \A e \in Entity : request'[d].after < last[e] => row[e] # 0
    BY DEF RequestInv, ReadAccount, feed, Sweeping
  <2>1. CASE d # c
    BY <2>1 DEF Inv, TypeOK, RequestInv, ReadAccount
  <2>2. CASE d = c
    <3>1. /\ ~ (request[c].after < floor) /\ request'[c].after = request[c].after
          /\ ~ Sweeping
      BY <2>2 DEF Inv, TypeOK, ReadAccount, NoRequest
    <3> QED BY <2>2, <3>1 DEF Inv, TypeOK, PrunedInv, Sweeping
  <2> QED BY <2>1, <2>2
<1> QED BY <1>1, <1>2, <1>3 DEF Inv

LEMMA ReadRowsStep ==
  ASSUME Inv, NEW c \in Client, ReadRows(c)
  PROVE  Inv'
<1>1. TypeOK'
  BY DEF Inv, TypeOK, ReadRows, feed, NoRequest, Candidate
<1>2. FeedInv' /\ SweepInv' /\ PrunedInv'
  BY DEF Inv, FeedInv, SweepInv, PrunedInv, ReadRows, feed
<1>3. RequestInv'
  BY DEF Inv, TypeOK, RequestInv, ReadRows, feed, NoRequest, Sweeping
<1> QED BY <1>1, <1>2, <1>3 DEF Inv

LEMMA StartSweepStep ==
  ASSUME Inv, NEW w \in Sweeper, StartSweep(w)
  PROVE  Inv'
<1>1. TypeOK'
  <2>1. PICK S \in SUBSET aged :
          sweep' = [sweep EXCEPT ![w] =
                      [running |-> TRUE, deleted |-> 0,
                       todo |-> {[entity |-> e, cursor |-> row[e]] : e \in S}]]
    BY DEF StartSweep
  <2>2. {[entity |-> e, cursor |-> row[e]] : e \in S} \in SUBSET Candidate
    BY DEF Inv, TypeOK, Candidate
  <2>3. sweep' \in [Sweeper -> [running : BOOLEAN, todo : SUBSET Candidate, deleted : Nat]]
    BY <2>1, <2>2 DEF Inv, TypeOK
  <2> QED BY <2>3 DEF Inv, TypeOK, StartSweep, feed
<1>2. FeedInv'
  BY DEF Inv, FeedInv, StartSweep, feed
<1>3. SweepInv'
  BY DEF Inv, TypeOK, SweepInv, StartSweep, feed
<1>4. PrunedInv'
  BY DEF Inv, TypeOK, PrunedInv, StartSweep, feed
<1>5. RequestInv'
  BY DEF RequestInv, StartSweep
<1> QED BY <1>1, <1>2, <1>3, <1>4, <1>5 DEF Inv

LEMMA DeleteStep ==
  ASSUME Inv, NEW w \in Sweeper, NEW x \in sweep[w].todo, DeleteCandidate(w, x)
  PROVE  Inv'
<1>1. x \in Candidate /\ sweep[w].running /\ Sweeping
  BY DEF Inv, TypeOK, SweepInv, Sweeping
<1>2. PICK d \in Nat :
        /\ d <= seq /\ d >= sweep[w].deleted
        /\ sweep' = [sweep EXCEPT ![w] =
                      [running |-> TRUE, todo |-> sweep[w].todo \ {x}, deleted |-> d]]
        /\ \/ UNCHANGED <<row, aged>>
           \/ /\ d >= last[x.entity]
              /\ row' = [row EXCEPT ![x.entity] = 0] /\ aged' = aged \ {x.entity}
           \/ /\ row[x.entity] = 0
              /\ row' = row /\ aged' = aged \ {x.entity}
  <2>1. sweep[w].deleted \in Nat /\ sweep[w].deleted <= seq /\ x.cursor \in Nat
        /\ x.entity \in Entity /\ seq \in Nat
    BY <1>1 DEF Inv, TypeOK, SweepInv, Candidate
  <2>2. CASE row[x.entity] = x.cursor /\ x.entity \in aged
    <3>1. /\ row' = [row EXCEPT ![x.entity] = 0]
          /\ aged' = aged \ {x.entity}
          /\ Done(w, x, Higher(x.cursor, sweep[w].deleted))
      BY <2>2 DEF DeleteCandidate
    <3>2. x.cursor <= seq /\ (row[x.entity] = 0 \/ last[x.entity] = x.cursor)
      BY <2>1, <2>2 DEF Inv, TypeOK, FeedInv
    <3>3. row[x.entity] = 0 => row' = row
      BY <3>1, <2>1 DEF Inv, TypeOK
    <3> DEFINE d == Higher(x.cursor, sweep[w].deleted)
    <3>4. /\ d \in Nat /\ d <= seq /\ d >= sweep[w].deleted
          /\ last[x.entity] = x.cursor => d >= last[x.entity]
      BY <2>1, <3>2 DEF Higher
    <3>5. sweep' = [sweep EXCEPT ![w] =
                     [running |-> TRUE, todo |-> sweep[w].todo \ {x}, deleted |-> d]]
      BY <3>1 DEF Done
    <3> HIDE DEF d
    <3> QED BY <3>1, <3>2, <3>3, <3>4, <3>5
  <2>3. CASE ~ (row[x.entity] = x.cursor /\ x.entity \in aged)
    BY <2>1, <2>3 DEF DeleteCandidate, Done
  <2> QED BY <2>2, <2>3
<1>3. UNCHANGED <<seq, floor, last, torn, request, calm, reply>>
  BY DEF DeleteCandidate
<1>4. TypeOK'
  <2>1. sweep' \in [Sweeper -> [running : BOOLEAN, todo : SUBSET Candidate, deleted : Nat]]
    BY <1>2 DEF Inv, TypeOK
  <2>2. row' \in [Entity -> Nat] /\ aged' \in SUBSET Entity
    BY <1>2 DEF Inv, TypeOK
  <2> QED BY <1>3, <2>1, <2>2 DEF Inv, TypeOK
<1>5. FeedInv'
  BY <1>1, <1>2, <1>3 DEF Inv, TypeOK, FeedInv, Candidate
<1>6. SweepInv'
  BY <1>2, <1>3 DEF Inv, TypeOK, SweepInv
<1>7. PrunedInv'
  <2> SUFFICES ASSUME ~ torn, NEW e \in Entity, row'[e] = 0
               PROVE  last[e] <= floor
                        \/ \E v \in Sweeper : sweep'[v].running /\ last[e] <= sweep'[v].deleted
    BY <1>3 DEF PrunedInv
  <2>1. sweep'[w].running /\ sweep'[w].deleted = d
    BY <1>2 DEF Inv, TypeOK
  <2>2. CASE row[e] # 0
    <3>1. last[e] <= d
      BY <1>2, <2>2 DEF Inv, TypeOK
    <3> QED BY <2>1, <3>1
  <2>3. CASE last[e] <= floor
    BY <2>3
  <2>4. CASE row[e] = 0 /\ ~ (last[e] <= floor)
    <3>1. PICK v \in Sweeper : sweep[v].running /\ last[e] <= sweep[v].deleted
      BY <2>4 DEF Inv, PrunedInv
    <3>2. last[e] \in Nat /\ sweep[v].deleted \in Nat
      BY DEF Inv, TypeOK
    <3>3. CASE v = w
      BY <1>2, <2>1, <3>1, <3>2, <3>3
    <3>4. CASE v # w
      BY <1>2, <3>1, <3>4 DEF Inv, TypeOK
    <3> QED BY <3>3, <3>4
  <2> QED BY <2>2, <2>3, <2>4
<1>8. RequestInv'
  BY <1>1, <1>3 DEF Inv, RequestInv
<1> QED BY <1>4, <1>5, <1>6, <1>7, <1>8 DEF Inv

LEMMA RaiseFloorStep ==
  ASSUME Inv, NEW w \in Sweeper, RaiseFloor(w)
  PROVE  Inv'
<1>1. /\ floor' \in Nat /\ floor' <= seq /\ floor' >= floor
      /\ floor' >= sweep[w].deleted
  BY DEF Inv, TypeOK, FeedInv, SweepInv, RaiseFloor, Higher
<1>2. NoSweep \in [running : BOOLEAN, todo : SUBSET Candidate, deleted : Nat]
  BY DEF NoSweep
<1>3. TypeOK'
  BY <1>1, <1>2 DEF Inv, TypeOK, RaiseFloor
<1>4. FeedInv'
  BY <1>1 DEF Inv, TypeOK, FeedInv, RaiseFloor
<1>5. SweepInv'
  BY DEF Inv, TypeOK, SweepInv, RaiseFloor, NoSweep
<1>6. PrunedInv'
  <2> SUFFICES ASSUME ~ torn, NEW e \in Entity, row[e] = 0
               PROVE  last[e] <= floor'
                        \/ \E v \in Sweeper : sweep'[v].running /\ last[e] <= sweep'[v].deleted
    BY DEF PrunedInv, RaiseFloor
  <2>1. last[e] \in Nat /\ floor \in Nat
    BY DEF Inv, TypeOK
  <2>2. CASE last[e] <= floor
    BY <1>1, <2>1, <2>2
  <2>3. CASE ~ (last[e] <= floor)
    <3>1. PICK v \in Sweeper : sweep[v].running /\ last[e] <= sweep[v].deleted
      BY <2>3 DEF Inv, PrunedInv
    <3>2. CASE v = w
      BY <1>1, <2>1, <3>1, <3>2 DEF Inv, TypeOK
    <3>3. CASE v # w
      BY <3>1, <3>3 DEF Inv, TypeOK, RaiseFloor
    <3> QED BY <3>2, <3>3
  <2> QED BY <2>2, <2>3
<1>7. RequestInv'
  <2>1. Sweeping
    BY DEF RaiseFloor, Sweeping
  <2> QED BY <2>1 DEF Inv, RequestInv, RaiseFloor
<1> QED BY <1>3, <1>4, <1>5, <1>6, <1>7 DEF Inv

LEMMA SweepDiesStep ==
  ASSUME Inv, NEW w \in Sweeper, SweepDies(w)
  PROVE  Inv'
<1>1. /\ sweep' = [sweep EXCEPT ![w] = NoSweep]
      /\ torn' \in BOOLEAN
      /\ ~ torn' => ~ torn /\ ~ (sweep[w].deleted > floor)
      /\ UNCHANGED <<seq, floor, row, aged, last, request, calm, reply>>
  BY DEF Inv, TypeOK, SweepDies, feed
<1>2. NoSweep \in [running : BOOLEAN, todo : SUBSET Candidate, deleted : Nat]
  BY DEF NoSweep
<1>3. TypeOK'
  BY <1>1, <1>2 DEF Inv, TypeOK
<1>4. FeedInv'
  BY <1>1 DEF Inv, FeedInv
<1>5. SweepInv'
  BY <1>1 DEF Inv, TypeOK, SweepInv, NoSweep
<1>6. PrunedInv'
  <2> SUFFICES ASSUME ~ torn', NEW e \in Entity, row[e] = 0
               PROVE  last[e] <= floor
                        \/ \E v \in Sweeper : sweep'[v].running /\ last[e] <= sweep'[v].deleted
    BY <1>1 DEF PrunedInv
  <2>1. CASE last[e] <= floor
    BY <2>1
  <2>2. CASE ~ (last[e] <= floor)
    <3>1. PICK v \in Sweeper : sweep[v].running /\ last[e] <= sweep[v].deleted
      BY <1>1, <2>2 DEF Inv, PrunedInv
    <3>2. v # w
      BY <1>1, <2>2, <3>1 DEF Inv, TypeOK
    <3> QED BY <1>1, <3>1, <3>2 DEF Inv, TypeOK
  <2> QED BY <2>1, <2>2
<1>7. RequestInv'
  <2>1. Sweeping
    BY DEF SweepDies, Sweeping
  <2> QED BY <1>1, <2>1 DEF Inv, RequestInv
<1> QED BY <1>3, <1>4, <1>5, <1>6, <1>7 DEF Inv
-----------------------------------------------------------------------------
LEMMA InvStep == Inv /\ [Next]_vars => Inv'
<1> SUFFICES ASSUME Inv, [Next]_vars PROVE Inv'
  OBVIOUS
<1>1. CASE UNCHANGED vars
  BY <1>1 DEF vars, feed, Inv, TypeOK, FeedInv, SweepInv, PrunedInv, RequestInv, Sweeping
<1>2. CASE Next
  BY <1>2, MarkStep, AgeStep, RequestStep, ReadAccountStep, ReadRowsStep,
     StartSweepStep, DeleteStep, RaiseFloorStep, SweepDiesStep DEF Next
<1> QED BY <1>1, <1>2

LEMMA Invariance == Spec => []Inv
BY InitInv, InvStep, PTL DEF Spec

\* Every variable of the feed keeps its type.
THEOREM FeedTypeCorrect == Spec => []TypeOK
<1>1. Inv => TypeOK
  BY DEF Inv
<1> QED BY <1>1, Invariance, PTL

\* No two rows share a cursor, so a page boundary separates them cleanly.
THEOREM CursorsAreDistinct == Spec => []CursorsDistinct
<1>1. Inv => CursorsDistinct
  BY DEF Inv, FeedInv, CursorsDistinct
<1> QED BY <1>1, Invariance, PTL

\* Between sweeps, if none died, whatever has no row is at or below the floor.
THEOREM FloorIsSound == Spec => []FloorCoversPruned
<1>1. Inv => FloorCoversPruned
  BY DEF Inv, FeedInv, PrunedInv, FloorCoversPruned, Sweeping
<1> QED BY <1>1, Invariance, PTL

\* The rows of a page tell of every change up to the next cursor.
LEMMA PageIsComplete ==
  ASSUME Inv, NEW c \in Client, request[c].pc = "rows", c \in calm, ~ torn,
         NEW page \in SUBSET Entity, NEW next \in 0..seq,
         IsPage(page, request[c].after), IsNextCursor(next, page, request[c].after),
         NEW e \in Entity, request[c].after < last[e]
  PROVE  /\ row[e] = last[e]
         /\ last[e] <= next => e \in page
         /\ page = Behind(request[c].after) => e \in page
<1>1. row[e] = last[e] /\ e \in Behind(request[c].after)
  BY DEF Inv, TypeOK, FeedInv, RequestInv, Behind
<1>2. ASSUME last[e] <= next, e \notin page PROVE FALSE
  <2>1. CASE page = {}
    BY <1>2, <2>1 DEF IsNextCursor, Inv, TypeOK
  <2>2. CASE page # {}
    <3>1. PICK f \in page : next = row[f]
      BY <2>2 DEF IsNextCursor
    <3>2. row[f] < row[e]
      BY <1>1, <1>2 DEF IsPage
    <3> QED BY <1>1, <1>2, <3>1, <3>2 DEF Inv, TypeOK
  <2> QED BY <2>1, <2>2
<1> QED BY <1>1, <1>2

LEMMA CompleteStep ==
  ASSUME Inv, [Next]_vars, NEW c \in Client, Answered(c), c \in calm, ~ torn
  PROVE  /\ Tells(c, reply'[c].next)
         /\ Cardinality({x.entity : x \in reply'[c].rows}) < PageLimit
              => Tells(c, request[c].seqRead)
<1>1. ReadRows(c)
  <2>1. request'[c] # request[c]
    BY DEF Answered
  <2>2. PICK d \in Client : (\E after \in 0..(seq + 1) : RequestChanges(d, after))
                              \/ ReadAccount(d) \/ ReadRows(d)
    BY <2>1 DEF Next, vars, feed, MarkAccountChanged, Age, StartSweep, RaiseFloor, SweepDies,
       DeleteCandidate
  <2>3. d = c
    BY <2>1, <2>2 DEF Inv, TypeOK, RequestChanges, ReadAccount, ReadRows
  <2> QED BY <2>2, <2>3 DEF Answered, RequestChanges, ReadAccount
<1>2. PICK page \in SUBSET Entity, next \in 0..seq :
        /\ IsPage(page, request[c].after)
        /\ IsNextCursor(next, page, request[c].after)
        /\ reply'[c].next = next
        /\ reply'[c].rows = {[entity |-> e, cursor |-> row[e]] : e \in page}
  BY <1>1 DEF ReadRows, Inv, TypeOK
<1>3. request[c].pc = "rows"
  BY <1>1 DEF ReadRows
<1>4. Tells(c, reply'[c].next)
  <2> SUFFICES ASSUME NEW e \in Entity, request[c].after < last[e], last[e] <= next
               PROVE  [entity |-> e, cursor |-> last[e]] \in reply'[c].rows
    BY <1>2 DEF Tells
  <2>1. row[e] = last[e] /\ e \in page
    BY <1>2, <1>3, PageIsComplete
  <2> QED BY <1>2, <2>1
<1>5. ASSUME Cardinality({x.entity : x \in reply'[c].rows}) < PageLimit
      PROVE  Tells(c, request[c].seqRead)
  <2>1. {x.entity : x \in reply'[c].rows} = page
    <3>1. ASSUME NEW e \in page
          PROVE  e \in {x.entity : x \in reply'[c].rows}
      <4>1. [entity |-> e, cursor |-> row[e]] \in reply'[c].rows
        BY <1>2
      <4> QED BY <4>1
    <3>2. ASSUME NEW x \in reply'[c].rows
          PROVE  x.entity \in page
      BY <1>2
    <3> QED BY <3>1, <3>2
  <2>2. page = Behind(request[c].after)
    BY <1>2, <1>5, <2>1, LimitsArePositive DEF IsPage
  <2> SUFFICES ASSUME NEW e \in Entity, request[c].after < last[e]
               PROVE  [entity |-> e, cursor |-> last[e]] \in reply'[c].rows
    BY DEF Tells
  <2>3. row[e] = last[e] /\ e \in page
    BY <1>2, <1>3, <2>2, PageIsComplete
  <2> QED BY <1>2, <2>3
<1> QED BY <1>4, <1>5

\* A request that no sweep overlapped is told of every change behind its cursor.
THEOREM CalmAnswersAreComplete == Spec => CompleteWhenCalm
<1>1. Inv /\ [Next]_vars =>
        [\A c \in Client :
           Answered(c) /\ c \in calm /\ ~ torn =>
             /\ Tells(c, reply'[c].next)
             /\ Cardinality({x.entity : x \in reply'[c].rows}) < PageLimit
                   => Tells(c, request[c].seqRead)]_vars
  BY CompleteStep
<1> QED BY <1>1, Invariance, PTL DEF Spec, CompleteWhenCalm
=============================================================================
