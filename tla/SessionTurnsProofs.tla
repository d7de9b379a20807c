-------------------------- MODULE SessionTurnsProofs --------------------------
(***************************************************************************)
(* Theorems about SessionTurns, for any number of turns, runners, facts    *)
(* and losses, any times and any staleness window.                         *)
(***************************************************************************)
EXTENDS SessionTurns, TLAPS

-------------------------------------------------------------------------------
(* Types *)

LEMMA StatusOfAction ==
  ASSUME NEW a \in Action, NEW s \in Status
  PROVE  /\ StatusAfter(a, s) \in Status
         /\ a \in Ending \cup {"begin"} => StatusAfter(a, s) \in Status \ {"none"}
         /\ a \notin Ending \cup {"begin"} => StatusAfter(a, s) = s
BY DEF StatusAfter, Action, Status, Ending

\* A fact, or the mutation that an end of the session makes.
IsMutation(m) == m.action \in Action /\ m.turn \in TurnId \cup {0} /\ m.at \in Nat

LEMMA RowType ==
  ASSUME TypeOK, NEW m, IsMutation(m), NEW t \in TurnId
  PROVE  RowAfter(m, t) \in Row
<1>1. turn[t] \in Row /\ turn[t].status \in Status
  BY DEF TypeOK, Row
<1>2. StatusAfter(m.action, turn[t].status) \in Status
  BY <1>1, StatusOfAction DEF IsMutation
<1> QED BY <1>1, <1>2 DEF RowAfter, Row, IsMutation

LEMMA ProjectionType ==
  ASSUME NEW t \in TurnId \cup {0}, NEW table \in [TurnId -> Row]
  PROVE  Projection(t, table) \in [status : Status, at : Nat]
BY DEF Projection, Row, Status

\* What a decision of the server can do to the rows.
LEMMA ApplyType ==
  ASSUME TypeOK, NEW m, IsMutation(m), NEW evidence \in BOOLEAN, ApplyMutation(m, evidence)
  PROVE  /\ turn' \in [TurnId -> Row] /\ latest' \in TurnId \cup {0}
         /\ shown' \in [status : Status, at : Nat]
<1> DEFINE t == Requested(m)
<1>1. t \in TurnId \cup {0}
  BY DEF Requested, TypeOK, IsMutation
<1>2. CASE Accepts(m, t, evidence)
  <2>1. t \in TurnId
    BY <1>1, <1>2 DEF Accepts
  <2>2. /\ turn' = [turn EXCEPT ![t] = RowAfter(m, t)] /\ latest' = LatestAfter(m, t)
        /\ shown' = Projection(LatestAfter(m, t), turn')
    BY <1>2 DEF ApplyMutation
  <2>3. RowAfter(m, t) \in Row
    BY <2>1, RowType
  <2>4. turn' \in [TurnId -> Row]
    BY <2>2, <2>3 DEF TypeOK
  <2>5. LatestAfter(m, t) \in TurnId \cup {0}
    BY <2>1 DEF LatestAfter, TypeOK
  <2> QED BY <2>2, <2>4, <2>5, ProjectionType
<1>3. CASE ~Accepts(m, t, evidence)
  BY <1>3 DEF ApplyMutation, rows, TypeOK
<1> QED BY <1>2, <1>3

LEMMA FactIsMutation ==
  ASSUME TypeOK, NEW f \in issued
  PROVE  IsMutation(f) /\ f.n \in Nat /\ f.author \in Author
BY DEF TypeOK, Fact, IsMutation

LEMMA EndIsMutation ==
  ASSUME TypeOK, BoundsAreNatural, NEW f \in issued
  PROVE  EndTime(f) \in Nat /\ IsMutation(EndMutation(f))
<1>1. f.at \in Nat /\ clock \in Nat /\ Window \in Nat
  BY FactIsMutation DEF TypeOK, BoundsAreNatural, IsMutation
<1>2. EndTime(f) \in Nat
  BY <1>1 DEF EndTime
<1> QED BY <1>2 DEF EndMutation, IsMutation, Action

LEMMA NewType ==
  ASSUME TypeOK, NEW k \in Nat, NEW a \in Author, NEW x \in Action, NEW t \in TurnId \cup {0}
  PROVE  New(k, a, x, t) \in Fact
BY DEF New, Fact, TypeOK

LEMMA TellsType ==
  ASSUME TypeOK, NEW x \in Action, NEW t \in TurnId, Tells(x, t)
  PROVE  issued' \subseteq Fact /\ count' \in Nat
<1>1. New(1, "runner", x, t) \in Fact
  BY NewType DEF Author
<1> QED BY <1>1 DEF Tells, TypeOK

LEMMA TypeInit == BoundsAreNatural /\ Init => TypeOK
<1> SUFFICES ASSUME BoundsAreNatural, Init PROVE TypeOK
  OBVIOUS
<1>1. NoRow \in Row /\ shown \in [status : Status, at : Nat]
  BY DEF NoRow, Row, Status, Init
<1>2. turn \in [TurnId -> Row]
  BY <1>1 DEF Init
<1>3. 0 \in 0..MaxTurns
  BY DEF BoundsAreNatural
<1> QED BY <1>1, <1>2, <1>3 DEF Init, TypeOK

LEMMA TypeStep == BoundsAreNatural /\ TypeOK /\ [Next]_vars => TypeOK'
<1> SUFFICES ASSUME BoundsAreNatural, TypeOK, [Next]_vars PROVE TypeOK'
  OBVIOUS
<1> USE DEF runner, facts, rows
<1>1. CASE Tick
  BY <1>1 DEF Tick, TypeOK
<1>2. CASE Start
  BY <1>2 DEF Start, TypeOK
<1>3. CASE Begin
  <2>1. CASE open # 0 /\ Tells("begin", open) /\ UNCHANGED <<open, turns>>
    <3>1. open \in TurnId /\ "begin" \in Action
      BY <2>1 DEF TypeOK, Action
    <3> QED BY <2>1, <3>1, TellsType DEF Tells, TypeOK
  <2>2. CASE open = 0 /\ turns < MaxTurns /\ turns' = turns + 1 /\ open' = turns + 1 /\ Tells("begin", turns + 1)
    <3>1. turns + 1 \in TurnId /\ turns + 1 \in 0..MaxTurns /\ "begin" \in Action
      BY <2>2 DEF TypeOK, TurnId, Action, BoundsAreNatural
    <3> QED BY <2>2, <3>1, TellsType DEF Tells, TypeOK
  <2> QED BY <1>3, <2>1, <2>2 DEF Begin
<1>4. CASE EndTurn
  <2>1. PICK a \in {"complete", "fail", "cancel"} : Tells(a, open)
    BY <1>4 DEF EndTurn
  <2>2. open \in TurnId /\ a \in Action /\ open' = 0 /\ turns' = turns
    BY <1>4 DEF EndTurn, TypeOK, Action
  <2> QED BY <2>1, <2>2, TellsType DEF Tells, TypeOK
<1>5. CASE Note
  <2>1. PICK a \in Action, t \in TurnId : Tells(a, t)
    <3>1. 1..turns \subseteq TurnId
      BY DEF TypeOK, TurnId, BoundsAreNatural
    <3>2. {"touch_active", "annotate", "mark"} \subseteq Action
      BY DEF Action
    <3>3. \/ open # 0 /\ Tells("touch_active", open)
          \/ \E t \in 1..turns : Tells("annotate", t)
          \/ \E t \in 1..turns : t # open /\ Tells("mark", t)
      BY <1>5 DEF Note
    <3>4. open # 0 => open \in TurnId
      BY DEF TypeOK
    <3> QED BY <3>1, <3>2, <3>3, <3>4
  <2>2. open' = open /\ turns' = turns
    BY <1>5 DEF Note
  <2>3. issued' \subseteq Fact /\ count' \in Nat
    BY <2>1, TellsType
  <2> QED BY <2>1, <2>2, <2>3 DEF Tells, TypeOK
<1>6. CASE Crash
  BY <1>6 DEF Crash, Gone, TypeOK
<1>7. CASE Exit
  <2>1. /\ New(1, "runner", "session_end", 0) \in Fact /\ New(2, "runner", "session_end", 0) \in Fact
        /\ New(1, "runner", "cancel", open) \in Fact
    <3>1. open \in TurnId \cup {0} /\ 0 \in TurnId \cup {0}
      BY DEF TypeOK
    <3> QED BY <3>1, NewType DEF Author, Action
  <2>2. issued' \subseteq Fact /\ count' \in Nat
    BY <1>7, <2>1 DEF Exit, TypeOK
  <2> QED BY <1>7, <2>2 DEF Exit, Gone, TypeOK
<1>8. CASE Observe
  <2>1. /\ New(1, "daemon", "end_session", 0) \in Fact /\ New(2, "daemon", "session_end", 0) \in Fact
    BY NewType DEF Author, Action, TypeOK
  <2> QED BY <1>8, <2>1 DEF Observe, TypeOK
<1>9. CASE GiveUp
  <2>1. PICK f \in issued : lost' = lost \cup {g.n : g \in {h \in issued : Dependent(f, h) /\ h.n \notin receipts}}
    BY <1>9 DEF GiveUp
  <2>2. lost' \subseteq Nat
    BY <2>1, FactIsMutation DEF TypeOK
  <2> QED BY <1>9, <2>2 DEF GiveUp, TypeOK
<1>10. ASSUME NEW f \in issued, ApplyTurnMutation(f) PROVE TypeOK'
  <2>1. PICK evidence \in BOOLEAN : ApplyMutation(f, evidence)
    BY <1>10 DEF ApplyTurnMutation
  <2>2. /\ turn' \in [TurnId -> Row] /\ latest' \in TurnId \cup {0}
        /\ shown' \in [status : Status, at : Nat] /\ f.n \in Nat
    BY <2>1, ApplyType, FactIsMutation
  <2> QED BY <1>10, <2>2 DEF ApplyTurnMutation, TypeOK
<1>11. ASSUME NEW f \in issued, ApplySessionEnd(f) PROVE TypeOK'
  <2>1. EndTime(f) \in Nat /\ IsMutation(EndMutation(f)) /\ f.n \in Nat
    BY EndIsMutation, FactIsMutation
  <2>2. \/ ApplyMutation(EndMutation(f), FALSE) /\ endReceipts' = endReceipts \cup {EndTime(f)}
        \/ UNCHANGED <<rows, endReceipts>>
    BY <1>11 DEF ApplySessionEnd
  <2>3. /\ turn' \in [TurnId -> Row] /\ latest' \in TurnId \cup {0}
        /\ shown' \in [status : Status, at : Nat] /\ endReceipts' \subseteq Nat
    BY <2>1, <2>2, ApplyType DEF TypeOK
  <2> QED BY <1>11, <2>1, <2>3 DEF ApplySessionEnd, TypeOK
<1>12. CASE UNCHANGED vars
  BY <1>12 DEF vars, TypeOK
<1> QED BY <1>1, <1>2, <1>3, <1>4, <1>5, <1>6, <1>7, <1>8, <1>9, <1>10, <1>11, <1>12 DEF Next

\* Rows, facts and times keep their types; no status is anything but one of a turn's.
THEOREM TypeCorrect == Spec => []TypeOK
<1>1. Init => TypeOK
  BY TypeInit, BoundsAreNatural
<1>2. TypeOK /\ [Next]_vars => TypeOK'
  BY TypeStep, BoundsAreNatural
<1> QED BY <1>1, <1>2, PTL DEF Spec

-------------------------------------------------------------------------------
(* What is told.  A runner tells the end of a turn last of all it tells of   *)
(* that turn, of one turn after the other, and numbers say in which order.   *)

Ends == {"complete", "fail", "cancel"}
Lifecycle == Ends \cup {"begin", "touch_active"}

Numbered == \A f, g \in issued : f.n \in 1..count /\ (f.n = g.n => f = g)

\* What names a turn is told by a runner, of a turn there is.
OfATurn(f) ==
  /\ (f.turn = 0) <=> (f.action \in Turnless)
  /\ f.turn <= turns
  /\ f.turn # 0 \/ f.action = "end_session" => f.author = IF f.turn # 0 THEN "runner" ELSE "daemon"
FactsOfTurns == \A f \in issued : OfATurn(f)

OpenIsLast == open \in {0, turns} /\ (~alive => open = 0)
OpenGoesOn == open # 0 => \A f \in issued : f.turn = open => f.action \notin Ends
EndsAreLast ==
  \A f, g \in issued : f.action \in Ends /\ g.action \in Lifecycle /\ f.turn = g.turn => g.n <= f.n
TurnsInOrder ==
  \A f, g \in issued : f.action \in Lifecycle /\ g.action \in Lifecycle /\ f.turn < g.turn => f.n < g.n
Begun == \A t \in 1..turns : \E f \in issued : f.action = "begin" /\ f.turn = t

\* A runner starts later than the last one told of its end.
Death(f) == f.author = "runner" /\ f.action = "session_end"
DeathIsPast ==
  /\ alive => \A f \in issued : Death(f) => f.at < clock
  /\ open # 0 => \A f, g \in issued : Death(f) /\ g.turn = open => f.at < g.at

ToldInv ==
  /\ Numbered /\ FactsOfTurns /\ OpenIsLast /\ OpenGoesOn
  /\ EndsAreLast /\ TurnsInOrder /\ Begun /\ DeathIsPast

(* What the server shows follows what arrived. *)

Received(f) == f \in issued /\ f.n \in receipts
InOrder ==
  /\ receipts \subseteq 1..count
  /\ \A f, g \in issued : /\ f.n \in receipts /\ g.author = f.author /\ g.n < f.n
                          => g.n \in receipts \cup lost
RowsAreTold ==
  \A t \in TurnId : Exists(t) =>
    \E f \in issued : Received(f) /\ f.action = "begin" /\ f.turn = t /\ f.at = turn[t].startedAt
EndsAreTold ==
  \A t \in TurnId, a \in {"complete", "fail"} : turn[t].status = StatusAfter(a, "none") =>
    \E f \in issued : Received(f) /\ f.action = a /\ f.turn = t

\* Why a turn was cancelled: a runner told so, or an end arrived that was observed
\* when the turn is said to have ended, or one that was dated to its late arrival.
EndsInTime(f, t) == f.at = turn[t].terminalAt /\ f.at >= turn[t].startedAt
EndsLate(f, t) == f.at + Window < turn[t].terminalAt /\ turn[t].terminalAt \in endReceipts
Cancels(f, t) ==
  \/ f.action = "cancel" /\ f.turn = t
  \/ f.n \in receipts /\ f.action \in Turnless /\ EndsInTime(f, t)
  \/ f.n \in receipts /\ f.action = "session_end" /\ EndsLate(f, t)
CancelsAreTold == \A t \in TurnId : turn[t].status = "cancelled" => \E f \in issued : Cancels(f, t)

LatestIsThere == latest # 0 => Exists(latest)
BeginsAreShown == \A f \in issued : Received(f) /\ f.action = "begin" => Exists(f.turn) /\ latest >= f.turn
EndsAreShown ==
  \A f \in issued : Received(f) /\ f.action \in Ends =>
    turn[f.turn].status \in {"none", "cancelled", StatusAfter(f.action, "none")}
ShownIsLatest == shown = Projection(latest, turn)

ShownInv ==
  /\ InOrder /\ RowsAreTold /\ EndsAreTold /\ CancelsAreTold
  /\ LatestIsThere /\ BeginsAreShown /\ EndsAreShown /\ ShownIsLatest

-------------------------------------------------------------------------------
(* What is told keeps its order. *)

LEMMA Typed ==
  ASSUME TypeOK
  PROVE  /\ clock \in Nat /\ turns \in Nat /\ count \in Nat /\ issued \subseteq Fact
         /\ open \in TurnId \cup {0}
         /\ \A f \in issued : /\ f.n \in Nat /\ f.at \in Nat /\ f.turn \in Nat /\ f.turn \in TurnId \cup {0}
                              /\ f.action \in Action /\ f.author \in Author
BY DEF TypeOK, Fact, TurnId

\* New facts N with later numbers, at most one of them of the life of a turn,
\* which is the last one and not told to have ended.
Continues(N) ==
  /\ \A x \in N : x \in Fact /\ x.n > count /\ x.n <= count' /\ OfATurn(x)'
  /\ \A x, y \in N : x.n = y.n => x = y
  /\ \A x, y \in N : x.action \in Lifecycle /\ y.action \in Lifecycle => x = y
  /\ \A x \in N : x.action \in Lifecycle =>
       /\ x.turn = turns'
       /\ \A f \in issued : f.turn = x.turn => f.action \notin Ends

LEMMA Telling ==
  ASSUME TypeOK, ToldInv, NEW N, issued' = issued \cup N, Continues(N),
         count' \in Nat, count' >= count, turns' \in Nat, turns' >= turns,
         \A t \in 1..turns' : t <= turns \/ \E x \in N : x.action = "begin" /\ x.turn = t
  PROVE  Numbered' /\ FactsOfTurns' /\ EndsAreLast' /\ TurnsInOrder' /\ Begun'
<1>1. /\ \A f \in issued : f.n \in Nat /\ f.turn \in Nat
      /\ \A x \in N : x.n \in Nat /\ x.turn \in Nat /\ x.n > count /\ x.n <= count'
      /\ count \in Nat /\ turns \in Nat
  <2>1. \A x \in N : x.n \in Nat /\ x.turn \in Nat
    BY DEF Continues, Fact, TurnId
  <2> QED BY <2>1, Typed DEF Continues
<1>2. \A f \in issued : f.n <= count /\ f.n >= 1
  BY DEF ToldInv, Numbered
<1>3. Numbered'
  <2> SUFFICES ASSUME NEW f \in issued \cup N, NEW g \in issued \cup N
               PROVE  f.n \in 1..count' /\ (f.n = g.n => f = g)
    BY DEF Numbered
  <2>1. f.n \in 1..count'
    BY <1>1, <1>2
  <2>2. CASE f \in issued /\ g \in issued
    BY <2>1, <2>2 DEF ToldInv, Numbered
  <2>3. CASE f \in N /\ g \in N
    BY <2>1, <2>3 DEF Continues
  <2>4. CASE f \in issued /\ g \in N
    BY <2>1, <2>4, <1>1, <1>2
  <2>5. CASE f \in N /\ g \in issued
    BY <2>1, <2>5, <1>1, <1>2
  <2> QED BY <2>2, <2>3, <2>4, <2>5
<1>4. FactsOfTurns'
  <2> SUFFICES ASSUME NEW f \in issued PROVE OfATurn(f)'
    BY DEF FactsOfTurns, Continues
  <2>1. OfATurn(f)
    BY DEF ToldInv, FactsOfTurns
  <2> QED BY <2>1, <1>1 DEF OfATurn
<1>5. EndsAreLast'
  <2> SUFFICES ASSUME NEW f \in issued \cup N, NEW g \in issued \cup N,
                      f.action \in Ends, g.action \in Lifecycle, f.turn = g.turn
               PROVE  g.n <= f.n
    BY DEF EndsAreLast
  <2>1. f.action \in Lifecycle
    BY DEF Lifecycle
  <2>2. CASE f \in issued /\ g \in issued
    BY <2>2 DEF ToldInv, EndsAreLast
  <2>3. CASE f \in N /\ g \in N
    BY <2>1, <2>3, <1>1 DEF Continues
  <2>4. CASE f \in issued /\ g \in N
    BY <2>4 DEF Continues
  <2>5. CASE f \in N /\ g \in issued
    BY <2>5, <1>1, <1>2
  <2> QED BY <2>2, <2>3, <2>4, <2>5
<1>6. TurnsInOrder'
  <2> SUFFICES ASSUME NEW f \in issued \cup N, NEW g \in issued \cup N,
                      f.action \in Lifecycle, g.action \in Lifecycle, f.turn < g.turn
               PROVE  f.n < g.n
    BY DEF TurnsInOrder
  <2>1. CASE f \in issued /\ g \in issued
    BY <2>1 DEF ToldInv, TurnsInOrder
  <2>2. CASE f \in N /\ g \in N
    BY <2>2, <1>1 DEF Continues
  <2>3. CASE f \in issued /\ g \in N
    BY <2>3, <1>1, <1>2
  <2>4. CASE f \in N /\ g \in issued
    <3>1. g.turn <= turns /\ f.turn = turns'
      BY <2>4 DEF ToldInv, FactsOfTurns, OfATurn, Continues
    <3> QED BY <3>1, <2>4, <1>1
  <2> QED BY <2>1, <2>2, <2>3, <2>4
<1>7. Begun'
  <2> SUFFICES ASSUME NEW t \in 1..turns'
               PROVE  \E f \in issued \cup N : f.action = "begin" /\ f.turn = t
    BY DEF Begun
  <2>1. CASE t <= turns
    <3>1. t \in 1..turns
      BY <2>1, <1>1
    <3> QED BY <3>1 DEF ToldInv, Begun
  <2>2. CASE ~(t <= turns)
    BY <2>2
  <2> QED BY <2>1, <2>2
<1> QED BY <1>3, <1>4, <1>5, <1>6, <1>7

LEMMA ToldInit == Init => ToldInv
BY DEF Init, ToldInv, Numbered, FactsOfTurns, OpenIsLast, OpenGoesOn, EndsAreLast, TurnsInOrder,
       Begun, DeathIsPast

LEMMA OneFact ==
  ASSUME TypeOK, ToldInv, NEW a \in Action \ Turnless, NEW t \in TurnId, Tells(a, t), alive,
         turns' \in Nat, turns' >= turns, t <= turns',
         \A u \in 1..turns' : u <= turns \/ (u = t /\ a = "begin"),
         a \in Lifecycle => t = turns' /\ \A f \in issued : f.turn = t => f.action \notin Ends,
         open' # 0 => open' = open \/ \A f \in issued : f.turn # open'
  PROVE  Numbered' /\ FactsOfTurns' /\ EndsAreLast' /\ TurnsInOrder' /\ Begun' /\ DeathIsPast'
<1>0. PICK x : x = New(1, "runner", a, t)
  OBVIOUS
<1>1. /\ x.n = count + 1 /\ x.author = "runner" /\ x.action = a /\ x.turn = t /\ x.at = clock
      /\ issued' = issued \cup {x} /\ count' = count + 1 /\ clock' = clock /\ alive' = alive
  BY <1>0 DEF New, Tells
<1>2. x \in Fact
  BY <1>0, NewType DEF Author
<1>3. t \in Nat /\ t # 0 /\ a # "end_session" /\ a # "session_end" /\ count \in Nat /\ clock \in Nat
  BY Typed DEF Turnless, TurnId
<1>4. OfATurn(x)'
  BY <1>1, <1>3 DEF OfATurn, Turnless
<1>5. Continues({x})
  BY <1>1, <1>2, <1>3, <1>4 DEF Continues
<1>6. Numbered' /\ FactsOfTurns' /\ EndsAreLast' /\ TurnsInOrder' /\ Begun'
  <2>1. \A u \in 1..turns' : u <= turns \/ \E y \in {x} : y.action = "begin" /\ y.turn = u
    BY <1>1
  <2> QED BY <1>1, <1>3, <1>5, <2>1, Telling
<1>7. DeathIsPast'
  <2>1. \A f \in issued' : Death(f) => f \in issued /\ f.at < clock
    BY <1>1, <1>3 DEF Death, ToldInv, DeathIsPast
  <2>2. ASSUME NEW f \in issued', NEW g \in issued', Death(f), g.turn = open', open' # 0
        PROVE  f.at < g.at
    <3>1. CASE g = x
      BY <3>1, <2>1, <2>2, <1>1
    <3>2. CASE g \in issued
      BY <3>2, <2>1, <2>2 DEF ToldInv, DeathIsPast
    <3> QED BY <3>1, <3>2, <1>1
  <2> QED BY <2>1, <2>2, <1>1 DEF DeathIsPast, Death
<1> QED BY <1>6, <1>7

\* The end of a process: its own farewell, or what the daemon observes of it.
LEMMA Farewell ==
  ASSUME TypeOK, ToldInv, NEW N, N \subseteq Fact, issued' = issued \cup N,
         turns' = turns, open' \in {0, open},
         \/ /\ N = {New(1, "runner", "session_end", 0)} /\ count' = count + 1
         \/ /\ open # 0 /\ count' = count + 2
            /\ N = {New(1, "runner", "cancel", open), New(2, "runner", "session_end", 0)}
         \/ /\ N = {New(1, "daemon", "end_session", 0)} /\ count' = count + 1
         \/ /\ count' = count + 2
            /\ N = {New(1, "daemon", "end_session", 0), New(2, "daemon", "session_end", 0)}
  PROVE  Numbered' /\ FactsOfTurns' /\ EndsAreLast' /\ TurnsInOrder' /\ Begun'
<1>1. count \in Nat /\ turns \in Nat /\ open \in Nat
  BY Typed DEF TurnId
<1>2. open # 0 => open = turns /\ \A f \in issued : f.turn = open => f.action \notin Ends
  BY DEF ToldInv, OpenIsLast, OpenGoesOn
<1>3. Continues(N)
  <2>1. \A x \in N : x.n > count /\ x.n <= count' /\ OfATurn(x)'
    BY <1>1, <1>2 DEF New, OfATurn, Turnless
  <2>2. \A x, y \in N : x.n = y.n => x = y
    BY <1>1 DEF New
  <2>3. \A x \in N : x.action \in Lifecycle => x.turn = open /\ x.n = count + 1 /\ open # 0
    BY <1>1 DEF New, Lifecycle, Ends
  <2>4. \A x, y \in N : x.action \in Lifecycle /\ y.action \in Lifecycle => x = y
    BY <2>2, <2>3
  <2> QED BY <1>2, <2>1, <2>2, <2>3, <2>4 DEF Continues
<1>4. \A t \in 1..turns' : t <= turns \/ \E x \in N : x.action = "begin" /\ x.turn = t
  BY <1>1
<1> QED BY <1>1, <1>3, <1>4, Telling

LEMMA ToldStep == BoundsAreNatural /\ TypeOK /\ ToldInv /\ [Next]_vars => ToldInv'
<1> SUFFICES ASSUME BoundsAreNatural, TypeOK, ToldInv, [Next]_vars PROVE ToldInv'
  OBVIOUS
<1>0. /\ clock \in Nat /\ turns \in Nat /\ open \in Nat /\ MaxTurns \in Nat /\ turns <= MaxTurns
      /\ open \in TurnId \cup {0} /\ TurnId = 1..MaxTurns
  BY DEF TypeOK, TurnId, BoundsAreNatural
<1>a. /\ open \in {0, turns} /\ (~alive => open = 0)
      /\ (open # 0 => \A f \in issued : f.turn = open => f.action \notin Ends)
      /\ \A f \in issued : f.turn <= turns /\ f.at \in Nat
  BY Typed DEF ToldInv, OpenIsLast, OpenGoesOn, FactsOfTurns, OfATurn
\* Steps that tell nothing.
<1>1. ASSUME UNCHANGED <<turns, facts>>, open' \in {0, open}, alive' => alive, clock' >= clock, clock' \in Nat,
             open' # 0 => alive'
      PROVE  ToldInv'
  <2>1. Numbered' /\ EndsAreLast' /\ TurnsInOrder' /\ Begun' /\ FactsOfTurns'
    BY <1>1 DEF ToldInv, Numbered, EndsAreLast, TurnsInOrder, Begun, FactsOfTurns, OfATurn, facts
  <2>2. OpenIsLast' /\ OpenGoesOn'
    BY <1>1 DEF ToldInv, OpenIsLast, OpenGoesOn, facts
  <2>3. DeathIsPast'
    <3>1. \A f \in issued : Death(f) => (alive => f.at < clock)
      BY DEF ToldInv, DeathIsPast
    <3> QED BY <1>1, <1>0, <1>a, <3>1 DEF ToldInv, DeathIsPast, Death, facts
  <2> QED BY <2>1, <2>2, <2>3 DEF ToldInv
<1>2. CASE Tick
  BY <1>2, <1>1, <1>0, <1>a DEF Tick, runner
<1>3. CASE Start
  <2>1. Numbered' /\ EndsAreLast' /\ TurnsInOrder' /\ Begun' /\ FactsOfTurns'
    BY <1>3 DEF Start, ToldInv, Numbered, EndsAreLast, TurnsInOrder, Begun, FactsOfTurns, OfATurn, facts
  <2>2. OpenIsLast' /\ OpenGoesOn'
    BY <1>3, <1>a DEF Start, OpenIsLast, OpenGoesOn, facts
  <2>3. DeathIsPast'
    BY <1>3, <1>a DEF Start, DeathIsPast, Death, facts
  <2> QED BY <2>1, <2>2, <2>3 DEF ToldInv
<1>4. CASE Begin
  <2>0. alive /\ "begin" \in Action \ Turnless
    BY <1>4 DEF Begin, MayTell, Action, Turnless
  <2>1. CASE open # 0 /\ Tells("begin", open) /\ UNCHANGED <<open, turns>>
    <3>1. open = turns /\ open \in TurnId
      BY <2>1, <1>0, <1>a
    <3>2. Numbered' /\ FactsOfTurns' /\ EndsAreLast' /\ TurnsInOrder' /\ Begun' /\ DeathIsPast'
      BY <2>0, <2>1, <3>1, <1>0, <1>a, OneFact
    <3>3. OpenIsLast' /\ OpenGoesOn'
      BY <2>0, <2>1, <1>a DEF Tells, OpenIsLast, OpenGoesOn, New, Ends
    <3> QED BY <3>2, <3>3 DEF ToldInv
  <2>2. CASE open = 0 /\ turns < MaxTurns /\ turns' = turns + 1 /\ open' = turns + 1 /\ Tells("begin", turns + 1)
    <3>1. turns + 1 \in TurnId /\ turns' \in Nat /\ turns' >= turns
      BY <2>2, <1>0
    <3>2. \A f \in issued : f.turn # turns + 1
      BY Typed, <1>a
    <3>3. \A u \in 1..turns' : u <= turns \/ u = turns + 1
      BY <2>2, <1>0
    <3>4. Numbered' /\ FactsOfTurns' /\ EndsAreLast' /\ TurnsInOrder' /\ Begun' /\ DeathIsPast'
      BY <2>0, <2>2, <3>1, <3>2, <3>3, <1>0, OneFact
    <3>5. OpenIsLast' /\ OpenGoesOn'
      BY <2>0, <2>2, <3>2 DEF Tells, OpenIsLast, OpenGoesOn, New, Ends
    <3> QED BY <3>4, <3>5 DEF ToldInv
  <2> QED BY <1>4, <2>1, <2>2 DEF Begin
<1>5. CASE EndTurn
  <2>1. PICK a \in {"complete", "fail", "cancel"} : Tells(a, open)
    BY <1>5 DEF EndTurn
  <2>2. /\ alive /\ open # 0 /\ open = turns /\ open \in TurnId /\ open' = 0 /\ turns' = turns
        /\ a \in Action \ Turnless
    BY <1>5, <1>0, <1>a DEF EndTurn, MayTell, Action, Turnless
  <2>3. Numbered' /\ FactsOfTurns' /\ EndsAreLast' /\ TurnsInOrder' /\ Begun' /\ DeathIsPast'
    BY <2>1, <2>2, <1>0, <1>a, OneFact
  <2> QED BY <2>2, <2>3 DEF ToldInv, OpenIsLast, OpenGoesOn
<1>6. CASE Note
  <2>0. alive /\ open' = open /\ turns' = turns
    BY <1>6 DEF Note, MayTell
  <2>1. PICK a \in {"touch_active", "annotate", "mark"}, t \in TurnId :
          Tells(a, t) /\ t <= turns /\ (a = "touch_active" => t = open /\ open # 0)
    <3>1. \/ open # 0 /\ Tells("touch_active", open)
          \/ \E t \in 1..turns : Tells("annotate", t)
          \/ \E t \in 1..turns : t # open /\ Tells("mark", t)
      BY <1>6 DEF Note
    <3>2. \A t \in 1..turns : t \in TurnId /\ t <= turns
      BY <1>0
    <3>3. open # 0 => open \in TurnId /\ open <= turns
      BY <1>0, <1>a
    <3> QED BY <3>1, <3>2, <3>3
  <2>2. /\ a \in Action \ Turnless /\ a \notin Ends
        /\ (a \in Lifecycle => t = turns' /\ t = open /\ open # 0)
    BY <2>0, <2>1, <1>a DEF Action, Turnless, Lifecycle, Ends
  <2>3. Numbered' /\ FactsOfTurns' /\ EndsAreLast' /\ TurnsInOrder' /\ Begun' /\ DeathIsPast'
    BY <2>0, <2>1, <2>2, <1>0, <1>a, OneFact
  <2>4. OpenIsLast' /\ OpenGoesOn'
    BY <2>0, <2>1, <2>2, <1>a DEF Tells, OpenIsLast, OpenGoesOn, New
  <2> QED BY <2>3, <2>4 DEF ToldInv
<1>7. CASE Crash
  BY <1>7, <1>1, <1>0 DEF Crash, Gone
<1>8. CASE Exit
  <2>1. open' = 0 /\ ~alive' /\ turns' = turns
    BY <1>8 DEF Exit, Gone
  <2>2. /\ New(1, "runner", "session_end", 0) \in Fact /\ New(2, "runner", "session_end", 0) \in Fact
        /\ New(1, "runner", "cancel", open) \in Fact
    BY <1>0, NewType DEF Author, Action
  <2>3. Numbered' /\ FactsOfTurns' /\ EndsAreLast' /\ TurnsInOrder' /\ Begun'
    <3>1. CASE /\ open = 0 /\ count' = count + 1
               /\ issued' = issued \cup {New(1, "runner", "session_end", 0)}
      BY <3>1, <2>1, <2>2, Farewell
    <3>2. CASE /\ open # 0 /\ count' = count + 2
               /\ issued' = issued \cup {New(1, "runner", "cancel", open), New(2, "runner", "session_end", 0)}
      BY <3>2, <2>1, <2>2, Farewell
    <3> QED BY <1>8, <3>1, <3>2 DEF Exit
  <2> QED BY <2>1, <2>3 DEF ToldInv, OpenIsLast, OpenGoesOn, DeathIsPast
<1>9. CASE Observe
  <2>1. UNCHANGED <<alive, open, turns, clock>>
    BY <1>9 DEF Observe, runner
  <2>2. PICK N : /\ issued' = issued \cup N
                 /\ \/ /\ N = {New(1, "daemon", "end_session", 0)} /\ count' = count + 1
                    \/ /\ count' = count + 2
                       /\ N = {New(1, "daemon", "end_session", 0), New(2, "daemon", "session_end", 0)}
    BY <1>9 DEF Observe
  <2>3. /\ New(1, "daemon", "end_session", 0) \in Fact /\ New(2, "daemon", "session_end", 0) \in Fact
    BY NewType DEF Author, Action
  <2>4. N \subseteq Fact /\ \A x \in N : x.turn = 0 /\ x.author = "daemon"
    BY <2>2, <2>3 DEF New
  <2>5. Numbered' /\ FactsOfTurns' /\ EndsAreLast' /\ TurnsInOrder' /\ Begun'
    BY <2>1, <2>2, <2>4, Farewell
  <2>6. OpenIsLast' /\ OpenGoesOn'
    BY <2>1, <2>2, <2>4, <1>a DEF OpenIsLast, OpenGoesOn
  <2>7. DeathIsPast'
    BY <2>1, <2>2, <2>4 DEF ToldInv, DeathIsPast, Death
  <2> QED BY <2>5, <2>6, <2>7 DEF ToldInv
<1>10. CASE GiveUp
  BY <1>10, <1>1, <1>0, <1>a DEF GiveUp, runner
<1>11. ASSUME NEW f \in issued, ApplyTurnMutation(f) \/ ApplySessionEnd(f) PROVE ToldInv'
  <2>1. UNCHANGED <<clock, runner, facts>>
    BY <1>11 DEF ApplyTurnMutation, ApplySessionEnd
  <2> QED BY <2>1, <1>1, <1>0, <1>a DEF runner
<1>12. CASE UNCHANGED vars
  BY <1>12, <1>1, <1>0, <1>a DEF vars, runner
<1> QED BY <1>2, <1>3, <1>4, <1>5, <1>6, <1>7, <1>8, <1>9, <1>10, <1>11, <1>12 DEF Next

-------------------------------------------------------------------------------
(* What the server shows follows what arrived. *)

LEMMA ShownInit == BoundsAreNatural /\ Init => ShownInv
<1> SUFFICES ASSUME BoundsAreNatural, Init PROVE ShownInv
  OBVIOUS
<1>1. \A t \in TurnId : turn[t].status = "none"
  BY DEF Init, NoRow
<1> QED BY <1>1 DEF Init, ShownInv, InOrder, RowsAreTold, EndsAreTold, CancelsAreTold, LatestIsThere,
             BeginsAreShown, EndsAreShown, ShownIsLatest, Exists, Projection, Received, StatusAfter

\* Whatever is told, given up, or changes on the machine leaves it so.
LEMMA ShownKept ==
  ASSUME TypeOK, BoundsAreNatural, ShownInv, UNCHANGED <<rows, receipts, endReceipts>>,
         issued \subseteq issued', \A x \in issued' \ issued : x.n > count /\ x.n \in Nat,
         count' \in Nat, count' >= count, lost \subseteq lost',
         clock' \in Nat, clock' >= clock
  PROVE  ShownInv'
<1>1. count \in Nat /\ clock \in Nat /\ Window \in Nat /\ receipts \subseteq 1..count
  BY DEF TypeOK, BoundsAreNatural, ShownInv, InOrder
<1>2. \A f \in issued' : f.n \in receipts => f \in issued
  BY <1>1
<1>3. InOrder'
  <2> SUFFICES ASSUME NEW f \in issued', NEW g \in issued', f.n \in receipts,
                      g.author = f.author, g.n < f.n
               PROVE  g.n \in receipts \cup lost'
    BY <1>1 DEF InOrder
  <2>0. f.n \in Nat /\ f.n <= count
    <3>1. f.n \in 1..count
      BY <1>1
    <3> QED BY ONLY <3>1, <1>1
  <2>1. f \in issued /\ g \in issued
    <3>1. CASE g \in issued
      BY <3>1, <1>2
    <3>2. CASE g \in issued' \ issued
      BY <3>2, <2>0, <1>1
    <3> QED BY <3>1, <3>2
  <2> QED BY <2>1 DEF ShownInv, InOrder
<1>4. RowsAreTold' /\ EndsAreTold'
  BY DEF ShownInv, RowsAreTold, EndsAreTold, Exists, Received, rows
<1>5. CancelsAreTold'
  <2> SUFFICES ASSUME NEW t \in TurnId, turn[t].status = "cancelled"
               PROVE  \E f \in issued' : Cancels(f, t)'
    BY DEF CancelsAreTold, rows
  <2>1. PICK f \in issued : Cancels(f, t)
    BY DEF ShownInv, CancelsAreTold
  <2> QED BY <2>1 DEF Cancels, EndsInTime, EndsLate, rows
<1>6. LatestIsThere' /\ BeginsAreShown' /\ EndsAreShown' /\ ShownIsLatest'
  BY <1>2 DEF ShownInv, LatestIsThere, BeginsAreShown, EndsAreShown, ShownIsLatest, Exists, Received,
              rows, Projection
<1> QED BY <1>3, <1>4, <1>5, <1>6 DEF ShownInv

\* What arrives was told after all that arrived of its author.
LEMMA NothingOvertakes ==
  ASSUME TypeOK, ToldInv, ShownInv, NEW f \in issued, Arrives(f), f.n \notin receipts,
         NEW g \in issued, Received(g), g.author = f.author
  PROVE  g.n < f.n
<1>1. f.n \in Nat /\ g.n \in Nat
  BY Typed
<1>2. ~(f.n < g.n)
  BY DEF ShownInv, InOrder, Received, Arrives
<1>3. g.n # f.n
  BY DEF Received
<1> QED BY <1>1, <1>2, <1>3

LEMMA ByRunner ==
  ASSUME TypeOK, ToldInv, NEW f \in issued, f.action \notin Turnless
  PROVE  f.turn \in TurnId /\ f.turn # 0 /\ f.author = "runner"
BY Typed DEF ToldInv, FactsOfTurns, OfATurn

\* The life of a turn arrives before its end, and a turn before the next.
LEMMA LifeArrivesInOrder ==
  ASSUME TypeOK, ToldInv, ShownInv, NEW f \in issued, Arrives(f), f.n \notin receipts,
         f.action \in Lifecycle
  PROVE  /\ f.turn \in TurnId
         /\ \A g \in issued : Received(g) /\ g.action \in Ends => g.turn # f.turn
         /\ turn[f.turn].status \notin {"failed", "completed"}
         /\ latest <= f.turn
<1>1. f.action \notin Turnless /\ f.turn \in TurnId /\ f.author = "runner"
  <2>1. f.action \notin Turnless
    BY DEF Lifecycle, Ends, Turnless
  <2> QED BY <2>1, ByRunner
<1>2. f.n \in Nat /\ f.turn \in Nat /\ latest \in Nat /\ latest \in TurnId \cup {0}
  BY Typed DEF TypeOK, TurnId
<1>3. ASSUME NEW g \in issued, Received(g), g.action \in Ends, g.turn = f.turn PROVE FALSE
  <2>1. g.action \notin Turnless /\ g.n \in Nat
    BY <1>3, Typed DEF Ends, Turnless
  <2>2. g.n < f.n
    BY <1>1, <1>3, <2>1, ByRunner, NothingOvertakes
  <2>3. f.n <= g.n
    BY <1>3 DEF ToldInv, EndsAreLast
  <2> QED BY <2>1, <2>2, <2>3, <1>2
<1>4. turn[f.turn].status \notin {"failed", "completed"}
  <2>1. StatusAfter("fail", "none") = "failed" /\ StatusAfter("complete", "none") = "completed"
    BY DEF StatusAfter
  <2>2. \A a \in {"complete", "fail"} : a \in Ends
    BY DEF Ends
  <2> QED BY <1>1, <1>3, <2>1, <2>2 DEF ShownInv, EndsAreTold
<1>5. latest <= f.turn
  <2> SUFFICES ASSUME ~(latest <= f.turn) PROVE FALSE
    OBVIOUS
  <2>1. latest \in TurnId /\ Exists(latest) /\ f.turn < latest
    BY <1>2 DEF ShownInv, LatestIsThere
  <2>2. PICK g \in issued : Received(g) /\ g.action = "begin" /\ g.turn = latest
    BY <2>1 DEF ShownInv, RowsAreTold
  <2>3. g.action \notin Turnless /\ g.action \in Lifecycle /\ g.n \in Nat
    BY <2>2, Typed DEF Turnless, Lifecycle
  <2>4. g.n < f.n
    BY <2>2, <2>3, <1>1, ByRunner, NothingOvertakes
  <2>5. f.n < g.n
    BY <2>1, <2>2, <2>3 DEF ToldInv, TurnsInOrder
  <2> QED BY <2>3, <2>4, <2>5, <1>2
<1> QED BY <1>1, <1>3, <1>4, <1>5

-------------------------------------------------------------------------------
(* A decision of the server. *)

\* m is what the server makes of the arriving f.
Decides(f, m) ==
  \/ m = f /\ f.action # "session_end" /\ f.n \notin receipts
  \/ m = EndMutation(f) /\ f.action = "session_end"

LEMMA DecidesType ==
  ASSUME TypeOK, BoundsAreNatural, NEW f \in issued, NEW m, Decides(f, m)
  PROVE  /\ IsMutation(m) /\ m.action \in Action \ {"session_end"} /\ Requested(m) \in TurnId \cup {0}
         /\ m.action \in Lifecycle \cup {"annotate", "mark"} => m = f /\ f.n \notin receipts
<1>1. CASE m = f /\ f.action # "session_end" /\ f.n \notin receipts
  <2>1. IsMutation(f)
    BY FactIsMutation
  <2> QED BY <1>1, <2>1 DEF IsMutation, Requested, TypeOK
<1>2. CASE m = EndMutation(f) /\ f.action = "session_end"
  <2>1. IsMutation(EndMutation(f))
    BY EndIsMutation
  <2> QED BY <1>2, <2>1 DEF EndMutation, IsMutation, Requested, TypeOK, Lifecycle, Ends
<1> QED BY <1>1, <1>2 DEF Decides

\* What an accepted mutation does to the row of its turn and to the pointer.
Outcome(f, m, t) ==
  /\ t \in TurnId /\ latest' \in TurnId /\ latest' \in {latest, t} /\ latest' >= latest
  /\ m.action \in Lifecycle => t = f.turn /\ latest' = t
  /\ turn'[t].status = StatusAfter(m.action, turn[t].status)
  /\ turn'[t].startedAt = IF Exists(t) THEN turn[t].startedAt ELSE m.at
  /\ Ended(t) => m.action \in {"annotate", "mark"} /\ turn'[t].terminalAt = turn[t].terminalAt
  /\ ~Exists(t) => m.action = "begin"
  /\ m.action = "end_session" =>
       InProgress(t) /\ turn[t].startedAt <= m.at /\ turn'[t].terminalAt = m.at
  /\ \A u \in TurnId : u # t => turn'[u] = turn[u]

LEMMA Accepted ==
  ASSUME TypeOK, BoundsAreNatural, ToldInv, ShownInv, NEW f \in issued, NEW m, Decides(f, m), Arrives(f),
         NEW evidence, NEW t, t = Requested(m), Accepts(m, t, evidence),
         turn' = [turn EXCEPT ![t] = RowAfter(m, t)], latest' = LatestAfter(m, t)
  PROVE  Outcome(f, m, t)
<1>1. /\ m.action \in Action \ {"session_end"} /\ t \in TurnId
      /\ (m.action \in Lifecycle \cup {"annotate", "mark"} => m = f /\ f.n \notin receipts)
  BY DecidesType DEF Accepts
<1>2. /\ turn \in [TurnId -> Row] /\ latest \in TurnId \cup {0} /\ latest \in Nat /\ t \in Nat
      /\ turn[t].status \in Status /\ t # 0
  BY <1>1 DEF TypeOK, Row, TurnId
<1>3. ASSUME m.action \in Lifecycle
      PROVE  t = f.turn /\ turn[t].status \notin {"failed", "completed"} /\ latest <= t
  <2>1. m = f /\ f.action \in Lifecycle /\ f.n \notin receipts
    BY <1>1, <1>3
  <2>2. f.action \notin Turnless
    BY <2>1 DEF Lifecycle, Ends, Turnless
  <2>3. t = f.turn
    BY <2>1, <2>2, ByRunner DEF Requested
  <2> QED BY <2>1, <2>3, LifeArrivesInOrder
<1>4. m.action \in Lifecycle \cup {"annotate", "mark", "end_session"}
  BY <1>1 DEF Action, Lifecycle, Ends
<1>5. Ended(t) => m.action \in {"annotate", "mark"}
  <2>1. ASSUME m.action \in Lifecycle, Ended(t) PROVE FALSE
    <3>1. turn[t].status = "cancelled"
      BY <2>1, <1>3 DEF Ended, Terminal
    <3>2. ~Recovers(m, t, evidence) /\ ~InProgress(t)
      BY <3>1 DEF Recovers, InProgress
    <3> QED BY <2>1, <3>2 DEF Accepts, Lifecycle, Ends, Ending
  <2>2. ASSUME m.action = "end_session", Ended(t) PROVE FALSE
    BY <2>2 DEF Accepts, InProgress, Ended, Terminal
  <2> QED BY <2>1, <2>2, <1>4
<1>6. ~Exists(t) => m.action = "begin"
  BY <1>2, <1>4 DEF Accepts, Exists, InProgress, Recovers, Lifecycle, Ends, Ending
<1>7. m.action = "end_session" => InProgress(t) /\ turn[t].startedAt <= m.at
  BY DEF Accepts
<1>8. latest' \in {latest, t} /\ latest' >= latest /\ (m.action \in Lifecycle => latest' = t) /\ latest' \in TurnId
  <2>1. CASE m.action \in Lifecycle
    <3>1. LatestAfter(m, t) = t
      BY <2>1 DEF LatestAfter, Lifecycle, Ends
    <3> QED BY <2>1, <3>1, <1>1, <1>2, <1>3
  <2>2. CASE m.action \notin Lifecycle
    <3>1. LatestAfter(m, t) = IF latest = 0 THEN t ELSE latest
      BY <2>2 DEF LatestAfter, Lifecycle, Ends
    <3> QED BY <2>2, <3>1, <1>1, <1>2
  <2> QED BY <2>1, <2>2
<1>9. /\ turn'[t] = RowAfter(m, t)
      /\ \A u \in TurnId : u # t => turn'[u] = turn[u]
  BY <1>1, <1>2
<1>10. turn'[t].startedAt = IF Exists(t) THEN turn[t].startedAt ELSE m.at
  <2>1. ~(m.action = "begin" /\ Ended(t))
    BY <1>5
  <2> QED BY <1>9, <2>1 DEF RowAfter
<1>11. turn'[t].status = StatusAfter(m.action, turn[t].status)
  BY <1>9 DEF RowAfter
<1>12. /\ Ended(t) => turn'[t].terminalAt = turn[t].terminalAt
       /\ m.action = "end_session" => turn'[t].terminalAt = m.at
  BY <1>5, <1>9 DEF RowAfter, Ending
<1> QED BY <1>1, <1>3, <1>5, <1>6, <1>7, <1>8, <1>9, <1>10, <1>11, <1>12 DEF Outcome

\* The receipts of ends of session only grow; a decision m of such an end has one.
Receipted(f, m) ==
  endReceipts \subseteq endReceipts' /\ (f.action = "session_end" => m.at \in endReceipts')

\* The parts of ShownInv that only speak of the facts that arrived.
LEMMA ArrivalInOrder ==
  ASSUME TypeOK, ToldInv, ShownInv, NEW f \in issued, Arrives(f), receipts' = receipts \cup {f.n},
         UNCHANGED <<facts, lost>>
  PROVE  InOrder' /\ \A g \in issued : g.n \in receipts' => g.n \in receipts \/ g = f
BY DEF ToldInv, Numbered, ShownInv, InOrder, Arrives, facts

LEMMA AcceptedShown ==
  ASSUME TypeOK, BoundsAreNatural, ToldInv, ShownInv, NEW f \in issued, NEW m, Decides(f, m), Arrives(f),
         NEW evidence, NEW t, t = Requested(m), Accepts(m, t, evidence),
         turn' = [turn EXCEPT ![t] = RowAfter(m, t)], latest' = LatestAfter(m, t),
         shown' = Projection(LatestAfter(m, t), turn'),
         receipts' = receipts \cup {f.n}, UNCHANGED <<clock, facts, lost>>, Receipted(f, m)
  PROVE  /\ ShownInv' /\ latest' >= latest
         /\ \A u \in TurnId : turn[u].status \in Terminal => turn'[u].status = turn[u].status
<1>1. /\ t \in TurnId /\ latest' \in TurnId /\ latest' \in {latest, t} /\ latest' >= latest
      /\ m.action \in Lifecycle => t = f.turn /\ latest' = t
      /\ turn'[t].status = StatusAfter(m.action, turn[t].status)
      /\ turn'[t].startedAt = IF Exists(t) THEN turn[t].startedAt ELSE m.at
      /\ Ended(t) => m.action \in {"annotate", "mark"} /\ turn'[t].terminalAt = turn[t].terminalAt
      /\ ~Exists(t) => m.action = "begin"
      /\ m.action = "end_session" =>
           InProgress(t) /\ turn[t].startedAt <= m.at /\ turn'[t].terminalAt = m.at
      /\ \A u \in TurnId : u # t => turn'[u] = turn[u]
  <2>1. Outcome(f, m, t)
    BY Accepted
  <2> QED BY <2>1 DEF Outcome
<1>2. /\ m.action \in Lifecycle \cup {"annotate", "mark", "end_session"}
      /\ m.action \in Lifecycle \cup {"annotate", "mark"} => m = f /\ f.n \notin receipts
  <2>1. m.action \in Action \ {"session_end"}
    BY DecidesType
  <2> QED BY <2>1, DecidesType DEF Action, Lifecycle, Ends
<1>3. /\ t \in Nat /\ t # 0 /\ latest \in Nat /\ clock \in Nat /\ Window \in Nat
      /\ turn[t].status \in Status /\ turn[t].startedAt \in Nat
  <2>1. t \in TurnId
    BY <1>1
  <2>2. turn[t] \in Row
    BY <2>1 DEF TypeOK
  <2>3. turn[t].status \in Status /\ turn[t].startedAt \in Nat
    BY <2>2 DEF Row
  <2>4. t \in Nat /\ t # 0
    BY <2>1 DEF TurnId
  <2>5. latest \in Nat /\ clock \in Nat /\ Window \in Nat
    BY DEF TypeOK, BoundsAreNatural, TurnId
  <2> QED BY <2>3, <2>4, <2>5
<1>4. InOrder' /\ \A g \in issued : g.n \in receipts' => g.n \in receipts \/ g = f
  BY ArrivalInOrder
<1>5. \A u \in TurnId : turn[u].status \in Terminal =>
        turn'[u].status = turn[u].status /\ turn'[u].startedAt = turn[u].startedAt
  <2> SUFFICES ASSUME turn[t].status \in Terminal
               PROVE  turn'[t].status = turn[t].status /\ turn'[t].startedAt = turn[t].startedAt
    BY <1>1
  <2>1. Ended(t) /\ Exists(t)
    BY <1>3 DEF Ended, Exists, Terminal
  <2>2. StatusAfter(m.action, turn[t].status) = turn[t].status
    BY <2>1, <1>1 DEF StatusAfter
  <2> QED BY <2>1, <2>2, <1>1
<1>6. \A u \in TurnId : Exists(u) => Exists(u)' /\ turn'[u].startedAt = turn[u].startedAt
  <2> SUFFICES ASSUME Exists(t) PROVE turn'[t].status # "none" /\ turn'[t].startedAt = turn[t].startedAt
    BY <1>1 DEF Exists
  <2>1. turn[t].status # "none"
    BY DEF Exists
  <2> QED BY <2>1, <1>1, <1>2 DEF StatusAfter, Lifecycle, Ends
<1>7. Exists(t)' /\ (m.action = "begin" => m = f /\ t = f.turn)
  <2>1. CASE Exists(t)
    BY <2>1, <1>6, <1>1, <1>2 DEF Lifecycle
  <2>2. CASE ~Exists(t)
    BY <2>2, <1>1, <1>2, <1>3 DEF Exists, StatusAfter, Lifecycle
  <2> QED BY <2>1, <2>2
<1>8. RowsAreTold'
  <2> SUFFICES ASSUME NEW u \in TurnId, Exists(u)'
               PROVE  \E g \in issued : /\ g.n \in receipts' /\ g.action = "begin" /\ g.turn = u
                                        /\ g.at = turn'[u].startedAt
    BY DEF RowsAreTold, Received, facts
  <2>1. CASE Exists(u)
    BY <2>1, <1>6 DEF ShownInv, RowsAreTold, Received
  <2>2. CASE ~Exists(u)
    <3>1. u = t
      BY <2>2, <1>1 DEF Exists
    <3>2. m = f /\ f.action = "begin" /\ f.turn = t /\ turn'[t].startedAt = f.at
      BY <3>1, <2>2, <1>1, <1>7
    <3> QED BY <3>1, <3>2
  <2> QED BY <2>1, <2>2
<1>9. EndsAreTold'
  <2> SUFFICES ASSUME NEW u \in TurnId, NEW a \in {"complete", "fail"},
                      turn'[u].status = StatusAfter(a, "none")
               PROVE  \E g \in issued : g.n \in receipts' /\ g.action = a /\ g.turn = u
    BY DEF EndsAreTold, Received, facts, StatusAfter
  <2>1. CASE turn[u].status = StatusAfter(a, "none")
    BY <2>1 DEF ShownInv, EndsAreTold, Received
  <2>2. CASE turn[u].status # StatusAfter(a, "none")
    <3>1. u = t
      BY <2>2, <1>1
    <3>2. m.action = a
      BY <3>1, <2>2, <1>1, <1>2 DEF StatusAfter, Lifecycle, Ends
    <3>3. m = f /\ f.turn = t
      BY <3>2, <1>1, <1>2 DEF Lifecycle, Ends
    <3> QED BY <3>1, <3>2, <3>3
  <2> QED BY <2>1, <2>2
<1>10. CancelsAreTold'
  <2> SUFFICES ASSUME NEW u \in TurnId, turn'[u].status = "cancelled"
               PROVE  \E g \in issued : Cancels(g, u)'
    BY DEF CancelsAreTold, facts
  <2>1. CASE turn[u].status = "cancelled"
    <3>1. turn'[u].startedAt = turn[u].startedAt /\ turn'[u].terminalAt = turn[u].terminalAt
      <4>1. Ended(u)
        BY <2>1 DEF Ended, Terminal, TurnId
      <4> QED BY <2>1, <4>1, <1>1, <1>5 DEF Terminal
    <3>2. PICK g \in issued : Cancels(g, u)
      BY <2>1 DEF ShownInv, CancelsAreTold
    <3>3. Cancels(g, u)'
      BY <3>1, <3>2 DEF Cancels, EndsInTime, EndsLate, Receipted
    <3> QED BY <3>3
  <2>2. CASE turn[u].status # "cancelled"
    <3>1. u = t
      BY <2>2, <1>1
    <3>2. m.action \in {"cancel", "end_session"}
      BY <3>1, <2>2, <1>1, <1>2 DEF StatusAfter, Lifecycle, Ends
    <3>3. CASE m.action = "cancel"
      BY <3>1, <3>3, <1>1, <1>2 DEF Lifecycle, Ends, Cancels
    <3>4. CASE m.action = "end_session"
      <4>1. /\ turn'[t].startedAt <= m.at /\ turn'[t].startedAt = turn[t].startedAt
            /\ turn'[t].terminalAt = m.at
        BY <3>4, <1>1, <1>3 DEF InProgress, Exists
      <4>2. f.at \in Nat /\ f.n \in receipts'
        BY Typed
      <4>3. CASE m = f
        <5>1. EndsInTime(f, t)'
          BY <4>1, <4>2, <4>3, <1>3 DEF EndsInTime
        <5> QED BY <3>1, <3>4, <4>2, <4>3, <5>1 DEF Turnless, Cancels
      <4>4. CASE m = EndMutation(f) /\ f.action = "session_end"
        <5>1. CASE f.at < clock - Window
          <6>1. m.at = clock /\ m.at \in endReceipts'
            BY <4>4, <5>1 DEF EndMutation, EndTime, Receipted
          <6>2. EndsLate(f, t)'
            BY <4>1, <4>2, <5>1, <6>1, <1>3 DEF EndsLate
          <6> QED BY <3>1, <4>2, <4>4, <6>2 DEF Cancels
        <5>2. CASE ~(f.at < clock - Window)
          <6>1. m.at = f.at
            BY <4>4, <5>2 DEF EndMutation, EndTime
          <6>2. EndsInTime(f, t)'
            BY <4>1, <4>2, <6>1, <1>3 DEF EndsInTime
          <6> QED BY <3>1, <4>2, <4>4, <6>2 DEF Cancels, Turnless
        <5> QED BY <5>1, <5>2
      <4> QED BY <4>3, <4>4 DEF Decides
    <3> QED BY <3>2, <3>3, <3>4
  <2> QED BY <2>1, <2>2
<1>11. LatestIsThere'
  <2>1. latest' = latest => Exists(latest)
    BY <1>1, <1>3 DEF ShownInv, LatestIsThere, TurnId
  <2>2. \A u \in TurnId : Exists(u) => Exists(u)'
    BY <1>6
  <2>3. Exists(t)'
    BY <1>7
  <2> QED BY <2>1, <2>2, <2>3, <1>1 DEF LatestIsThere, Exists
<1>12. BeginsAreShown'
  <2> SUFFICES ASSUME NEW g \in issued, g.n \in receipts', g.action = "begin"
               PROVE  turn'[g.turn].status # "none" /\ g.turn # 0 /\ latest' >= g.turn
    BY DEF BeginsAreShown, Received, Exists, facts
  <2>0. g.turn \in TurnId /\ g.turn \in Nat
    <3>1. g.action \notin Turnless
      BY DEF Turnless
    <3> QED BY <3>1, ByRunner, Typed
  <2>1. CASE g.n \in receipts
    <3>1. Exists(g.turn) /\ latest >= g.turn
      BY <2>1 DEF ShownInv, BeginsAreShown, Received
    <3>2. Exists(g.turn)'
      BY <2>0, <3>1, <1>6
    <3>3. latest' \in Nat
      BY <1>1 DEF TurnId
    <3> QED BY <2>0, <3>1, <3>2, <3>3, <1>1, <1>3 DEF Exists
  <2>2. CASE g = f /\ g.n \notin receipts
    <3>1. m = f
      BY <2>2, <1>2 DEF Decides
    <3>2. t = g.turn /\ latest' = t
      BY <2>2, <3>1, <1>1 DEF Lifecycle
    <3> QED BY <3>2, <1>7, <1>3 DEF Exists
  <2> QED BY <2>1, <2>2, <1>4
<1>13. EndsAreShown'
  <2> SUFFICES ASSUME NEW g \in issued, g.n \in receipts', g.action \in Ends
               PROVE  turn'[g.turn].status \in {"none", "cancelled", StatusAfter(g.action, "none")}
    BY DEF EndsAreShown, Received, facts, StatusAfter
  <2>0. g.turn \in TurnId
    <3>1. g.action \notin Turnless
      BY DEF Turnless, Ends
    <3> QED BY <3>1, ByRunner
  <2>1. CASE g.n \in receipts
    <3>1. turn[g.turn].status \in {"none", "cancelled", StatusAfter(g.action, "none")}
      BY <2>1 DEF ShownInv, EndsAreShown, Received
    <3>2. CASE turn[g.turn].status = "none"
      <4>1. ASSUME g.turn = t PROVE FALSE
        <5>1. m.action = "begin"
          BY <3>2, <4>1, <1>1 DEF Exists
        <5>2. m = f /\ f.turn = t /\ f.action \in Lifecycle /\ f.n \notin receipts
          BY <5>1, <1>2, <1>7 DEF Lifecycle
        <5> QED BY <5>2, <4>1, <2>1, LifeArrivesInOrder DEF Received
      <4> QED BY <4>1, <3>1, <2>0, <1>1
    <3>3. CASE turn[g.turn].status # "none"
      <4>1. turn[g.turn].status \in Terminal
        BY <3>1, <3>3 DEF Terminal, StatusAfter, Ends
      <4> QED BY <4>1, <3>1, <2>0, <1>5
    <3> QED BY <3>2, <3>3
  <2>2. CASE g = f /\ g.n \notin receipts
    <3>1. m = f
      BY <2>2 DEF Decides, Ends
    <3>2. t = g.turn
      BY <2>2, <3>1, <1>1 DEF Lifecycle
    <3> QED BY <2>2, <3>1, <3>2, <1>1 DEF StatusAfter, Ends
  <2> QED BY <2>1, <2>2, <1>4
<1>14. ShownIsLatest'
  BY DEF ShownIsLatest, Projection
<1> QED BY <1>1, <1>4, <1>5, <1>8, <1>9, <1>10, <1>11, <1>12, <1>13, <1>14 DEF ShownInv

LEMMA UnappliedShown ==
  ASSUME TypeOK, BoundsAreNatural, ToldInv, ShownInv, NEW f \in issued, Arrives(f),
         receipts' = receipts \cup {f.n}, UNCHANGED <<rows, clock, facts, lost>>,
         endReceipts \subseteq endReceipts',
         f.action = "begin" /\ f.n \notin receipts => Exists(f.turn),
         f.action \in Ends /\ f.n \notin receipts => turn[f.turn].status \in {"none", "cancelled"}
  PROVE  ShownInv'
<1>1. InOrder' /\ \A g \in issued : g.n \in receipts' => g.n \in receipts \/ g = f
  BY ArrivalInOrder
<1>2. RowsAreTold' /\ EndsAreTold'
  BY DEF ShownInv, RowsAreTold, EndsAreTold, Exists, Received, rows, facts
<1>3. CancelsAreTold' /\ LatestIsThere' /\ ShownIsLatest'
  BY DEF ShownInv, CancelsAreTold, Cancels, EndsInTime, EndsLate, LatestIsThere, ShownIsLatest, Exists,
         Projection, rows, facts
<1>4. BeginsAreShown'
  <2> SUFFICES ASSUME NEW g \in issued, g.n \in receipts', g.action = "begin"
               PROVE  Exists(g.turn) /\ latest >= g.turn
    BY DEF BeginsAreShown, Received, Exists, rows, facts
  <2>1. CASE g.n \in receipts
    BY <2>1 DEF ShownInv, BeginsAreShown, Received
  <2>2. CASE g = f /\ g.n \notin receipts
    <3>1. f.turn \in TurnId /\ Exists(f.turn)
      <4>1. f.action \notin Turnless
        BY <2>2 DEF Turnless
      <4> QED BY <4>1, <2>2, ByRunner
    <3>2. PICK h \in issued : Received(h) /\ h.action = "begin" /\ h.turn = f.turn
      BY <3>1 DEF ShownInv, RowsAreTold
    <3>3. latest >= f.turn
      BY <3>2 DEF ShownInv, BeginsAreShown
    <3> QED BY <2>2, <3>1, <3>3
  <2> QED BY <2>1, <2>2, <1>1
<1>5. EndsAreShown'
  <2> SUFFICES ASSUME NEW g \in issued, g.n \in receipts', g.action \in Ends
               PROVE  turn[g.turn].status \in {"none", "cancelled", StatusAfter(g.action, "none")}
    BY DEF EndsAreShown, Received, rows, facts, StatusAfter
  <2>1. CASE g.n \in receipts
    BY <2>1 DEF ShownInv, EndsAreShown, Received
  <2>2. CASE g = f /\ g.n \notin receipts
    BY <2>2
  <2> QED BY <2>1, <2>2, <1>1
<1> QED BY <1>1, <1>2, <1>3, <1>4, <1>5 DEF ShownInv

LEMMA RejectedShown ==
  ASSUME TypeOK, BoundsAreNatural, ToldInv, ShownInv, NEW f \in issued, NEW m, Decides(f, m), Arrives(f),
         NEW evidence, NEW t, t = Requested(m), ~Accepts(m, t, evidence),
         receipts' = receipts \cup {f.n}, UNCHANGED <<rows, clock, facts, lost>>, Receipted(f, m)
  PROVE  ShownInv'
<1>1. ASSUME f.action \in Lifecycle, f.n \notin receipts
      PROVE  /\ m = f /\ t = f.turn /\ t # 0 /\ t \in TurnId
             /\ turn[t].status \notin {"failed", "completed"} /\ latest <= t
  <2>1. f.action \notin Turnless
    BY <1>1 DEF Lifecycle, Ends, Turnless
  <2>2. m = f
    BY <2>1 DEF Decides, Turnless
  <2>3. t = f.turn /\ t # 0 /\ t \in TurnId
    BY <2>1, <2>2, ByRunner DEF Requested
  <2> QED BY <1>1, <2>2, <2>3, LifeArrivesInOrder
<1>2. ASSUME f.action = "begin", f.n \notin receipts PROVE Exists(f.turn)
  <2>1. f.action \in Lifecycle
    BY <1>2 DEF Lifecycle
  <2>2. Ended(t)
    BY <1>2, <2>1, <1>1 DEF Accepts, Ending
  <2> QED BY <1>2, <2>1, <2>2, <1>1 DEF Ended, Exists, Terminal
<1>3. ASSUME f.action \in Ends, f.n \notin receipts
      PROVE  turn[f.turn].status \in {"none", "cancelled"}
  <2>1. f.action \in Lifecycle
    BY <1>3 DEF Lifecycle
  <2>2. turn[t].status \in Status /\ t \in Nat /\ latest \in Nat
    BY <1>3, <2>1, <1>1 DEF TypeOK, Row, TurnId
  <2>3. ASSUME turn[t].status = "in_progress" PROVE FALSE
    <3>1. Exists(t) /\ InProgress(t)
      BY <1>3, <2>1, <2>3, <1>1 DEF Exists, InProgress
    <3>2. PICK h \in issued : Received(h) /\ h.action = "begin" /\ h.turn = t
      BY <3>1, <1>3, <2>1, <1>1 DEF ShownInv, RowsAreTold
    <3>3. latest >= t
      BY <3>2 DEF ShownInv, BeginsAreShown
    <3>4. t = latest
      BY <3>3, <2>2, <1>3, <2>1, <1>1
    <3>5. Accepts(m, t, evidence)
      BY <3>1, <3>4, <1>3, <2>1, <1>1 DEF Accepts, Ends, Ending
    <3> QED BY <3>5
  <2> QED BY <1>3, <2>1, <2>2, <2>3, <1>1 DEF Status
<1> QED BY <1>2, <1>3, UnappliedShown DEF Receipted

\* The last turn shown is never replaced by an earlier one.
LatestGoesOn == latest' >= latest
Stands == \A t \in TurnId : turn[t].status \in Terminal => turn'[t].status = turn[t].status

LEMMA DecisionShown ==
  ASSUME TypeOK, BoundsAreNatural, ToldInv, ShownInv, NEW f \in issued, NEW m, Decides(f, m), Arrives(f),
         NEW evidence, ApplyMutation(m, evidence),
         receipts' = receipts \cup {f.n}, UNCHANGED <<clock, facts, lost>>, Receipted(f, m)
  PROVE  ShownInv' /\ LatestGoesOn /\ Stands
<1>1. PICK t : t = Requested(m)
  OBVIOUS
<1>2. CASE Accepts(m, t, evidence)
  <2>1. /\ turn' = [turn EXCEPT ![t] = RowAfter(m, t)] /\ latest' = LatestAfter(m, t)
        /\ shown' = Projection(LatestAfter(m, t), turn')
    BY <1>1, <1>2 DEF ApplyMutation
  <2>2. ShownInv' /\ latest' >= latest /\ Stands
    BY <1>1, <1>2, <2>1, AcceptedShown DEF Stands
  <2> QED BY <2>2 DEF LatestGoesOn
<1>3. CASE ~Accepts(m, t, evidence)
  <2>1. UNCHANGED rows
    BY <1>1, <1>3 DEF ApplyMutation
  <2>2. ShownInv'
    BY <1>1, <1>3, <2>1, RejectedShown
  <2>3. latest \in Nat
    BY DEF TypeOK, TurnId
  <2> QED BY <2>1, <2>2, <2>3 DEF rows, LatestGoesOn, Stands
<1> QED BY <1>2, <1>3

\* A step of the machine or the outbox: nothing the server shows changes.
LEMMA ShownOfMachine ==
  ASSUME TypeOK, TypeOK', BoundsAreNatural, ShownInv,
         Tick \/ Start \/ Begin \/ EndTurn \/ Note \/ Crash \/ Exit \/ Observe \/ GiveUp \/ UNCHANGED vars
  PROVE  ShownInv' /\ UNCHANGED rows
<1>1. UNCHANGED <<rows, receipts, endReceipts>>
  BY DEF Tick, Start, Begin, EndTurn, Note, Crash, Exit, Observe, GiveUp, vars, Tells, rows
<1>2. clock \in Nat /\ count \in Nat /\ clock' \in Nat /\ count' \in Nat
  BY DEF TypeOK
<1>3. clock' >= clock /\ lost \subseteq lost'
  BY <1>2 DEF Tick, Start, Begin, EndTurn, Note, Crash, Exit, Observe, GiveUp, vars, Tells
<1>4. \/ UNCHANGED facts
      \/ \E a, t : Tells(a, t)
      \/ Exit \/ Observe
  BY DEF Tick, Start, Begin, EndTurn, Note, Crash, GiveUp, vars
<1>5. /\ issued \subseteq issued' /\ \A x \in issued' \ issued : x.n > count /\ x.n \in Nat
      /\ count' >= count
  <2>1. CASE UNCHANGED facts
    BY <2>1, <1>2 DEF facts
  <2>2. CASE \E a, t : Tells(a, t)
    BY <2>2, <1>2 DEF Tells, New
  <2>3. CASE Exit
    BY <2>3, <1>2 DEF Exit, New
  <2>4. CASE Observe
    BY <2>4, <1>2 DEF Observe, New, facts
  <2> QED BY <1>4, <2>1, <2>2, <2>3, <2>4
<1> QED BY <1>1, <1>2, <1>3, <1>5, ShownKept

LEMMA ShownOfServer ==
  ASSUME TypeOK, BoundsAreNatural, ToldInv, ShownInv, NEW f \in issued,
         ApplyTurnMutation(f) \/ ApplySessionEnd(f)
  PROVE  ShownInv' /\ LatestGoesOn /\ Stands
<1>1. Arrives(f) /\ receipts' = receipts \cup {f.n} /\ UNCHANGED <<clock, facts, lost>>
  BY DEF ApplyTurnMutation, ApplySessionEnd
<1>2. CASE ApplyTurnMutation(f)
  <2>1. PICK evidence \in BOOLEAN : ApplyMutation(f, evidence)
    BY <1>2 DEF ApplyTurnMutation
  <2>2. Decides(f, f) /\ Receipted(f, f)
    BY <1>2 DEF ApplyTurnMutation, Decides, Receipted
  <2> QED BY <1>1, <2>1, <2>2, DecisionShown
<1>3. CASE ApplySessionEnd(f)
  <2>1. f.action = "session_end" /\ Decides(f, EndMutation(f)) /\ endReceipts \subseteq endReceipts'
    BY <1>3 DEF ApplySessionEnd, Decides
  <2>2. CASE ApplyMutation(EndMutation(f), FALSE) /\ EndTime(f) \in endReceipts'
    <3>1. Receipted(f, EndMutation(f))
      BY <2>1, <2>2 DEF Receipted, EndMutation
    <3> QED BY <1>1, <2>1, <2>2, <3>1, DecisionShown
  <2>3. CASE UNCHANGED rows
    <3>1. ShownInv'
      BY <1>1, <2>1, <2>3, UnappliedShown DEF Ends
    <3>2. latest \in Nat
      BY DEF TypeOK, TurnId
    <3> QED BY <2>3, <3>1, <3>2 DEF LatestGoesOn, Stands, rows
  <2> QED BY <1>3, <2>2, <2>3 DEF ApplySessionEnd
<1> QED BY <1>2, <1>3

TurnsInv == TypeOK /\ ToldInv /\ ShownInv

LEMMA TurnsStep ==
  ASSUME BoundsAreNatural, TurnsInv, [Next]_vars
  PROVE  TurnsInv' /\ LatestGoesOn /\ Stands
<1>1. TypeOK' /\ ToldInv'
  BY TypeStep, ToldStep DEF TurnsInv
<1>2. CASE Tick \/ Start \/ Begin \/ EndTurn \/ Note \/ Crash \/ Exit \/ Observe \/ GiveUp \/ UNCHANGED vars
  <2>1. ShownInv' /\ UNCHANGED rows
    BY <1>1, <1>2, ShownOfMachine DEF TurnsInv
  <2>2. latest \in Nat
    BY DEF TurnsInv, TypeOK, TurnId
  <2> QED BY <1>1, <2>1, <2>2 DEF TurnsInv, LatestGoesOn, Stands, rows
<1>3. ASSUME NEW f \in issued, ApplyTurnMutation(f) \/ ApplySessionEnd(f)
      PROVE  TurnsInv' /\ LatestGoesOn /\ Stands
  BY <1>1, <1>3, ShownOfServer DEF TurnsInv
<1> QED BY <1>2, <1>3 DEF Next

LEMMA TurnsInvariant == Spec => []TurnsInv
<1>1. Init => TurnsInv
  BY TypeInit, ToldInit, ShownInit, BoundsAreNatural DEF TurnsInv
<1>2. TurnsInv /\ [Next]_vars => TurnsInv'
  BY TurnsStep, BoundsAreNatural
<1> QED BY <1>1, <1>2, PTL DEF Spec

-------------------------------------------------------------------------------
(* What follows. *)

\* A turn that ended stays as it ended, whatever arrives late, twice or never,
\* although the server would reopen a failed turn for a later begin or complete.
THEOREM OutcomesStandAlways == Spec => OutcomesStand
<1>1. TurnsInv /\ [Next]_vars =>
        [\A t \in TurnId : turn[t].status \in Terminal => turn'[t].status = turn[t].status]_vars
  BY TurnsStep, BoundsAreNatural DEF Stands
<1> QED BY <1>1, TurnsInvariant, PTL DEF Spec, OutcomesStand

\* The pointer to the latest turn only moves to later turns, in whatever order
\* runners and daemon are heard.
THEOREM LatestNeverGoesBack == Spec => [][latest' >= latest]_vars
<1>1. TurnsInv /\ [Next]_vars => [latest' >= latest]_vars
  BY TurnsStep, BoundsAreNatural DEF LatestGoesOn
<1> QED BY <1>1, TurnsInvariant, PTL DEF Spec

\* Once all that the runners told has arrived, the server shows their last turn,
\* in progress only if its end was not told, and ended as told or cancelled.
THEOREM ArrivedIsAlwaysShown == Spec => []ArrivedIsShown
<1>1. TurnsInv => ArrivedIsShown
  <2> SUFFICES ASSUME TurnsInv, turns > 0, \A f \in issued : f.author = "runner" => f.n \in receipts
               PROVE  /\ latest = turns
                      /\ shown.status = "in_progress" => ToldEnd(turns) = {}
                      /\ \A f \in ToldEnd(turns) : shown.status \in {StatusAfter(f.action, "none"), "cancelled"}
    BY DEF ArrivedIsShown
  <2>0. /\ TypeOK /\ ToldInv /\ ShownInv /\ turns \in Nat /\ turns \in TurnId
        /\ latest \in Nat /\ latest \in TurnId \cup {0}
    BY Typed DEF TurnsInv, TypeOK, TurnId
  <2>1. latest >= turns
    <3>1. PICK f \in issued : f.action = "begin" /\ f.turn = turns
      BY <2>0 DEF ToldInv, Begun
    <3>2. f.action \notin Turnless
      BY <3>1 DEF Turnless
    <3>3. Received(f)
      BY <2>0, <3>2, ByRunner DEF Received
    <3> QED BY <2>0, <3>1, <3>3 DEF ShownInv, BeginsAreShown
  <2>2. latest <= turns /\ Exists(latest)
    <3>1. latest \in TurnId /\ Exists(latest)
      BY <2>0, <2>1 DEF ShownInv, LatestIsThere
    <3>2. PICK f \in issued : f.turn = latest
      BY <2>0, <3>1 DEF ShownInv, RowsAreTold
    <3> QED BY <2>0, <3>1, <3>2 DEF ToldInv, FactsOfTurns, OfATurn
  <2>3. latest = turns
    BY <2>0, <2>1, <2>2
  <2>4. shown.status = turn[turns].status /\ shown.status # "none"
    BY <2>0, <2>2, <2>3 DEF ShownInv, ShownIsLatest, Projection, Exists
  <2>5. ASSUME NEW f \in ToldEnd(turns)
        PROVE  shown.status \in {StatusAfter(f.action, "none"), "cancelled"} /\ shown.status # "in_progress"
    <3>1. f \in issued /\ f.action \in Ends /\ f.turn = turns
      <4>1. f \in issued /\ f.action \in Ending /\ f.turn = turns /\ f.turn # 0
        BY <2>0, <2>5 DEF ToldEnd
      <4>2. f.action # "end_session"
        BY <2>0, <4>1 DEF ToldInv, FactsOfTurns, OfATurn, Turnless
      <4> QED BY <4>1, <4>2 DEF Ending, Ends
    <3>2. f.action \notin Turnless
      BY <3>1 DEF Ends, Turnless
    <3>3. Received(f)
      BY <2>0, <3>1, <3>2, ByRunner DEF Received
    <3>4. turn[turns].status \in {"none", "cancelled", StatusAfter(f.action, "none")}
      BY <2>0, <3>1, <3>3 DEF ShownInv, EndsAreShown
    <3> QED BY <2>4, <3>1, <3>4 DEF StatusAfter, Ends
  <2> QED BY <2>3, <2>5
<1> QED BY <1>1, TurnsInvariant, PTL

\* A turn of a live runner that the server knows is in progress, unless what ended
\* it is an end the daemon noticed after it began, or one that was dated to an
\* arrival more than Window late.
THEOREM LiveTurnAlwaysStands == Spec => []LiveTurnStands
<1>1. TurnsInv => LiveTurnStands
  <2> SUFFICES ASSUME TurnsInv, alive, open # 0, Exists(open), ~InProgress(open)
               PROVE  CutShort(open)
    BY DEF LiveTurnStands
  <2>0. TypeOK /\ ToldInv /\ ShownInv /\ open \in TurnId /\ turn[open].status \in Status
    BY DEF TurnsInv, TypeOK, Row
  <2>1. \A f \in issued : f.turn = open => f.action \notin Ends
    BY <2>0 DEF ToldInv, OpenGoesOn
  <2>2. turn[open].status \notin {"failed", "completed"}
    <3>1. StatusAfter("fail", "none") = "failed" /\ StatusAfter("complete", "none") = "completed"
      BY DEF StatusAfter
    <3> QED BY <2>0, <2>1, <3>1 DEF ShownInv, EndsAreTold, Ends
  <2>3. turn[open].status = "cancelled"
    BY <2>0, <2>2 DEF Status, Exists, InProgress
  <2>4. PICK f \in issued : Cancels(f, open)
    BY <2>0, <2>3 DEF ShownInv, CancelsAreTold
  <2>5. ~(f.action = "cancel" /\ f.turn = open)
    BY <2>1 DEF Ends
  <2>6. CASE f.n \in receipts /\ f.action = "session_end" /\ EndsLate(f, open)
    BY <2>6 DEF CutShort, EndsLate
  <2>7. CASE f.n \in receipts /\ f.action \in Turnless /\ EndsInTime(f, open)
    <3>0. f.at = turn[open].terminalAt /\ f.at >= turn[open].startedAt
      BY <2>7 DEF EndsInTime
    <3>1. f.author = "daemon" \/ Death(f)
      <4>1. f.author \in {"runner", "daemon"}
        BY <2>0, Typed DEF Author
      <4>2. f.turn = 0
        BY <2>0, <2>7 DEF ToldInv, FactsOfTurns, OfATurn
      <4>3. f.action = "end_session" => f.author = "daemon"
        BY <2>0, <4>2 DEF ToldInv, FactsOfTurns, OfATurn
      <4> QED BY <2>7, <4>1, <4>3 DEF Death, Turnless
    <3>2. ~Death(f)
      <4>1. PICK g \in issued : g.turn = open /\ g.at = turn[open].startedAt
        BY <2>0 DEF ShownInv, RowsAreTold
      <4>2. Death(f) => f.at < g.at
        BY <2>0, <4>1 DEF ToldInv, DeathIsPast
      <4>3. f.at \in Nat /\ g.at \in Nat
        BY <2>0, Typed
      <4> QED BY <3>0, <4>1, <4>2, <4>3
    <3> QED BY <2>7, <3>0, <3>1, <3>2 DEF CutShort
  <2> QED BY <2>4, <2>5, <2>6, <2>7 DEF Cancels
<1> QED BY <1>1, TurnsInvariant, PTL
===============================================================================
