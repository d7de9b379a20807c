---------------------------- MODULE AccountChanges ----------------------------
(***************************************************************************)
(* The change feed of one account.  Every write marks the entity it        *)
(* touches with the next value of Account.seq; an entity has one row, so a *)
(* later mark replaces an earlier one.  A client that was away asks        *)
(* GET /v2/changes for the rows behind its cursor and pages through them.  *)
(* The retention sweep deletes aged rows and then raises changesFloor, and *)
(* a client behind the floor is told to rebuild from a snapshot.           *)
(*                                                                         *)
(* Neither the request, which reads the account and then the rows, nor the *)
(* sweep, which deletes row by row and raises the floor at the end, is one *)
(* transaction: each of their queries is an action.  Sweeps may overlap,   *)
(* as the lock that a sweep takes expires while a slow sweep still runs.   *)
(***************************************************************************)
EXTENDS Integers, FiniteSets

CONSTANTS
  Entity,      \* what can change: sessions, machines, artifacts, ...
  Client,      \* requests that can be in progress at once
  Sweeper,     \* server processes that run retention sweeps
  PageLimit,   \* rows in a page at most
  BatchSize,   \* rows a sweep takes at most
  MaxSeq       \* bound: Account.seq at which writes stop

ASSUME LimitsArePositive == PageLimit \in Nat \ {0} /\ BatchSize \in Nat \ {0}
ASSUME MaxSeqIsNat == MaxSeq \in Nat

VARIABLES
  seq, floor,   \* Account.seq, Account.changesFloor
  row,          \* AccountChange.cursor by entity, 0: no row
  aged,         \* entities whose row is older than the retention cutoff
  last,         \* history: cursor of each entity's last change
  sweep,        \* by sweeper: candidates left, highest cursor deleted
  torn,         \* history: a sweep died after a delete and before the floor
  request,      \* the requests in progress
  calm,         \* history: those that no sweep overlapped since the first query
  reply         \* the answer to each client's last request

feed == <<seq, floor, row, aged, last>>
vars == <<feed, sweep, torn, request, calm, reply>>

Candidate == [entity : Entity, cursor : Nat]
NoSweep == [running |-> FALSE, todo |-> {}, deleted |-> 0]
NoRequest == [pc |-> "idle", after |-> 0, seqRead |-> 0]
\* Is a sweep in progress?
Sweeping == \E w \in Sweeper : sweep[w].running

NoReply == [status |-> "none", rows |-> {}, next |-> 0]

TypeOK ==
  /\ seq \in Nat /\ floor \in Nat
  /\ row \in [Entity -> Nat] /\ last \in [Entity -> Nat]
  /\ aged \in SUBSET Entity
  /\ sweep \in [Sweeper -> [running : BOOLEAN, todo : SUBSET Candidate, deleted : Nat]]
  /\ torn \in BOOLEAN
  /\ request \in [Client -> [pc : {"idle", "account", "rows"}, after : Nat,
                             seqRead : Nat]]
  /\ calm \in SUBSET Client
  /\ reply \in [Client -> [status : {"none", "ok", "gone"},
                           rows : SUBSET Candidate, next : Nat]]

Init ==
  /\ seq = 0 /\ floor = 0
  /\ row = [e \in Entity |-> 0] /\ last = [e \in Entity |-> 0]
  /\ aged = {}
  /\ sweep = [w \in Sweeper |-> NoSweep] /\ torn = FALSE
  /\ request = [c \in Client |-> NoRequest] /\ calm = {}
  /\ reply = [c \in Client |-> NoReply]
-----------------------------------------------------------------------------
\* Faulty variant: a row that exists is updated without a new value of seq.
MarkReusesSeq(e) ==
  /\ seq < MaxSeq
  /\ seq' = IF row[e] = 0 THEN seq + 1 ELSE seq
  /\ row' = [row EXCEPT ![e] = seq']
  /\ last' = [last EXCEPT ![e] = seq']
  /\ aged' = aged \ {e}
  /\ UNCHANGED <<floor, sweep, torn, request, calm, reply>>

\* markAccountChanged, in the transaction of some write.
MarkAccountChanged(e) ==
  /\ seq < MaxSeq
  /\ seq' = seq + 1
  /\ row' = [row EXCEPT ![e] = seq']
  /\ last' = [last EXCEPT ![e] = seq']
  /\ aged' = aged \ {e}
  /\ UNCHANGED <<floor, sweep, torn, request, calm, reply>>

\* changedAt falls behind the cutoff. It is the time of the write, not of the
\* commit, so rows do not age in the order of their cursors.
Age(e) ==
  /\ row[e] # 0 /\ e \notin aged
  /\ aged' = aged \cup {e}
  /\ UNCHANGED <<seq, floor, row, last, sweep, torn, request, calm, reply>>
-----------------------------------------------------------------------------
(***************************************************************************)
(* GET /v2/changes?after=...                                               *)
(***************************************************************************)
RequestChanges(c, after) ==
  /\ request[c].pc = "idle"
  /\ request' = [request EXCEPT ![c] = [pc |-> "account", after |-> after, seqRead |-> 0]]
  /\ UNCHANGED <<feed, sweep, torn, calm, reply>>

\* Faulty variant: the floor is not compared.
ReadAccountOnly(c) ==
  LET after == request[c].after IN
  /\ request[c].pc = "account"
  /\ \/ /\ after > seq
        /\ reply' = [reply EXCEPT ![c] = [status |-> "gone", rows |-> {}, next |-> seq]]
        /\ request' = [request EXCEPT ![c] = NoRequest]
        /\ UNCHANGED calm
     \/ /\ after <= seq
        /\ request' = [request EXCEPT ![c] = [pc |-> "rows", after |-> after, seqRead |-> seq]]
        /\ calm' = IF Sweeping THEN calm \ {c} ELSE calm \cup {c}
        /\ UNCHANGED reply
  /\ UNCHANGED <<feed, sweep, torn>>

\* The first query: a cursor from the future or behind the floor is gone.
ReadAccount(c) ==
  LET after == request[c].after IN
  /\ request[c].pc = "account"
  /\ \/ /\ after > seq \/ after < floor
        /\ reply' = [reply EXCEPT ![c] = [status |-> "gone", rows |-> {}, next |-> seq]]
        /\ request' = [request EXCEPT ![c] = NoRequest]
        /\ UNCHANGED calm
     \/ /\ ~ (after > seq \/ after < floor)
        /\ request' = [request EXCEPT ![c] = [pc |-> "rows", after |-> after, seqRead |-> seq]]
        /\ calm' = IF Sweeping THEN calm \ {c} ELSE calm \cup {c}
        /\ UNCHANGED reply
  /\ UNCHANGED <<feed, sweep, torn>>

Behind(after) == {e \in Entity : row[e] > after}

\* A page is the first PageLimit rows behind the cursor, by cursor.
IsPage(page, after) ==
  /\ page \subseteq Behind(after)
  /\ \A e \in page, f \in Behind(after) \ page : row[e] < row[f]
  /\ Cardinality(page) <= PageLimit
  /\ page # Behind(after) => Cardinality(page) = PageLimit

\* The cursor of the last row of the page, or the client's own.
IsNextCursor(next, page, after) ==
  IF page = {} THEN next = after
  ELSE /\ next \in {row[e] : e \in page}
       /\ \A e \in page : row[e] <= next

\* The second query, and the answer.
ReadRows(c) ==
  /\ request[c].pc = "rows"
  /\ \E page \in SUBSET Entity, next \in 0..seq :
       /\ IsPage(page, request[c].after)
       /\ IsNextCursor(next, page, request[c].after)
       /\ reply' = [reply EXCEPT ![c] =
                      [status |-> "ok", next |-> next,
                       rows |-> {[entity |-> e, cursor |-> row[e]] : e \in page}]]
  /\ request' = [request EXCEPT ![c] = NoRequest]
  /\ UNCHANGED <<feed, sweep, torn, calm>>
-----------------------------------------------------------------------------
(***************************************************************************)
(* The retention rule for this feed.                                       *)
(***************************************************************************)
StartSweep(w) ==
  /\ ~ sweep[w].running
  /\ \E S \in SUBSET aged :
       /\ S # {} /\ Cardinality(S) <= BatchSize
       /\ sweep' = [sweep EXCEPT ![w] =
                      [running |-> TRUE, deleted |-> 0,
                       todo |-> {[entity |-> e, cursor |-> row[e]] : e \in S}]]
  /\ calm' = {}
  /\ UNCHANGED <<feed, torn, request, reply>>

Done(w, x, deleted) ==
  sweep' = [sweep EXCEPT ![w] =
              [running |-> TRUE, todo |-> sweep[w].todo \ {x}, deleted |-> deleted]]

Higher(m, n) == IF m > n THEN m ELSE n

\* Faulty variant: a row is deleted although it was marked again meanwhile.
DeleteWhateverIsThere(w, x) ==
  /\ x \in sweep[w].todo
  /\ row' = [row EXCEPT ![x.entity] = 0]
  /\ aged' = aged \ {x.entity}
  /\ Done(w, x, Higher(x.cursor, sweep[w].deleted))
  /\ UNCHANGED <<seq, floor, last, torn, request, calm, reply>>

\* A candidate that was marked again since it was loaded stays.
DeleteCandidate(w, x) ==
  /\ x \in sweep[w].todo
  /\ \/ /\ row[x.entity] = x.cursor /\ x.entity \in aged
        /\ row' = [row EXCEPT ![x.entity] = 0]
        /\ aged' = aged \ {x.entity}
        /\ Done(w, x, Higher(x.cursor, sweep[w].deleted))
     \/ /\ ~ (row[x.entity] = x.cursor /\ x.entity \in aged)
        /\ Done(w, x, sweep[w].deleted)
        /\ UNCHANGED <<row, aged>>
  /\ UNCHANGED <<seq, floor, last, torn, request, calm, reply>>

\* The floor is raised, never lowered, to the highest cursor deleted.
RaiseFloor(w) ==
  /\ sweep[w].running /\ sweep[w].todo = {}
  /\ floor' = Higher(sweep[w].deleted, floor)
  /\ sweep' = [sweep EXCEPT ![w] = NoSweep]
  /\ UNCHANGED <<seq, row, aged, last, torn, request, calm, reply>>

\* The server stops in the middle of a sweep: what it deleted is not known to
\* the next one.
SweepDies(w) ==
  /\ sweep[w].running
  /\ torn' = (torn \/ sweep[w].deleted > floor)
  /\ sweep' = [sweep EXCEPT ![w] = NoSweep]
  /\ UNCHANGED <<feed, request, calm, reply>>
-----------------------------------------------------------------------------
Next ==
  \/ \E e \in Entity : MarkAccountChanged(e) \/ Age(e)
  \/ \E c \in Client : \/ \E after \in 0..(seq + 1) : RequestChanges(c, after)
                       \/ ReadAccount(c) \/ ReadRows(c)
  \/ \E w \in Sweeper : \/ StartSweep(w) \/ RaiseFloor(w) \/ SweepDies(w)
                        \/ \E x \in sweep[w].todo : DeleteCandidate(w, x)

Spec == Init /\ [][Next]_vars
-----------------------------------------------------------------------------
(***************************************************************************)
(* Properties.                                                             *)
(***************************************************************************)

\* The answer that client c gets now tells of every entity whose last change
\* lies behind the cursor it asked with and not behind upTo.
Tells(c, upTo) ==
  \A e \in Entity :
    request[c].after < last[e] /\ last[e] <= upTo
      => [entity |-> e, cursor |-> last[e]] \in reply'[c].rows

Answered(c) == request[c].pc = "rows" /\ request'[c].pc = "idle"

\* No client moves its cursor past a change it was not told of.
NoMissedChange ==
  [][\A c \in Client : Answered(c) => Tells(c, reply'[c].next)]_vars

\* What the code achieves: if no sweep ran since before the request read the
\* account, and none ever died half-way, the answer is complete up to the next
\* cursor, and up to the seq that was read when the page was not filled.
CompleteWhenCalm ==
  [][\A c \in Client :
       Answered(c) /\ c \in calm /\ ~ torn =>
         /\ Tells(c, reply'[c].next)
         /\ Cardinality({x.entity : x \in reply'[c].rows}) < PageLimit
               => Tells(c, request[c].seqRead)]_vars

\* An entity without a row changed last at or below the floor, once the sweep
\* that deleted the row is over; the floor never passes Account.seq, where it
\* would turn every client away for ever.
FloorCoversPruned ==
  /\ floor <= seq
  /\ ~ torn /\ ~ Sweeping =>
       \A e \in Entity : row[e] = 0 => last[e] <= floor

\* Rows have distinct cursors: a page boundary never separates two changes with
\* the same cursor, of which the second would be skipped.
CursorsDistinct ==
  \A e, f \in Entity : row[e] = row[f] /\ row[e] # 0 => e = f
=============================================================================
