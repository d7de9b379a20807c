---------------------------- MODULE PromptQueue ----------------------------
(***************************************************************************)
(* What the pending queue promises its users ("Ordered", "Editable",       *)
(* apps/docs/content/docs/features/pending-queue.mdx): prompts wait in one *)
(* line, leave it from the front, can be set aside and queued again at the *)
(* back, can be rearranged, and enter the session's transcript at most     *)
(* once each, in the order in which they left the line.                    *)
(***************************************************************************)
EXTENDS Sequences, Naturals

CONSTANT Prompt

VARIABLES
  line,    \* prompts waiting, first to run first
  aside,   \* prompts set aside (the discarded ones)
  log      \* prompts in the transcript, in transcript order

vars == <<line, aside, log>>

In(s) == {s[i] : i \in DOMAIN s}
Distinct(s) == \A i, j \in DOMAIN s : s[i] = s[j] => i = j
Without(i) == [j \in 1..(Len(line) - 1) |-> line[IF j < i THEN j ELSE j + 1]]
Once(s, p) == IF p \in In(s) THEN s ELSE Append(s, p)

\* Any line of distinct prompts can be found in a session: nothing is assumed
\* of the sessions a server starts with except that nothing is in two places.
Init ==
  /\ In(line) \cap aside = {}
  /\ Distinct(line) /\ Distinct(log)

Add(p) ==
  /\ p \notin In(line) /\ p \notin aside
  /\ line' = Append(line, p)
  /\ UNCHANGED <<aside, log>>

Leave(p) == \E i \in DOMAIN line : line[i] = p /\ line' = Without(i)

Remove(p) ==
  /\ \/ Leave(p) /\ UNCHANGED aside
     \/ p \in aside /\ aside' = aside \ {p} /\ UNCHANGED line
  /\ UNCHANGED log

SetAside(p) ==
  /\ Leave(p) /\ aside' = aside \cup {p}
  /\ UNCHANGED log

BringBack(p) ==
  /\ p \in aside
  /\ line' = Append(line, p) /\ aside' = aside \ {p}
  /\ UNCHANGED log

Rearrange ==
  /\ In(line') = In(line) /\ Len(line') = Len(line)
  /\ UNCHANGED <<aside, log>>

Send(p) ==
  /\ p \notin In(log)
  /\ log' = Append(log, p)
  /\ UNCHANGED <<line, aside>>

Deliver ==
  /\ line # <<>>
  /\ line' = Tail(line)
  /\ log' = Once(log, Head(line))
  /\ UNCHANGED aside

Next ==
  \/ \E p \in Prompt : Add(p) \/ Remove(p) \/ SetAside(p) \/ BringBack(p) \/ Send(p)
  \/ Rearrange
  \/ Deliver

Spec == Init /\ [][Next]_vars
=============================================================================
