-------------------------- MODULE MCMutationOutbox --------------------------
EXTENDS MutationOutbox, TLC

CONSTANTS runner, daemon

Says(p, life, at, kind, key) == [author |-> p, life |-> life, at |-> at, kind |-> kind, key |-> key]

MCProcess == {runner}
MCStarts == [p \in MCProcess |-> 2]

\* Two mutations of one turn; two messages; one message written twice;
\* the end of the session before a turn that the next runner begins.
MCPlans == {
  {Says(runner, 1, 1, "begin", "t1"), Says(runner, 1, 2, "change", "t1")},
  {Says(runner, 1, 4, "snapshot", "a"), Says(runner, 1, 5, "snapshot", "b")},
  {Says(runner, 1, 6, "snapshot", "a"), Says(runner, 1, 7, "snapshot", "a")},
  {Says(runner, 1, 8, "end", "s"), Says(runner, 2, 9, "begin", "t1")}}
MCMutation == UNION MCPlans

\* The daemon settles the turn of a runner that died; the session is resumed.
MCBoth == {runner, daemon}
MCBothStarts == (runner :> 2) @@ (daemon :> 1)
MCDeath == {
  {Says(runner, 1, 1, "begin", "t1"), Says(daemon, 1, 2, "settle", "s"), Says(runner, 2, 3, "begin", "t2")}}
MCDeathMutation == UNION MCDeath
=============================================================================
