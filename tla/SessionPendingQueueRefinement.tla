------------------- MODULE SessionPendingQueueRefinement -------------------
(***************************************************************************)
(* The tables of SessionPendingQueue seen as the line, the discard pile    *)
(* and the log of PromptQueue.                                             *)
(***************************************************************************)
EXTENDS SessionPendingQueue, Ordering

QueueOrder == InOrder(Queued, position)
Aside == {l \in LocalId : status[l] = "discarded"}
Messages == {l \in LocalId : msgSeq[l] # 0}
TranscriptOrder == InOrder(Messages, msgSeq)

Abstract == INSTANCE PromptQueue WITH
  Prompt <- LocalId,
  line <- QueueOrder,
  aside <- Aside,
  log <- TranscriptOrder

\* Every transaction of the pending queue service, and every step of a runner's
\* materialize call, is a step of the abstract line of prompts or changes
\* nothing in it.
ImplementsPromptQueue == Abstract!Spec
=============================================================================
