------------------------ MODULE MCSessionPendingQueue -----------------------
EXTENDS SessionPendingQueueRefinement, TLC

CONSTANTS l1, l2, l3, plain, encrypted

MCPolicies == {{plain, encrypted}, {encrypted}}
MCOnePolicy == {{plain}}

\* Prompts are told apart by their rows only and runners by their calls.
MCSymmetry == Permutations(LocalId) \cup Permutations(Runner)
=============================================================================
