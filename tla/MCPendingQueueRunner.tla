------------------------ MODULE MCPendingQueueRunner ------------------------
EXTENDS PendingQueueRunner

CONSTANTS l1, l2, plain

MCPolicies == {{plain}}
=============================================================================
