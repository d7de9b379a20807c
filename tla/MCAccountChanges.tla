--------------------------- MODULE MCAccountChanges ---------------------------
EXTENDS AccountChanges, TLC

CONSTANTS session, machine, artifact

MCSymmetry == Permutations({session, machine, artifact})
=============================================================================
