SPECIFICATION Spec
CONSTANTS
  runner = runner
  daemon = daemon
  None = None
  Process <- MCBoth
  Daemon = daemon
  Mutation <- MCDeathMutation
  Plans <- MCDeath
  MaxAttempts = 2
  SnapshotLimit = 1
  MaxStarts <- MCBothStarts
  MaxTrouble = 0
INVARIANTS NothingAcceptedIsLost
CHECK_DEADLOCK FALSE
