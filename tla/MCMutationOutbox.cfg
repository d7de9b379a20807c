SPECIFICATION FairSpec
CONSTANTS
  runner = runner
  daemon = daemon
  None = None
  Process <- MCProcess
  Daemon = daemon
  Mutation <- MCMutation
  Plans <- MCPlans
  MaxAttempts = 2
  SnapshotLimit = 1
  MaxStarts <- MCStarts
  MaxTrouble = 1
INVARIANTS
  OutboxTypeOK
  NothingAcceptedIsLost
  TurnsArriveInOrder
  AcceptedSnapshotStands
  AttendedWhileDiskWorks
PROPERTIES AcceptedSettles
CHECK_DEADLOCK FALSE
