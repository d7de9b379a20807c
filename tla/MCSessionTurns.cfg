SPECIFICATION FairSpec
CONSTANTS
  MaxTurns = 2
  MaxLives = 2
  MaxFacts = 2
  MaxClock = 3
  MaxNotes = 1
  MaxLost = 0
  Window = 1
INVARIANTS TypeOK LiveTurnStands ArrivedIsShown
PROPERTIES OutcomesStand OrphanSettles
CHECK_DEADLOCK FALSE
