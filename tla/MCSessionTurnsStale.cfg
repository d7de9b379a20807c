SPECIFICATION Spec
CONSTANTS
  MaxTurns = 2
  MaxLives = 2
  MaxFacts = 3
  MaxClock = 3
  MaxNotes = 1
  MaxLost = 0
  Window = 1
PROPERTIES EndsSpareNewerTurns
CHECK_DEADLOCK FALSE
