SPECIFICATION Spec
CONSTANTS
  session = session
  machine = machine
  artifact = artifact
  Entity = {session, machine, artifact}
  Client = {c1}
  Sweeper = {w1, w2}
  PageLimit = 2
  BatchSize = 2
  MaxSeq = 3
SYMMETRY MCSymmetry
INVARIANTS FloorCoversPruned CursorsDistinct
PROPERTIES CompleteWhenCalm
CHECK_DEADLOCK FALSE
