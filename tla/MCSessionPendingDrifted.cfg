SPECIFICATION DriftedSpec
CONSTANTS
  l1 = l1
  l2 = l2
  l3 = l3
  plain = plain
  encrypted = encrypted
  None = None
  LocalId = {l1, l2}
  Content = {plain, encrypted}
  Policies <- MCPolicies
  Participant = {owner, guest}
  Runner = {r1, r2}
  MaxChanges = 2
  MaxDeploys = 1
INVARIANTS TypeOK PositionsDistinct NoPromptLost NothingPendingIsTrue
PROPERTIES DriftNeverGrows
SYMMETRY MCSymmetry
CHECK_DEADLOCK FALSE
