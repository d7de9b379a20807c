SPECIFICATION Spec
CONSTANTS
  l1 = l1
  l2 = l2
  l3 = l3
  plain = plain
  encrypted = encrypted
  None = None
  LocalId = {l1, l2, l3}
  Content = {plain}
  Policies <- MCOnePolicy
  Participant = {owner, guest}
  Runner = {r1}
  MaxChanges = 5
  MaxDeploys = 1
INVARIANTS CountMatchesQueue SeqsDense HintIsCurrent
PROPERTIES ChangesAreVersioned TranscriptPlaceIsFinal ImplementsPromptQueue
CHECK_DEADLOCK FALSE
