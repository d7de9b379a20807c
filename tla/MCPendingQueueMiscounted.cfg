SPECIFICATION MiscountedSpec
CONSTANTS
  l1 = l1
  l2 = l2
  plain = plain
  None = None
  LocalId = {l1, l2}
  Content = {plain}
  Policies <- MCPolicies
  Participant = {owner}
  Runner = {r1}
  Sender = {}
  MaxChanges = 1
  MaxDeploys = 1
PROPERTIES PromptsLeaveQueue
CHECK_DEADLOCK FALSE
