SPECIFICATION OvercountedSpec
CONSTANTS
  l1 = l1
  l2 = l2
  plain = plain
  None = None
  LocalId = {l1, l2}
  Content = {plain}
  Policies <- MCPolicies
  Participant = {owner}
  Runner = {r1, cli}
  Sender = {cli}
  MaxChanges = 1
  MaxDeploys = 1
INVARIANTS RunnerTypeOK ViewIsTrue
PROPERTIES PromptsLeaveQueue CountHeals
CHECK_DEADLOCK FALSE
