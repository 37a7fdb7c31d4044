CONSTANTS
  system = system
  service = service
  hostname = hostname
  ciphers = ciphers
  enabled = enabled
  v1 = v1
  v2 = v2
  Node = {system, service}
  Text = {hostname}
  Check = {enabled}
  List = {ciphers}
  Leaves <- LeavesDef
  Choice <- ChoiceDef
  Start <- StartDef
  Root = Root
  Submit = Submit
  None = None
  MaxClicks = 2
  MaxEdits = 3
  MaxCommands = 3
  MaxRefused = 1
  MaxOdd = 1
SPECIFICATION Spec
CHECK_DEADLOCK FALSE
INVARIANTS SentToItsNode  CommitOffered WaitHasRequest
