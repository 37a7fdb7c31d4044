CONSTANTS
  Window = {w1}
  User = {u1, u2}
  Operator = {u2}
  Command = {show, ping}
  Valued = {ping}
  Reboot = reboot
  None = None
  MaxRuns = 3
  MaxPages = 1
  MaxClicks = 4
  MaxMixed = 1
  MaxVisits = 1
  MaxFaults = 1
SPECIFICATION Spec
CHECK_DEADLOCK FALSE
INVARIANTS TypeOK CookiesAgree OneChain OwnOutput
PROPERTIES WaitEnds PollsEnd
