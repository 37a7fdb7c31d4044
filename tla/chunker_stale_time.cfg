SPECIFICATION Spec
CONSTANTS
  t1 = t1
  t2 = t2
  c1 = c1
  c2 = c2
  Token = {t1}
  Client = {c1}
  TokenOf <- OneWindow
  MaxGroup = 2
  MaxOut = 1
  MaxRuns = 2
  MaxPauses = 0
  ChunkSize = 1
  KillTimeout = 1
  Backlog = 2
  Timely = TRUE
  Events = {"time"}
PROPERTY OrphansOnly
CHECK_DEADLOCK FALSE
