SPECIFICATION FairSpec
CONSTANTS
  p1 = p1
  p2 = p2
  p3 = p3
  Proc = {p1, p2, p3}
  None = None
  Retries = 2
  MaxCrashes = 1
INVARIANT HolderOwnsFile
PROPERTIES AnswerComes OrphanGoes
