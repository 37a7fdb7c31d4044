SPECIFICATION Spec
CONSTANTS
  p1 = p1
  p2 = p2
  p3 = p3
  Proc = {p1, p2, p3}
  None = None
  Retries = 2
  MaxCrashes = 0
PROPERTY HolderKeepsFile
