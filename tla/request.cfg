CONSTANTS
  Window = {w1, w2}
  A = a
  B = b
  Bad = bad
  Quiet = quiet
  Marked = marked
  Broken = broken
  Long = long
  Value = {a, b, bad, quiet, marked, broken, long}
  Kind <- MCKind
  Size <- MCSize
  Frame = 2
  Line = 4
  Buffer = 5
  RequestLimit = 7
  Delete = Delete
  None = None
  MaxValues = 2
  MaxRequests = 1
  MaxChanges = 1
  MaxKills = 1
  MaxDirt = 1
SPECIFICATION Spec
CHECK_DEADLOCK FALSE
SYMMETRY Symmetry
INVARIANTS  LastComplete
