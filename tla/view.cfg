SPECIFICATION ViewSpec
CONSTANTS
  tag = tag
  one = one
  leaf = leaf
  v1 = v1
  v2 = v2
  Root = Root
  Node = {tag, one, leaf}
  Above <- Lies
  Leaf = {leaf}
  Multi = {leaf}
  Value = {v1, v2}
  Start <- Starts
  MaxEdits = 2
  MaxOthers = 0
INVARIANTS ViewTypeOK  NoneMissing
CHECK_DEADLOCK FALSE
