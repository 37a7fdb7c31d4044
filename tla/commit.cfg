SPECIFICATION Spec
CONSTANTS
  tag = tag
  one = one
  two = two
  leaf = leaf
  multi = multi
  v1 = v1
  v2 = v2
  Root = Root
  Node = {tag, one, two, leaf, multi}
  Above <- Lies
  Leaf = {leaf, multi}
  Multi = {multi}
  Value = {v1, v2}
  Start <- Starts
  MaxEdits = 2
  MaxOthers = 1
INVARIANTS    NothingBack OnlyChanges
CHECK_DEADLOCK FALSE
