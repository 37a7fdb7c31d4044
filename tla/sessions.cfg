SPECIFICATION FairSpec
CONSTANTS
  w1 = w1
  w2 = w2
  u1 = u1
  u2 = u2
  s1 = s1
  s2 = s2
  Window = {w1, w2}
  User = {u1, u2}
  Sid = {s1, s2}
  None = None
  Absent = Absent
  Seats <- OneOrTwoUsers
  Admin = {u1}
  Timeout = 1
  Timely = TRUE
INVARIANTS TypeOK AsItself OneSession StaysMounted
PROPERTIES LoginUsable ActiveKept OldGoes
