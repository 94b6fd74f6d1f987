SPECIFICATION Spec
CONSTANTS
  r1 = r1
  r2 = r2
  r3 = r3
  a = a
  b = b
  c = c
  NoOp = NoOp
  Replica = {r1, r2, r3}
  Op = {a, b}
  Placement <- Everywhere
  Factor <- ThreeCopies
  Consistency <- OneThenQuorum
  Generation <- ZeroThenOne
  Expected <- NoneThenZero
  Backup = {r3}
  MaxFault = 2
  MaxJob = 1
PROPERTY
  ReplayIsSafe
CHECK_DEADLOCK FALSE
