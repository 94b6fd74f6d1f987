SPECIFICATION Spec

CONSTANTS
  t1 = t1
  t2 = t2
  k1 = k1
  k2 = k2
  s1 = s1
  s2 = s2
  p1 = p1
  p2 = p2
  l1 = l1
  NoLease = NoLease
  Callers = {c1, c2}
  Contexts <- TokenContexts
  WriteFaults = {}
  MaxFrames = 3
  MaxBoots = 2

INVARIANTS
  TypeOK
  ReferenceCommittedOnce
  CommittedAtMostOnce
  SuccessIsForOneSelection

PROPERTIES
  ValidationEnds

CHECK_DEADLOCK FALSE
