SPECIFICATION Spec
CONSTANTS
  u1 = u1
  u2 = u2
  q1 = q1
  q2 = q2
  q3 = q3
  p1 = p1
  p2 = p2
  k1 = k1
  k2 = k2
  i1 = i1
  i2 = i2
  s1 = s1
  Owner <- OwnerOf
  NoPlan = NoPlan
  NoKey = NoKey
  NoIdem = NoIdem
  NoLease = NoLease
  Requesters = {u1, u2}
  Requests = {q1, q2, q3}
  Plans = {p1}
  Keys = {k1, k2}
  IdemKeys = {i1, i2}
  KeyChoice <- QueueKeys
  KeySets <- AnyKeys
  SuppliedIds = {}
  MaxTime = 2
  MaxLag = 0
  MaxLeases = 2
  MaxEpoch = 1
INVARIANTS TypeOK ConflictKeysExclusive IdleCapacityIsGranted
PROPERTIES NoOvertaking
