SPECIFICATION Spec

CONSTANTS
  u1 = u1
  u2 = u2
  q1 = q1
  q2 = q2
  pa = pa
  pb = pb
  Owner <- OwnerOf
  Requesters = {u1, u2}
  Requests = {q1}
  Plans = {plan}
  Plan = plan
  NoPlan = NoPlan
  Keys = {slot}
  NoKey = NoKey
  IdemKeys = {}
  NoIdem = NoIdem
  NoLease = NoLease
  Providers = {pa, pb}
  Assignment <- Crossed
  Roles = {r1}
  CapacityWait = 1
  ReservationTtl = 2
  HardDeadline = 2
  Revalidation = TRUE
  MaxFaults = 2
  Prompt = FALSE
  MaxStart = 0
  MaxTime = 2
  MaxBoots = 2

INVARIANTS
  PartialCommitNeverExecutes

CHECK_DEADLOCK FALSE
