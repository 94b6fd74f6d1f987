SPECIFICATION Spec
CONSTANTS
  a = a
  b = b
  c1 = c1
  c2 = c2
  NoFile = NoFile
  NoOp = NoOp
  Op = {a, b}
  Kind <- MixedKind
  Digest <- SameDigest
  Generation <- OneGeneration
  Name <- TwoNames
  Chunk = {c1}
  Capacity = 1
  MaxLease = 2
  MaxCrash = 1
INVARIANTS
  JournalsAgree
PROPERTIES
  CollectorSparesLiveUploads
CHECK_DEADLOCK FALSE
