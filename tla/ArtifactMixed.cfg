SPECIFICATION Spec
CONSTANTS
  a = a
  b = b
  c1 = c1
  c2 = c2
  NoFile = NoFile
  NoOp = NoOp
  Op = {a, b}
  Kind <- MixedKind
  Digest <- MixedDigest
  Generation <- OneGeneration
  Name <- OneName
  Chunk = {c1}
  Capacity = 2
  MaxLease = 1
  MaxCrash = 1
INVARIANTS
  TypeOK
  StagedIsReserved
PROPERTIES
  KeepsPromise
  IntentsSettle
CHECK_DEADLOCK FALSE
