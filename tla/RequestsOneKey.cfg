SPECIFICATION Spec

CONSTANTS
  Keys = {k1}
  UserTokens = {u1, u2}
  NoToken = NoToken
  ProvisionalTtl = 2
  AckTtls = {1, 3}
  MaxPending = 1
  MaxTokens = 3
  MaxJobs = 2

INVARIANTS
  TypeOK
  TokenConsumedOnce
  PendingIsScheduled
  LapsedTokenStaysDead

PROPERTIES
  RequestKeepsItsHorizon
  PendingIsCleaned
