SPECIFICATION Spec
CONSTANTS
  NULL = NULL
  main = main
  agent_rx = agent_rx
  Senders <- MCSenders
  Quota <- MCQuota
  NAttempts = 2
INVARIANTS
  TypeOK
  LoneMessageIntact
  LoneResultTellsTruth
  NullOnlyUnallocatedOrByOverlap
PROPERTY
  SendReturns
