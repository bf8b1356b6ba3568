SPECIFICATION Spec
CONSTANTS
  Requesters <- MCRequesters
  Gnbs <- MCGnbs
  GnbList <- MCGnbList
  NoThread = NoThread
  NoCall = NoCall
  r1 = r1
  r2 = r2
  g1 = g1
  g2 = g2
INVARIANTS
  IInv
  NoTwoCallsPerGnb
  OwnEntryExact
  ResponseEntryHonest
  EarlySuccessIsAnswered
PROPERTY
  ImplementsService
