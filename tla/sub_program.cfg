SPECIFICATION Spec
CONSTANTS
  Requesters <- MCRequesters
  Gnbs <- MCGnbs
  GnbList <- MCGnbList
  NoThread = NoThread
  NoCall = NoCall
  main = main
  g1 = g1
  g2 = g2
  g3 = g3
INVARIANTS
  TypeOK
  OwnResponse
PROPERTY
  CallReturns
