SPECIFICATION Spec
CONSTANTS
  r1 = r1
  Receivers = {r1}
  Contents <- MCContents
  MaxMessages = 3
  xapp_id = "hwxapp"
  Mistyped = Mistyped
INVARIANTS
  TypeOK
  ReturnedAreAnswers
  HandledOnceInOrder
PROPERTY
  NoneWaitsForEver
