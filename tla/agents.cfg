SPECIFICATION Spec
CONSTANTS
  Gnbs = {g1, g2, g3}
  NoGnb = NoGnb
  NoAgent = NoAgent
  AgentList <- MCAgentList
INVARIANTS
  TypeOK
  OneAgentPerGnb
  ControlsKeepGnb
  SignalAfterRequests
PROPERTIES
  IndicationsKeepAgent
  SharedOnlyBeyondCapacity
  TerminationEnds
CHECK_DEADLOCK FALSE
