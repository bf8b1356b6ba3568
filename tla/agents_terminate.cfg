SPECIFICATION Spec
CONSTANTS
  Gnbs = {g1, g2}
  NoGnb = NoGnb
  NoAgent = NoAgent
  AgentList <- MCAgentList
INVARIANT
  TerminatesAll
CHECK_DEADLOCK FALSE
