SPECIFICATION SystemSpec
CONSTANTS
  AgentList <- MCAgentList
  g1 = g1
  Gnbs = {g1}
  GnbSeq <- MCGnbSeq
  NoGnb = NoGnb
  NoAgent = NoAgent
  MaxReports = 2
INVARIANTS
  SystemTypeOK
  PassedAsAnswered
PROPERTIES
  AnswersPassedOn
  StartupEnds
CHECK_DEADLOCK FALSE
