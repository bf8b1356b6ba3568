------------------------------ MODULE MCAgents ------------------------------
\* Two agents, listed against the order of the map, and three gNBs: the
\* agents may be too few, and connect late or never.
EXTENDS AgentConnector
MCAgentList == <<2, 1>>
=============================================================================
