---------------------------- MODULE MCSingleAgent ----------------------------
\* The agents of the program as it is built: AGENT_0 alone.
EXTENDS AgentConnector
MCAgentList == <<1>>
=============================================================================
