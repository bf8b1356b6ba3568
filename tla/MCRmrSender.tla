----------------------------- MODULE MCRmrSender -----------------------------
\* main subscribes while an agent thread sends control requests.
EXTENDS RmrSender
CONSTANTS main, agent_rx
MCSenders == {main, agent_rx}
MCQuota == [t \in MCSenders |-> IF t = main THEN 2 ELSE 1]
=============================================================================
