---------------------------- MODULE MCXappSystem ----------------------------
\* The program: one base xApp, and the one gNB that GNB_ID names.
EXTENDS XappSystem
CONSTANTS g1
MCAgentList == <<1>>
MCGnbSeq == <<g1>>
=============================================================================
