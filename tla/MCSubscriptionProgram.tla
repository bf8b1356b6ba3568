------------------------ MODULE MCSubscriptionProgram ------------------------
\* The program: main subscribes once to each gNB of the RNIB list.
EXTENDS SubscriptionHandler
CONSTANTS main, g1, g2, g3
MCRequesters == {main}
MCGnbs == {g1, g2, g3}
MCGnbList == [r \in {main} |-> <<g1, g2, g3>>]
=============================================================================
