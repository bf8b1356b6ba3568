------------------------ MODULE MCSubscriptionCallers ------------------------
\* Two threads that share the handler and overlap on a gNB; one of them
\* subscribes to it again.
EXTENDS SubscriptionHandler
CONSTANTS r1, r2, g1, g2
MCRequesters == {r1, r2}
MCGnbs == {g1, g2}
MCGnbList == [r \in {r1, r2} |-> IF r = r1 THEN <<g1, g1>> ELSE <<g1, g2>>]
=============================================================================
