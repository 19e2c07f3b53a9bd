---------------------------- MODULE MCOrderEntry ----------------------------
\* A level on either side, two clients, one of which the filter refuses.
EXTENDS OrderEntry

CONSTANTS bid, ask, r1, r2

TwoLevels == {bid, ask}
TwoRequests == {r1, r2}
Refused == {r2}
AllOrders == ((1 .. MaxUpdates) \X TwoLevels) \cup (TwoRequests \X (1 .. MaxAttempts))

\* The feeder alone, the clients alone, and the feeder with a client.
Mixtures == {[shown |-> {bid}, updates |-> 3, clients |-> {}],
             [shown |-> {}, updates |-> 0, clients |-> {r1, r2}],
             [shown |-> {bid, ask}, updates |-> 2, clients |-> {r1}]}
=============================================================================
