---------------------------- MODULE MCTickHistory ---------------------------
\* Four trades of Kraken, two of which reach the consumer, and one of the own
\* book: with every second row missing there are two gaps at a time.
EXTENDS TickHistory
KrakenTrades == 1 .. 4
OwnTrades == {5}
ReceivedTrades == {1, 3, 5}

CONSTANTS l1, l2
Processes == {l1, l2}

\* The backfiller alone, two loaders alone, and one of each.
Mixtures == {[now |-> 3, cycles |-> 2, loaders |-> {}],
             [now |-> 4, cycles |-> 0, loaders |-> {l1, l2}],
             [now |-> 5, cycles |-> 1, loaders |-> {l1}]}
=============================================================================
