--------------------------- MODULE MCGraphService ---------------------------
(* Two cryptos and a fiat currency: twelve edges, read in the reverse of   *)
(* the order of their names.                                               *)
EXTENDS GraphService

CONSTANTS usd, c1, c2, f1

MCCryptoPairs == <<c1, c2>>
MCBookQuotes == {<<0, 1>>, <<2, 3>>}
MCStartQuotes == {<<0, 1>>}
MCTickQuotes == {<<2, 1>>}
MCSortedAssets == <<c1, f1, c2, usd>>
MCRowOrders ==
  LET n == Len(MCSortedAssets)
      rows == [i \in 1 .. n * n |-> <<MCSortedAssets[((i - 1) \div n) + 1],
                                      MCSortedAssets[((i - 1) % n) + 1]>>]
  IN {Reverse(rows)}
=============================================================================
