---------------------------- MODULE MCLobServer -----------------------------
(***************************************************************************)
(* LobServer for TLC: two threads race over three orders of two symbols    *)
(* that share a stripe.                                                    *)
(***************************************************************************)
EXTENDS LobServer

CONSTANTS btc, eth, stripe

MCSymbols == {btc, eth}

MCStripes == {stripe}

MCStripeOf == [s \in MCSymbols |-> stripe]

Limit(sym, side, price, qty) ==
  [sym |-> sym, side |-> side, type |-> "LIMIT", price |-> price, qty |-> qty]

Market(sym, side, qty) ==
  [sym |-> sym, side |-> side, type |-> "MARKET", price |-> 1, qty |-> qty]

\* Two price levels: a taker fills partly, fully, or sweeps both levels.
MCBodies ==
  {Limit(btc, "B", 2, 2), Limit(btc, "A", 2, 1), Limit(btc, "A", 1, 1),
   Market(btc, "B", 2), Limit(eth, "B", 1, 1)}

\* Move through the other side of the book, or away from it.
MCChanges == {[price |-> 1, qty |-> 1], [price |-> 2, qty |-> 2]}

=============================================================================
