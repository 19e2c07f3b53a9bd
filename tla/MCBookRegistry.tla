--------------------------- MODULE MCBookRegistry ---------------------------
(***************************************************************************)
(* BookRegistry for TLC: three symbols, two of which share a stripe, so    *)
(* that handlers of one symbol, of one stripe and of two stripes meet.     *)
(***************************************************************************)
EXTENDS BookRegistry

CONSTANTS btc, eth, sol

MCSymbols == {btc, eth, sol}

MCStripeOf == [y \in MCSymbols |-> IF y = sol THEN 1 ELSE 0]

=============================================================================
