------------------------------ MODULE Exchange ------------------------------
(***************************************************************************)
(* What the order-entry interface of the LOB server promises, with no      *)
(* threads, locks or handler steps: an order is opened once, trades only   *)
(* while it is open, is cancelled or replaced at most once and only        *)
(* through a handle (the id a client may name), and keeps its handle for   *)
(* as long as it is open.  Replacing is one indivisible step.  LobServer   *)
(* is shown to implement this specification.                               *)
(***************************************************************************)
EXTENDS Integers

CONSTANTS
  Ids,      \* the order ids
  Symbols,  \* the traded symbols
  Sizes     \* the quantities a client can ask for

VARIABLES
  open,       \* the open orders: records id, sym, side, qty
  born,       \* the ids that were ever opened
  cancelled,  \* the ids a cancel or a replace took out of the market
  handles,    \* the ids a client can cancel or replace
  fills       \* the trades: records sym, pass, take, qty

vars == <<open, born, cancelled, handles, fills>>

Order == [id : Ids, sym : Symbols, side : {"B", "A"}, qty : Sizes]

Least(m, n) == IF m < n THEN m ELSE n

Init ==
  /\ open = {} /\ born = {} /\ cancelled = {}
  /\ handles = {} /\ fills = {}

\* An order starts to trade, under an id no order had before.
Open(o) ==
  /\ o.id \notin born
  /\ open' = open \cup {o}
  /\ born' = born \cup {o.id}
  /\ UNCHANGED <<cancelled, handles, fills>>

\* Two open orders of opposite sides trade as much as both have left.
Trade(p, k) ==
  /\ p.sym = k.sym /\ p.side # k.side
  /\ LET n == Least(p.qty, k.qty)
     IN  /\ fills' = fills \cup {[sym |-> p.sym, pass |-> p.id, take |-> k.id, qty |-> n]}
         /\ open' = (open \ {p, k})
                      \cup {o \in {[p EXCEPT !.qty = @ - n], [k EXCEPT !.qty = @ - n]} : o.qty > 0}
  /\ UNCHANGED <<born, cancelled, handles>>

\* What a market order could not fill leaves the market.
Expire(o) ==
  /\ o.id \notin handles
  /\ open' = open \ {o}
  /\ UNCHANGED <<born, cancelled, handles, fills>>

Cancel(o) ==
  /\ o.id \in handles
  /\ open' = open \ {o}
  /\ cancelled' = cancelled \cup {o.id}
  /\ UNCHANGED <<born, handles, fills>>

\* Cancel and re-place under a new id, on the same side of the same book.
Replace(o, n) ==
  /\ o.id \in handles /\ n.id \notin born
  /\ n.sym = o.sym /\ n.side = o.side
  /\ open' = (open \ {o}) \cup {n}
  /\ born' = born \cup {n.id}
  /\ cancelled' = cancelled \cup {o.id}
  /\ UNCHANGED <<handles, fills>>

\* Handles are given to orders that were opened and not cancelled, and are
\* taken from cancelled orders only.
Rehandle(drop, give) ==
  /\ drop \subseteq cancelled
  /\ give \subseteq born \ cancelled
  /\ handles' = (handles \ drop) \cup give
  /\ UNCHANGED <<open, born, cancelled, fills>>

AtMostOne(S) == {{}} \cup {{x} : x \in S}

Next ==
  \/ \E o \in Order : Open(o)
  \/ \E p, k \in open : Trade(p, k)
  \/ \E o \in open : Expire(o) \/ Cancel(o)
  \/ \E o \in open, n \in Order : Replace(o, n)
  \/ \E drop \in AtMostOne(handles), give \in AtMostOne(born) : Rehandle(drop, give)

Spec == Init /\ [][Next]_vars

=============================================================================
