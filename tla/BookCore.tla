------------------------------ MODULE BookCore ------------------------------
(***************************************************************************)
(* The matching engine lob::BookCore, a library that is not part of this   *)
(* repository's source (module1_lob/engine is an empty submodule).  It is  *)
(* modelled from how lob_server.cpp uses it: submit_limit, submit_market,  *)
(* cancel and topN, price-time priority, trades at the passive price.      *)
(*                                                                         *)
(* A resting order is a record with fields id, sym, side, price, qty and   *)
(* at, its arrival number in the books.  An incoming order (NewOrder) has  *)
(* fields id, sym, side, type, price and qty.                              *)
(***************************************************************************)
EXTENDS Integers

Sides == {"B", "A"}

Types == {"LIMIT", "MARKET"}

Opposite(side) == IF side = "B" THEN "A" ELSE "B"

\* A limit price on one side reaches a resting price on the other.
Reaches(side, price, other) ==
  \/ side = "B" /\ other <= price
  \/ side = "A" /\ other >= price

\* Price-time priority between two resting orders of the same side.
Ahead(o, p) ==
  \/ o.side = "B" /\ o.price > p.price
  \/ o.side = "A" /\ o.price < p.price
  \/ o.price = p.price /\ o.at < p.at

\* The resting orders an incoming order can trade with.
Facing(orders, o) ==
  {p \in orders : /\ p.sym = o.sym
                  /\ p.side = Opposite(o.side)
                  /\ o.type = "LIMIT" => Reaches(o.side, o.price, p.price)}

\* The one it trades with next: the first in price-time priority.
Front(orders, o) ==
  {p \in Facing(orders, o) : \A q \in Facing(orders, o) \ {p} : Ahead(p, q)}

Lesser(m, n) == IF m < n THEN m ELSE n

\* A resting order that gives up n units, and leaves the book with the last.
Reduced(orders, p, n) ==
  (orders \ {p}) \cup (IF n < p.qty THEN {[p EXCEPT !.qty = @ - n]} ELSE {})

\* BookCore::cancel: the order is taken out of the book of its symbol.
Cancelled(orders, sym, oid) ==
  {p \in orders : ~(p.sym = sym /\ p.id = oid)}

=============================================================================
