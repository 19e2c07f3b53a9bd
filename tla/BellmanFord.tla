---------------------------- MODULE BellmanFord -----------------------------
(***************************************************************************)
(* module3_graph/bellman_ford.py: the search for a profitable cycle.       *)
(*                                                                         *)
(* A rate is represented by its logarithm, an integer, so that the profit  *)
(* of a path is the sum of its rates and the weight of an edge is minus    *)
(* its rate.  rates maps the edges of the graph, pairs of assets, to their *)
(* bids; rows is a sequence of these edges, in the order the database      *)
(* returns them.                                                           *)
(***************************************************************************)
EXTENDS Integers, FiniteSets, SequencesExt

NodesOf(rates) == {e[1] : e \in DOMAIN rates} \cup {e[2] : e \in DOMAIN rates}

\* The elements of S in the order they have in s.
Only(S, s) ==
  LET from[i \in 0 .. Len(s)] ==
        IF i = 0 THEN <<>>
        ELSE IF s[i] \in S THEN Append(from[i - 1], s[i]) ELSE from[i - 1]
  IN from[Len(s)]

\* dist and pred are known for the nodes that have been reached: the others
\* have distance infinity and predecessor -1.
Start(source) == [dist |-> [v \in {source} |-> 0], pred |-> <<>>]

\* f with the value e for x.
Assigned(f, x, e) == [y \in DOMAIN f \cup {x} |-> IF y = x THEN e ELSE f[y]]

Through(rates, t, e) == t.dist[e[1]] - rates[e]

Shorter(rates, t, e) ==
  /\ e[1] \in DOMAIN t.dist
  /\ e[2] \in DOMAIN t.dist => Through(rates, t, e) < t.dist[e[2]]

Relax(rates, t, e) ==
  IF Shorter(rates, t, e)
  THEN [dist |-> Assigned(t.dist, e[2], Through(rates, t, e)),
        pred |-> Assigned(t.pred, e[2], e[1])]
  ELSE t

\* A relaxation pass, over all rows.
Pass(rates, rows, t) ==
  LET relaxed[i \in 0 .. Len(rows)] ==
        IF i = 0 THEN t ELSE Relax(rates, relaxed[i - 1], rows[i])
  IN relaxed[Len(rows)]

\* The passes, one less than there are nodes; one that changes nothing is the
\* last that could.
Tree(rates, rows, source) ==
  LET n == Cardinality(NodesOf(rates))
      after[i \in 0 .. n - 1] ==
        IF i = 0 THEN Start(source) ELSE Pass(rates, rows, after[i - 1])
  IN after[n - 1]

\* The node i predecessors back, or the root's missing predecessor.
Before(pred, v) == IF v \in DOMAIN pred THEN pred[v] ELSE <<>>

Back(pred, node, i) ==
  LET walk[k \in 0 .. i] == IF k = 0 THEN node ELSE Before(pred, walk[k - 1])
  IN walk[i]

\* Mutant: the cycle is not reversed.
LoopBackwards(pred, node, n) ==
  LET returns == {i \in 1 .. n : Back(pred, node, i) = node}
      length  == CHOOSE i \in returns : \A j \in returns : i <= j
  IN IF returns = {} THEN <<>>
     ELSE [i \in 1 .. length + 1 |-> Back(pred, node, i - 1)]

\* The path that leads from node back to itself within n predecessors, read
\* forwards; none if there is no such path.
Loop(pred, node, n) ==
  LET returns == {i \in 1 .. n : Back(pred, node, i) = node}
      length  == CHOOSE i \in returns : \A j \in returns : i <= j
  IN IF returns = {} THEN <<>>
     ELSE [i \in 1 .. length + 1 |-> Back(pred, node, length + 1 - i)]

\* n predecessors back is inside a cycle, if the walk does not end at the root.
ExtractCycle(pred, start, n) ==
  IF Back(pred, start, n) = <<>> THEN <<>> ELSE Loop(pred, Back(pred, start, n), n)

\* The first edge of the last pass that can still be relaxed and leads to a
\* cycle.
CycleFrom(rates, rows, source) ==
  LET t == Tree(rates, rows, source)
      Cycle(i) == ExtractCycle(t.pred, rows[i][2], Cardinality(NodesOf(rates)))
      found == {i \in 1 .. Len(rows) : Shorter(rates, t, rows[i]) /\ Len(Cycle(i)) >= 3}
  IN IF found = {} THEN <<>> ELSE Cycle(CHOOSE i \in found : \A j \in found : i <= j)

\* Every source is tried in turn until a cycle is found; the empty sequence
\* stands for None.
BellmanFordArbitrage(rates, rows, nodes) ==
  LET from[i \in 1 .. Len(nodes) + 1] ==
        IF i > Len(nodes) THEN <<>>
        ELSE LET cycle == CycleFrom(rates, rows, nodes[i])
             IN IF cycle # <<>> THEN cycle ELSE from[i + 1]
  IN from[1]

\* compute_cycle_profit: the product of the rates along a cycle, less one.
CycleProfit(cycle, rates) ==
  LET profit[i \in 1 .. Len(cycle)] ==
        IF i = 1 THEN 0 ELSE profit[i - 1] + rates[<<cycle[i - 1], cycle[i]>>]
  IN profit[Len(cycle)]

-----------------------------------------------------------------------------
(* What a profitable cycle is, without the algorithm.                      *)

\* The closed paths over the given nodes that visit no node twice.
SimpleCycles(nodes) ==
  {Append(s, s[1]) : s \in {s \in UNION {[1 .. n -> nodes] : n \in 2 .. Cardinality(nodes)} :
                              IsInjective(s)}}

IsProfitable(cycle, rates) ==
  /\ \A i \in 1 .. Len(cycle) - 1 : <<cycle[i], cycle[i + 1]>> \in DOMAIN rates
  /\ CycleProfit(cycle, rates) > 0
=============================================================================
