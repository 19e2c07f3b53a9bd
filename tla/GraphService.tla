---------------------------- MODULE GraphService ----------------------------
(***************************************************************************)
(* The graph service, module3_graph: graph_init.py makes the edges of      *)
(* fx_graph, edge_weight_updater.py refreshes their rates round by round,  *)
(* and the detector of bellman_ford.py reads them and inserts signals.     *)
(*                                                                         *)
(* The updater and the detector are tasks of one event loop: the detector  *)
(* runs only where the updater awaits.  Every statement commits on its     *)
(* own.  A rate is represented by its logarithm; a quote is a bid and an   *)
(* ask.  All rates are derived from quotes in USD.  The graph is in the    *)
(* database, and outlives the service.                                     *)
(***************************************************************************)
EXTENDS BellmanFord

CONSTANTS
  USD,
  CryptoPairs, \* CRYPTO_PAIRS: the cryptos in the order they are refreshed
  Fiats,       \* FIAT_CURRENCIES
  BookQuotes,  \* bound: quotes of the order book
  StartQuotes, \* bound: quotes of the exchange when the service starts
  TickQuotes,  \* bound: quotes made of recent trades
  FiatRates,   \* bound: exchange rates of USD
  StartRates,  \* bound: those when the service starts
  SortedAssets, \* the assets in the order of their names
  RowOrders,   \* bound: orders in which edges, any pairs, are read and are set
  MaxFaults    \* bound: statements that fail

Cryptos == ToSet(CryptoPairs)
Assets == Cryptos \cup Fiats \cup {USD}

ASSUME AssetAssumption ==
  USD \notin Cryptos \cup Fiats /\ Cryptos \cap Fiats = {}
  /\ CryptoPairs # <<>> /\ CryptoPairs \in Seq(Cryptos) /\ IsInjective(CryptoPairs)
  /\ ToSet(SortedAssets) = Assets

\* <<>> stands for the predecessor that a node does not have.
ASSUME OrderAssumption ==
  /\ <<>> \notin Assets /\ SortedAssets \in Seq(Assets)
  /\ \A order \in RowOrders : order \in Seq(Assets \X Assets)
  /\ \A order \in RowOrders : \A a, b \in Assets : a # b => <<a, b>> \in ToSet(order)

\* The two sides of a book do not cross (LobServer!NeverCrossed); trades do
\* not either side of a price.
ASSUME QuoteAssumption ==
  /\ BookQuotes \cup StartQuotes \subseteq {q \in Int \X Int : q[1] <= q[2]}
  /\ TickQuotes \subseteq Int \X Int
  /\ FiatRates \cup StartRates \subseteq Int /\ MaxFaults \in Nat

VARIABLES
  pc,     \* where the updater is, or that the service is down
  pair,   \* the pair it refreshes next
  prices, \* crypto_usd_prices: the quotes of this round
  fiat,   \* _fiat_cache
  graph,  \* the bid of every EXCHANGE edge
  ask,    \* the ask of the edge from a crypto to USD
  signal, \* whether arbitrage_signals has a row of method CLASSICAL
  crossed, \* history: whether a bid was above its ask
  missed, \* history: whether this round lacks a quote or had a failure
  faults  \* history: the statements that failed

edges == <<graph, ask>>
vars == <<pc, pair, prices, fiat, edges, signal, crossed, missed, faults>>

-----------------------------------------------------------------------------
(* The rates.                                                              *)

\* f, and g where f has no value; and a function of one argument.
f ++ g == [x \in DOMAIN f \cup DOMAIN g |-> IF x \in DOMAIN f THEN f[x] ELSE g[x]]
Of(d, e) == [x \in {d} |-> e]

Bid(q) == q[1]
Ask(q) == q[2]

Pairs(A, B) == {e \in A \X B : e[1] # e[2]}

\* A crypto and USD: the inverse of the ask is the bid of the inverse.
PairBids(p) ==
  [e \in Pairs(DOMAIN p, {USD}) |-> Bid(p[e[1]])] ++
  [e \in Pairs({USD}, DOMAIN p) |-> -Ask(p[e[2]])]

CrossBids(p) ==
  [e \in Pairs(DOMAIN p, DOMAIN p) |-> Bid(p[e[1]]) - Ask(p[e[2]])]

\* USD and a fiat currency, half a spread around its rate, and two fiat
\* currencies, with twice that.
FiatBids(r) ==
  [e \in Pairs({USD}, DOMAIN r) |-> r[e[2]] - 1] ++
  [e \in Pairs(DOMAIN r, {USD}) |-> -(r[e[1]] + 1)] ++
  [e \in Pairs(DOMAIN r, DOMAIN r) |-> r[e[2]] - r[e[1]] - 2]

\* A crypto and a fiat currency, by way of USD.
MixedBids(p, r) ==
  [e \in Pairs(DOMAIN p, DOMAIN r) |-> Bid(p[e[1]]) + r[e[2]]] ++
  [e \in Pairs(DOMAIN r, DOMAIN p) |-> -(Ask(p[e[2]]) + r[e[1]])]

\* A fiat currency has one rate here, its bid and ask lie around it.
AllBids(p, r) == PairBids(p) ++ CrossBids(p) ++ FiatBids(r) ++ MixedBids(p, r)

\* MATCH ... SET changes edges that exist and makes none.
Set(bids) == [e \in DOMAIN graph |-> IF e \in DOMAIN bids THEN bids[e] ELSE graph[e]]

\* One of the statements fails, and those after it are not tried.
SetSome(bids) ==
  \E order \in RowOrders : \E i \in DOMAIN order :
    /\ order[i] \in DOMAIN bids
    /\ graph' = Set(Restrict(bids, DOMAIN bids \cap ToSet(SubSeq(order, 1, i - 1))))

Partial(S, T) == UNION {[D -> T] : D \in SUBSET S}

\* Before the first start there is no edge.
Init ==
  /\ graph = <<>> /\ ask = <<>>
  /\ pc = "down" /\ pair = 1 /\ prices = <<>> /\ fiat = <<>>
  /\ signal = FALSE /\ crossed = FALSE /\ missed = FALSE /\ faults = 0

-----------------------------------------------------------------------------
(* The start and the end of the service.                                   *)

\* The tasks start with nothing but the graph.
Launch ==
  /\ pc = "down" /\ pc' = "pair"
  /\ UNCHANGED <<pair, prices, fiat, signal, crossed, missed>>

\* init_graph, one transaction: the edges between the assets for which the
\* exchanges gave a quote, or, if they gave none, between all of them with
\* built-in rates.  Edges that exist are set, and the others stay.
InitGraph ==
  /\ Launch
  /\ \E p \in Partial(Cryptos, StartQuotes), r \in Partial(Fiats, StartRates) :
       /\ p # <<>> /\ r # <<>>
       /\ graph' = AllBids(p, r) ++ graph
       /\ ask' = [c \in DOMAIN p |-> Ask(p[c])] ++ ask
  /\ UNCHANGED faults

\* init_graph fails: the exception is caught, the transaction rolled back.
InitGraphFails ==
  /\ Launch
  /\ faults < MaxFaults /\ faults' = faults + 1
  /\ UNCHANGED edges

\* The tasks are cancelled where they await, a dead updater's exception ends the
\* lifespan, or the process is killed; one that is killed between two statements
\* leaves what the failure of the second one leaves.  Its memory is lost.
Shutdown ==
  /\ pc # "down" /\ pc' = "down" /\ pair' = 1
  /\ prices' = <<>> /\ fiat' = <<>> /\ missed' = FALSE
  /\ UNCHANGED <<edges, signal, crossed, faults>>

-----------------------------------------------------------------------------
(* A round of the updater.                                                 *)

Crypto == CryptoPairs[pair]

\* Mutant: one pair too many.
NextPairBeyond ==
  IF pair <= Len(CryptoPairs) THEN pair' = pair + 1 /\ UNCHANGED pc
                              ELSE pc' = "cross" /\ UNCHANGED pair

NextPair ==
  IF pair < Len(CryptoPairs) THEN pair' = pair + 1 /\ UNCHANGED pc
                             ELSE pc' = "cross" /\ UNCHANGED pair

Fault == faults < MaxFaults /\ faults' = faults + 1 /\ missed' = TRUE

SetAsk(c, q) == [d \in DOMAIN ask |-> IF d = c THEN Ask(q) ELSE ask[d]]

\* Mutant: the inverse edge is left alone.
UpdateEdge(q) ==
  /\ pc = "pair" /\ NextPair
  /\ graph' = Set(Of(<<Crypto, USD>>, Bid(q))) /\ ask' = SetAsk(Crypto, q)
  /\ prices' = Of(Crypto, q) ++ prices
  /\ crossed' = (crossed \/ Bid(q) > Ask(q))
  /\ UNCHANGED <<fiat, signal, missed, faults>>

\* The quote of a pair has been fetched: both its edges are set.
UpdatePair(q) ==
  /\ pc = "pair" /\ NextPair
  /\ graph' = Set(PairBids(Of(Crypto, q))) /\ ask' = SetAsk(Crypto, q)
  /\ prices' = Of(Crypto, q) ++ prices
  /\ crossed' = (crossed \/ Bid(q) > Ask(q))
  /\ UNCHANGED <<fiat, signal, missed, faults>>

\* From the depth of the book.
FromLob == \E q \in BookQuotes : UpdatePair(q)

\* There is no depth: the best of the last trades.
FromTicks == \E q \in TickQuotes : UpdatePair(q)

\* There is no trade either.
NoQuote ==
  /\ pc = "pair" /\ NextPair
  /\ missed' = TRUE
  /\ UNCHANGED <<prices, fiat, edges, signal, crossed, faults>>

\* A statement fails: the inverse edge, and perhaps the edge, keeps its rate.
UpdatePairFails ==
  /\ pc = "pair" /\ Fault /\ NextPair
  /\ \/ UNCHANGED edges
     \/ \E q \in BookQuotes \cup TickQuotes :
          /\ graph' = Set(Of(<<Crypto, USD>>, Bid(q)))
          /\ ask' = SetAsk(Crypto, q)
  /\ UNCHANGED <<prices, fiat, signal, crossed>>

\* The quotes of this round, and for the other cryptos what the graph holds.
Filled(C) == prices ++ [c \in C \cap DOMAIN ask |-> <<graph[<<c, USD>>], ask[c]>>]

\* The fiat rates are fetched if there are none or FIAT_POLL_INTERVAL is over.
AfterCross == {"fiat"} \cup (IF fiat # <<>> THEN {"edges"} ELSE {})

\* Mutant: only the quotes of this round are used.
CrossUnfilled ==
  /\ pc = "cross" /\ pc' \in AfterCross
  /\ graph' = Set(CrossBids(prices))
  /\ UNCHANGED <<pair, prices, fiat, ask, signal, crossed, missed, faults>>

CrossRates ==
  /\ pc = "cross" /\ pc' \in AfterCross
  /\ prices' = Filled(Cryptos)
  /\ graph' = Set(CrossBids(prices'))
  /\ UNCHANGED <<pair, fiat, ask, signal, crossed, missed, faults>>

\* The quote of a crypto cannot be read: it is left out.
CrossRatesIncomplete ==
  /\ pc = "cross" /\ pc' \in AfterCross /\ Fault
  /\ \E c \in DOMAIN ask \ DOMAIN prices : prices' = Filled(Cryptos \ {c})
  /\ graph' = Set(CrossBids(prices'))
  /\ UNCHANGED <<pair, fiat, ask, signal, crossed>>

\* A cross rate cannot be set: nothing catches the exception.
CrossRatesFail ==
  /\ pc = "cross" /\ pc' = "dead" /\ Fault
  /\ prices' = Filled(Cryptos)
  /\ SetSome(CrossBids(prices'))
  /\ UNCHANGED <<pair, fiat, ask, signal, crossed>>

\* What the services returned replaces the cache, whole or not.
RefreshFiatCache ==
  /\ pc = "fiat" /\ pc' = "edges"
  /\ fiat' \in Partial(Fiats, FiatRates)
  /\ UNCHANGED <<pair, prices, edges, signal, crossed, missed, faults>>

\* No service can be reached: the cache is used as it is.
RefreshFails ==
  /\ pc = "fiat" /\ pc' = "edges"
  /\ UNCHANGED <<pair, prices, fiat, edges, signal, crossed, missed, faults>>

UpdateFiatEdges ==
  /\ pc = "edges" /\ pc' = "sleep"
  /\ graph' = Set(FiatBids(fiat) ++ MixedBids(prices, fiat))
  /\ UNCHANGED <<pair, prices, fiat, ask, signal, crossed, missed, faults>>

\* A statement fails: the exception is caught.
UpdateFiatEdgesFails ==
  /\ pc = "edges" /\ pc' = "sleep" /\ Fault
  /\ SetSome(FiatBids(fiat) ++ MixedBids(prices, fiat))
  /\ UNCHANGED <<pair, prices, fiat, ask, signal, crossed>>

\* commit() fails: nothing catches the exception.
CommitFails ==
  /\ pc = "sleep" /\ pc' = "dead" /\ Fault
  /\ UNCHANGED <<pair, prices, fiat, edges, signal, crossed>>

\* The next round begins.
Wake ==
  /\ pc = "sleep" /\ pc' = "pair" /\ pair' = 1
  /\ prices' = <<>> /\ missed' = FALSE
  /\ UNCHANGED <<fiat, edges, signal, crossed, faults>>

-----------------------------------------------------------------------------
(* The detector.                                                           *)

\* sorted(node_set)
Nodes == Only(NodesOf(graph), SortedAssets)

Rows(order) == Only(DOMAIN graph, order)

Awaiting == pc \in {"pair", "fiat", "sleep", "dead"}

Detect ==
  /\ Awaiting
  /\ \E order \in RowOrders :
       LET cycle == BellmanFordArbitrage(graph, Rows(order), Nodes) IN
       signal' = (signal \/ (cycle # <<>> /\ CycleProfit(cycle, graph) > 0))
  /\ UNCHANGED <<pc, pair, prices, fiat, edges, crossed, missed, faults>>

(* The queries of graph_queries.py.                                        *)

\* The profitable cycles of three exchanges.
Find3HopCycles(a) ==
  {cycle \in {<<a, b, c, a>> : b, c \in NodesOf(graph)} :
     IsInjective(Tail(cycle)) /\ IsProfitable(cycle, graph)}

\* The best rate of an exchange, or of two, exactly: the code rounds the product
\* of two to 8 digits.
Routes(a, b) ==
  {route \in {<<a, b>>} \cup {<<a, m, b>> : m \in NodesOf(graph) \ {a, b}} :
     \A i \in 1 .. Len(route) - 1 : <<route[i], route[i + 1]>> \in DOMAIN graph}

ShortestPath(a, b) == CHOOSE route \in Routes(a, b) :
  \A other \in Routes(a, b) : CycleProfit(route, graph) >= CycleProfit(other, graph)

-----------------------------------------------------------------------------
Next ==
  \/ InitGraph \/ InitGraphFails \/ Shutdown
  \/ FromLob \/ FromTicks \/ NoQuote \/ UpdatePairFails
  \/ CrossRates \/ CrossRatesIncomplete \/ CrossRatesFail
  \/ RefreshFiatCache \/ RefreshFails
  \/ UpdateFiatEdges \/ UpdateFiatEdgesFails \/ CommitFails
  \/ Wake \/ Detect

Spec == Init /\ [][Next]_vars

-----------------------------------------------------------------------------
(* Properties.                                                             *)

Quotes == Int \X Int

\* Every variable has its type.
TypeOK ==
  /\ pc \in {"down", "pair", "cross", "fiat", "edges", "sleep", "dead"}
  /\ pair \in 1 .. Len(CryptoPairs)
  /\ DOMAIN prices \subseteq Cryptos /\ \A c \in DOMAIN prices : prices[c] \in Quotes
  /\ DOMAIN fiat \subseteq Fiats /\ \A f \in DOMAIN fiat : fiat[f] \in FiatRates
  /\ signal \in BOOLEAN /\ crossed \in BOOLEAN /\ missed \in BOOLEAN /\ faults \in 0 .. MaxFaults
  /\ DOMAIN graph \subseteq Pairs(Assets, Assets)
  /\ \A e \in DOMAIN graph : graph[e] \in Int
  /\ DOMAIN ask \subseteq Cryptos
  /\ \A c \in DOMAIN ask : ask[c] \in Int /\ <<c, USD>> \in DOMAIN graph

Uncrossed == \A c \in DOMAIN ask : graph[<<c, USD>>] <= ask[c]

Known == Fiats \cap NodesOf(graph) \subseteq DOMAIN fiat

Cycles == SimpleCycles(Assets)

Profitable == {c \in Cycles : IsProfitable(c, graph)}

\* A round that had every quote and every fiat rate, and no failure, leaves
\* rates without a profitable cycle, whatever the graph held before it; and
\* while no statement has failed, a round that lacks quotes does so too.
SettledRatesAreFair ==
  /\ pc = "sleep" /\ (faults = 0 \/ ~missed)
  /\ Uncrossed /\ Known
  => Profitable = {}

\* Wherever the detector may read, an exchange and its inverse lose, so that a
\* phantom has three assets at least: both are set between two awaits.
RoundTripsLose ==
  Awaiting /\ faults = 0 /\ ~crossed =>
    \A e \in DOMAIN graph : graph[e] + graph[<<e[2], e[1]>>] <= 0

\* The queries find a gain: in three exchanges, or on a way there and back.
QueriesGain ==
  \/ \E a \in NodesOf(graph) : Find3HopCycles(a) # {}
  \/ \E a, b \in NodesOf(graph) :
       /\ Routes(a, b) # {} /\ Routes(b, a) # {}
       /\ CycleProfit(ShortestPath(a, b), graph) + CycleProfit(ShortestPath(b, a), graph) > 0

\* On whatever mixture of old and new rates the detector runs, it returns a
\* cycle exactly if there is a profitable one, and the cycle is profitable; and
\* if it returns none, the queries gain nothing either.
DetectorIsExact ==
  Awaiting =>
    \A order \in RowOrders :
      LET cycle == BellmanFordArbitrage(graph, Rows(order), Nodes) IN
      IF Profitable = {} THEN cycle = <<>> /\ ~QueriesGain
      ELSE cycle # <<>> /\ IsProfitable(cycle, graph) /\ Head(cycle) = Last(cycle)

\* "leaving stale cross-rates ... phantom arbitrage"
\* (module3_graph/edge_weight_updater.py:348), which a round is to prevent: as
\* long as no source crosses its quotes there is nothing to report.
NoPhantomArbitrage == ~crossed /\ faults = 0 => ~signal

=============================================================================
