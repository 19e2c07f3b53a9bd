----------------------------- MODULE LobServer ------------------------------
(***************************************************************************)
(* The order handlers of module1_lob/lob_server.cpp: POST, DELETE and      *)
(* PATCH /lob/order and GET /lob/depth, run by a pool of worker threads.   *)
(*                                                                         *)
(* A handler is a sequence of critical sections: the symbol's stripe of    *)
(* book_mutexes guards the books, oid_mutex guards order_meta_map.  A      *)
(* section that no other thread can see inside of is one action.  Matching *)
(* is one action per trade, because log_fill hands every trade to the      *)
(* Kafka queue while the loop is still running.                            *)
(*                                                                         *)
(* Requests the handlers refuse without touching any state (a body or an   *)
(* id that does not parse, a price or quantity that is not positive, an    *)
(* id with no metadata) leave no trace and are not steps of the model.     *)
(***************************************************************************)
EXTENDS BookCore, FiniteSets

CONSTANTS
  Threads,    \* the worker threads
  Nobody,     \* the holder of a free mutex
  Symbols,    \* the symbols clients name
  Stripes,    \* the indices of book_mutexes
  StripeOf,   \* hash(symbol) % 16
  Bodies,     \* the orders clients post: records sym, side, type, price, qty
  Changes,    \* the modifications clients ask for: records price, qty
  MaxOrders   \* bound: the order ids handed out in a run

ASSUME NobodyAssumption == Nobody \notin Threads

ASSUME StripeAssumption == StripeOf \in [Symbols -> Stripes]

\* The handlers let only positive prices and quantities through.
ASSUME BodyAssumption ==
  /\ Bodies \subseteq [sym : Symbols, side : Sides, type : Types,
                       price : Nat \ {0}, qty : Nat \ {0}]
  /\ Changes \subseteq [price : Nat \ {0}, qty : Nat \ {0}]

ASSUME BoundAssumption == MaxOrders \in Nat

VARIABLES
  holder,     \* book_mutexes: who holds each stripe
  books,      \* the symbols `books` has an engine for
  orders,     \* the orders resting in the books
  arrivals,   \* how many orders ever came to rest
  meta,       \* order_meta_map: records oid, symbol, side
  gid,        \* the next order id
  kafka_q,    \* the trades log_fill has handed over
  pc,         \* where each thread is in its handler
  job,        \* the locals of that handler
  cancelled   \* history: the orders a DELETE or PATCH took out of a book

vars == <<holder, books, orders, arrivals, meta, gid, kafka_q, pc, job, cancelled>>

Places == {"idle", "lock", "match", "meta", "depth"}

Job == [kind : {"POST", "DELETE", "PATCH"}, oid : Nat, id : Nat, sym : Symbols,
        side : Sides, type : Types, price : Nat, qty : Nat]

NoJob == [kind |-> "NONE"]

Resting == [id : Nat, sym : Symbols, side : Sides, price : Nat, qty : Nat \ {0}, at : Nat]

Fill == [sym : Symbols, px : Nat, qty : Nat \ {0}, pass : Nat, take : Nat]

Meta == [oid : Nat, symbol : Symbols, side : Sides]

Stripe(t) == StripeOf[job[t].sym]

Free(sym) == holder[StripeOf[sym]] = Nobody

\* The resting order a DELETE or PATCH is about.
Target(t) == {o \in orders : o.sym = job[t].sym /\ o.id = job[t].oid}

\* PATCH handlers that may still draw an id.
Drawing == {t \in Threads : pc[t] = "lock" /\ job[t].kind = "PATCH"}

\* Keeps the ids within the bound of the model.
IdLeft == gid + Cardinality(Drawing) <= MaxOrders

Init ==
  /\ holder = [s \in Stripes |-> Nobody]
  /\ books = {} /\ orders = {} /\ arrivals = 0
  /\ meta = {} /\ gid = 1 /\ kafka_q = {} /\ cancelled = {}
  /\ pc = [t \in Threads |-> "idle"]
  /\ job = [t \in Threads |-> NoJob]

Finish(t) ==
  /\ pc' = [pc EXCEPT ![t] = "idle"]
  /\ job' = [job EXCEPT ![t] = NoJob]

-----------------------------------------------------------------------------
(* The requests.                                                           *)

\* POST: the body is accepted and the order gets its id, before any lock.
PostOrder(t, b) ==
  /\ pc[t] = "idle" /\ IdLeft
  /\ gid' = gid + 1
  /\ job' = [job EXCEPT ![t] =
       [kind |-> "POST", oid |-> 0, id |-> gid, sym |-> b.sym, side |-> b.side,
        type |-> b.type, price |-> b.price, qty |-> b.qty]]
  /\ pc' = [pc EXCEPT ![t] = "lock"]
  /\ UNCHANGED <<holder, books, orders, arrivals, meta, kafka_q, cancelled>>

\* DELETE: the order's metadata is copied under oid_mutex.
DeleteOrder(t, m) ==
  /\ pc[t] = "idle"
  /\ job' = [job EXCEPT ![t] =
       [kind |-> "DELETE", oid |-> m.oid, id |-> 0, sym |-> m.symbol, side |-> m.side,
        type |-> "LIMIT", price |-> 0, qty |-> 0]]
  /\ pc' = [pc EXCEPT ![t] = "lock"]
  /\ UNCHANGED <<holder, books, orders, arrivals, meta, gid, kafka_q, cancelled>>

\* PATCH: the same, with the new price and quantity.
ModifyOrder(t, m, c) ==
  /\ pc[t] = "idle" /\ IdLeft
  /\ job' = [job EXCEPT ![t] =
       [kind |-> "PATCH", oid |-> m.oid, id |-> 0, sym |-> m.symbol, side |-> m.side,
        type |-> "LIMIT", price |-> c.price, qty |-> c.qty]]
  /\ pc' = [pc EXCEPT ![t] = "lock"]
  /\ UNCHANGED <<holder, books, orders, arrivals, meta, gid, kafka_q, cancelled>>

-----------------------------------------------------------------------------
(* Under the stripe's lock.                                                *)

\* POST takes the lock, finds or makes the book and starts to match.
SubmitOrder(t) ==
  /\ pc[t] = "lock" /\ job[t].kind = "POST" /\ Free(job[t].sym)
  /\ holder' = [holder EXCEPT ![Stripe(t)] = t]
  /\ books' = books \cup {job[t].sym}
  /\ pc' = [pc EXCEPT ![t] = "match"]
  /\ UNCHANGED <<orders, arrivals, meta, gid, kafka_q, job, cancelled>>

\* Mutant: DELETE does not wait for the stripe.
CancelUnlocked(t) ==
  /\ pc[t] = "lock" /\ job[t].kind = "DELETE" /\ Target(t) # {}
  /\ orders' = Cancelled(orders, job[t].sym, job[t].oid)
  /\ cancelled' = cancelled \cup {job[t].oid}
  /\ pc' = [pc EXCEPT ![t] = "meta"]
  /\ UNCHANGED <<holder, books, arrivals, meta, gid, kafka_q, job>>

\* DELETE: cancel under the lock, which is released at once.
CancelOrder(t) ==
  /\ pc[t] = "lock" /\ job[t].kind = "DELETE" /\ Free(job[t].sym)
  /\ Target(t) # {}
  /\ books' = books \cup {job[t].sym}
  /\ orders' = Cancelled(orders, job[t].sym, job[t].oid)
  /\ cancelled' = cancelled \cup {job[t].oid}
  /\ pc' = [pc EXCEPT ![t] = "meta"]
  /\ UNCHANGED <<holder, arrivals, meta, gid, kafka_q, job>>

\* Mutant: PATCH re-places the order even if there was none to cancel.
ReplaceUnchecked(t) ==
  /\ pc[t] = "lock" /\ job[t].kind = "PATCH" /\ Free(job[t].sym)
  /\ holder' = [holder EXCEPT ![Stripe(t)] = t]
  /\ orders' = Cancelled(orders, job[t].sym, job[t].oid)
  /\ cancelled' = cancelled \cup {job[t].oid}
  /\ gid' = gid + 1
  /\ job' = [job EXCEPT ![t].id = gid]
  /\ pc' = [pc EXCEPT ![t] = "match"]
  /\ UNCHANGED <<books, arrivals, meta, kafka_q>>

\* PATCH: cancel, draw a new id and start to match, all under one lock.
ReplaceOrder(t) ==
  /\ pc[t] = "lock" /\ job[t].kind = "PATCH" /\ Free(job[t].sym)
  /\ Target(t) # {}
  /\ holder' = [holder EXCEPT ![Stripe(t)] = t]
  /\ books' = books \cup {job[t].sym}
  /\ orders' = Cancelled(orders, job[t].sym, job[t].oid)
  /\ cancelled' = cancelled \cup {job[t].oid}
  /\ gid' = gid + 1
  /\ job' = [job EXCEPT ![t].id = gid]
  /\ pc' = [pc EXCEPT ![t] = "match"]
  /\ UNCHANGED <<arrivals, meta, kafka_q>>

\* DELETE or PATCH of an order that is no longer in its book: 404.
TargetGone(t) ==
  /\ pc[t] = "lock" /\ job[t].kind \in {"DELETE", "PATCH"} /\ Free(job[t].sym)
  /\ Target(t) = {}
  /\ books' = books \cup {job[t].sym}
  /\ Finish(t)
  /\ UNCHANGED <<holder, orders, arrivals, meta, gid, kafka_q, cancelled>>

\* Mutant: a trade takes all of the passive order, however little is asked.
TradeWhole(t) ==
  /\ pc[t] = "match" /\ job[t].qty > 0
  /\ \E p \in Front(orders, job[t]) :
       /\ orders' = orders \ {p}
       /\ job' = [job EXCEPT ![t].qty = @ - p.qty]
  /\ UNCHANGED <<holder, books, arrivals, meta, gid, kafka_q, pc, cancelled>>

\* One trade of the order in hand, logged with log_fill.
TradeOnce(t) ==
  /\ pc[t] = "match" /\ job[t].qty > 0
  /\ \E p \in Front(orders, job[t]) :
       LET n == Lesser(p.qty, job[t].qty)
       IN  /\ kafka_q' = kafka_q \cup {[sym |-> p.sym, px |-> p.price, qty |-> n,
                                        pass |-> p.id, take |-> job[t].id]}
           /\ orders' = Reduced(orders, p, n)
           /\ job' = [job EXCEPT ![t].qty = @ - n]
  /\ UNCHANGED <<holder, books, arrivals, meta, gid, pc, cancelled>>

\* What EndMatch does with the rest of the order in hand: what a limit order
\* has left comes to rest behind its level, what a market order has left is
\* dropped.
Rest(t) ==
  IF job[t].qty > 0 /\ job[t].type = "LIMIT"
  THEN /\ orders' = orders \cup
            {[id |-> job[t].id, sym |-> job[t].sym, side |-> job[t].side,
              price |-> job[t].price, qty |-> job[t].qty, at |-> arrivals]}
       /\ arrivals' = arrivals + 1
  ELSE UNCHANGED <<orders, arrivals>>

\* Mutant: one pass over the other side, and the rest comes to rest.
EndMatchEarly(t) ==
  /\ pc[t] = "match"
  /\ Rest(t)
  /\ holder' = [holder EXCEPT ![Stripe(t)] = Nobody]
  /\ pc' = [pc EXCEPT ![t] = "meta"]
  /\ UNCHANGED <<books, meta, gid, kafka_q, job, cancelled>>

\* Mutant: the lock is still held when the handler goes on to broadcast_depth.
EndMatchLocked(t) ==
  /\ pc[t] = "match"
  /\ job[t].qty = 0 \/ Facing(orders, job[t]) = {}
  /\ Rest(t)
  /\ pc' = [pc EXCEPT ![t] = "meta"]
  /\ UNCHANGED <<holder, books, meta, gid, kafka_q, job, cancelled>>

\* Matching is over once nothing is left or nothing faces the order; the lock
\* is released.
EndMatch(t) ==
  /\ pc[t] = "match"
  /\ job[t].qty = 0 \/ Facing(orders, job[t]) = {}
  /\ Rest(t)
  /\ holder' = [holder EXCEPT ![Stripe(t)] = Nobody]
  /\ pc' = [pc EXCEPT ![t] = "meta"]
  /\ UNCHANGED <<books, meta, gid, kafka_q, job, cancelled>>

-----------------------------------------------------------------------------
(* After the book.                                                         *)

\* Mutant: PATCH erases the old order's metadata and adds none.
MetaEraseOnly(t) ==
  /\ pc[t] = "meta"
  /\ meta' = {m \in meta : m.oid # job[t].oid}
               \cup (IF job[t].kind # "POST" THEN {}
                     ELSE {[oid |-> job[t].id, symbol |-> job[t].sym, side |-> job[t].side]})
  /\ pc' = [pc EXCEPT ![t] = "depth"]
  /\ UNCHANGED <<holder, books, orders, arrivals, gid, kafka_q, job, cancelled>>

\* Mutant: nothing is ever erased.
MetaAddOnly(t) ==
  /\ pc[t] = "meta"
  /\ meta' = meta \cup (IF job[t].kind = "DELETE" THEN {}
                     ELSE {[oid |-> job[t].id, symbol |-> job[t].sym, side |-> job[t].side]})
  /\ pc' = [pc EXCEPT ![t] = "depth"]
  /\ UNCHANGED <<holder, books, orders, arrivals, gid, kafka_q, job, cancelled>>

\* order_meta_map: POST adds its order, DELETE erases, PATCH does both.
UpdateMeta(t) ==
  /\ pc[t] = "meta"
  /\ meta' = {m \in meta : m.oid # job[t].oid /\ m.oid # job[t].id}
               \cup (IF job[t].kind = "DELETE" THEN {}
                     ELSE {[oid |-> job[t].id, symbol |-> job[t].sym, side |-> job[t].side]})
  /\ pc' = [pc EXCEPT ![t] = "depth"]
  /\ UNCHANGED <<holder, books, orders, arrivals, gid, kafka_q, job, cancelled>>

\* broadcast_depth reads the book under the lock once more; the handler
\* answers.  Who is sent what is DepthStream's subject.
BroadcastDepth(t) ==
  /\ pc[t] = "depth" /\ Free(job[t].sym)
  /\ books' = books \cup {job[t].sym}
  /\ Finish(t)
  /\ UNCHANGED <<holder, orders, arrivals, meta, gid, kafka_q, cancelled>>

\* GET /lob/depth makes a book for whatever symbol it is asked about.
GetDepth(sym) ==
  /\ Free(sym)
  /\ books' = books \cup {sym}
  /\ UNCHANGED <<holder, orders, arrivals, meta, gid, kafka_q, pc, job, cancelled>>

-----------------------------------------------------------------------------

Request(t) ==
  \/ \E b \in Bodies : PostOrder(t, b)
  \/ \E m \in meta : DeleteOrder(t, m)
  \/ \E m \in meta, c \in Changes : ModifyOrder(t, m, c)

Acquire(t) ==
  \/ SubmitOrder(t) \/ CancelOrder(t) \/ ReplaceOrder(t)
  \/ TargetGone(t) \/ BroadcastDepth(t)

Proceed(t) == TradeOnce(t) \/ EndMatch(t) \/ UpdateMeta(t)

Next ==
  \/ \E t \in Threads : Request(t) \/ Acquire(t) \/ Proceed(t)
  \/ \E sym \in Symbols : GetDepth(sym)

Spec == Init /\ [][Next]_vars

\* A thread that can go on does; a mutex released over and over is in the end
\* given to a thread that waits for it.
FairSpec ==
  /\ Spec
  /\ \A t \in Threads : WF_vars(Proceed(t)) /\ SF_vars(Acquire(t))

-----------------------------------------------------------------------------
(* Properties.                                                             *)

\* Every variable has its type; only idle threads have no job.
TypeOK ==
  /\ holder \in [Stripes -> Threads \cup {Nobody}]
  /\ books \subseteq Symbols
  /\ orders \subseteq Resting
  /\ arrivals \in Nat
  /\ meta \subseteq Meta
  /\ gid \in Nat \ {0}
  /\ kafka_q \subseteq Fill
  /\ cancelled \subseteq Nat
  /\ pc \in [Threads -> Places]
  /\ job \in [Threads -> Job \cup {NoJob}]
  /\ \A t \in Threads : pc[t] # "idle" => job[t] \in Job

\* Thread t is about to write the metadata of resting order o.
Recording(t, o) ==
  /\ pc[t] = "meta" /\ job[t].kind # "DELETE"
  /\ job[t].id = o.id /\ job[t].sym = o.sym /\ job[t].side = o.side

\* An order that rests in a book can be cancelled and modified: order_meta_map
\* has it under its own symbol and side, or the handler that placed it has not
\* reached the map yet (between the two critical sections of POST and PATCH).
RestingHasMeta ==
  \A o \in orders :
    \/ [oid |-> o.id, symbol |-> o.sym, side |-> o.side] \in meta
    \/ \E t \in Threads : Recording(t, o)

\* Thread t took order id out of its book and has not yet erased its metadata.
Erasing(t, id) == pc[t] \in {"match", "meta"} /\ job[t].oid = id

\* An order a DELETE or PATCH took out of a book is gone for good, however
\* many handlers raced for it: it rests nowhere, nobody is about to submit it,
\* only one handler won it, and its metadata stays until that one erases it.
CancelledIsFinal ==
  \A id \in cancelled :
    /\ \A o \in orders : o.id # id
    /\ \A t \in Threads : pc[t] \in {"lock", "match"} => job[t].id # id
    /\ \A t, u \in Threads : Erasing(t, id) /\ Erasing(u, id) => t = u
    /\ (\E m \in meta : m.oid = id) <=> (\E t \in Threads : Erasing(t, id))

\* The book never shows a bid at or above an ask of the same symbol, not even
\* between the steps of a handler: what GET /lob/depth and the WebSocket
\* stream read is always a tradeless book.
NeverCrossed ==
  \A o, p \in orders :
    o.sym = p.sym /\ o.side = "B" /\ p.side = "A" => o.price < p.price

\* The orders of a thread's symbol.
BookOf(t) == {o \in orders : o.sym = job[t].sym}

\* While a thread matches, nobody else changes the book it matches in: a step
\* that leaves its own order as it was leaves the book as it was.
BookIsGuarded ==
  [][\A t \in Threads :
       pc[t] = "match" /\ pc'[t] = "match" /\ job'[t] = job[t]
         => {o \in orders' : o.sym = job[t].sym} = BookOf(t)]_vars

\* Every order in play has an id of its own: no two handlers and no two resting
\* orders share one, although POST draws ids outside every lock.
IdsAreUnique ==
  /\ \A o, p \in orders : o.id = p.id => o = p
  /\ \A t, u \in Threads :
       pc[t] # "idle" /\ pc[u] # "idle" /\ job[t].id = job[u].id /\ job[t].id # 0 => t = u
  /\ \A t \in Threads, o \in orders :
       pc[t] \in {"lock", "match"} => job[t].id # o.id

\* Seen without threads and locks, the handlers do what Exchange promises:
\* one cancel or replace per order, trades of open orders only, a PATCH that
\* is one step, and a handle for as long as the order is open.
Takers == {t \in Threads : pc[t] = "match" /\ job[t].qty > 0}

Public(o) == [id |-> o.id, sym |-> o.sym, side |-> o.side, qty |-> o.qty]

OpenOrders == {Public(o) : o \in orders} \cup {Public(job[t]) : t \in Takers}

BornIds == (1 .. gid - 1) \ {job[t].id : t \in {u \in Threads : pc[u] = "lock"}}

Handles == {m.oid : m \in meta}

Sold == {[sym |-> f.sym, pass |-> f.pass, take |-> f.take, qty |-> f.qty] : f \in kafka_q}

Asked == {b.qty : b \in Bodies} \cup {c.qty : c \in Changes}

Promise == INSTANCE Exchange WITH
  Ids <- 1 .. MaxOrders,
  Sizes <- Asked,
  open <- OpenOrders,
  born <- BornIds,
  handles <- Handles,
  fills <- Sold

ImplementsExchange == Promise!Spec

\* Every accepted request is answered: no handler waits for ever for a stripe,
\* because no handler asks for a stripe while it holds one.
EveryRequestAnswered == \A t \in Threads : pc[t] # "idle" ~> pc[t] = "idle"

=============================================================================
