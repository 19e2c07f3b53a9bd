--------------------------- MODULE LobServerProofs --------------------------
(***************************************************************************)
(* Proofs about LobServer, for every set of threads, symbols and stripes,  *)
(* every assignment of symbols to stripes, every set of request bodies and *)
(* any number of orders; at the end, that LobServer implements Exchange.   *)
(***************************************************************************)
EXTENDS LobServer, FiniteSetTheorems, TLAPS

\* A thread that matches holds the stripe of its symbol.
LockHeld == \A t \in Threads : pc[t] = "match" => holder[Stripe(t)] = t

\* The ids a handler carries: its own order's, and the one it was asked about.
JobsWellFormed ==
  \A t \in Threads : pc[t] # "idle" =>
    /\ job[t].id < gid /\ job[t].oid < gid
    /\ job[t].kind = "POST" => job[t].id > 0 /\ job[t].oid = 0
    /\ job[t].kind # "POST" => job[t].oid > 0
    /\ job[t].kind = "DELETE" => job[t].id = 0 /\ pc[t] # "match"
    /\ job[t].kind = "PATCH" => (job[t].id = 0 <=> pc[t] = "lock")

\* Only ids that were drawn are in use.
IdsDrawn ==
  /\ \A o \in orders : 0 < o.id /\ o.id < gid
  /\ \A m \in meta : 0 < m.oid /\ m.oid < gid
  /\ \A id \in cancelled : 0 < id /\ id < gid

\* Before a handler records its order nobody can name that order.
UnnamedBeforeRecorded ==
  \A t \in Threads :
    pc[t] \in {"lock", "match", "meta"} /\ job[t].id # 0 =>
      /\ job[t].id \notin cancelled
      /\ \A m \in meta : m.oid # job[t].id
      /\ \A u \in Threads : pc[u] # "idle" => job[u].oid # job[t].id

\* A handler that is past its cancel has cancelled the order it was asked about.
WonIsCancelled ==
  \A t \in Threads :
    pc[t] \in {"match", "meta"} /\ job[t].oid # 0 => job[t].oid \in cancelled

IInv ==
  /\ TypeOK /\ LockHeld /\ JobsWellFormed /\ IdsDrawn /\ UnnamedBeforeRecorded
  /\ WonIsCancelled /\ IdsAreUnique /\ RestingHasMeta /\ CancelledIsFinal
  /\ NeverCrossed

-----------------------------------------------------------------------------
(* Types.                                                                  *)

USE DEF Types, Sides, Places

\* A fill, a reduced resting order and a job with less left are well formed.
LEMMA TradeTypes ==
  ASSUME TypeOK, NEW t \in Threads, TradeOnce(t)
  PROVE  TypeOK'
<1>1. PICK p \in Front(orders, job[t]) :
        LET n == Lesser(p.qty, job[t].qty)
        IN  /\ kafka_q' = kafka_q \cup {[sym |-> p.sym, px |-> p.price, qty |-> n,
                                         pass |-> p.id, take |-> job[t].id]}
            /\ orders' = Reduced(orders, p, n)
            /\ job' = [job EXCEPT ![t].qty = @ - n]
  BY DEF TradeOnce
<1> DEFINE n == Lesser(p.qty, job[t].qty)
<1>2. p \in Resting /\ job[t] \in Job /\ job[t].qty > 0
  BY <1>1 DEF TradeOnce, TypeOK, Front, Facing
<1>3. n \in Nat \ {0} /\ n <= p.qty /\ n <= job[t].qty
  BY <1>2 DEF Lesser, Resting, Job
<1>4. kafka_q' \subseteq Fill
  <2>1. [sym |-> p.sym, px |-> p.price, qty |-> n, pass |-> p.id, take |-> job[t].id] \in Fill
    BY <1>2, <1>3 DEF Fill, Resting, Job
  <2>2. QED
    BY <1>1, <2>1 DEF TypeOK
<1>5. orders' \subseteq Resting
  <2>1. CASE n < p.qty
    <3>1. [p EXCEPT !.qty = @ - n] \in Resting
      BY <1>2, <1>3, <2>1 DEF Resting
    <3>2. QED
      BY <1>1, <3>1 DEF TypeOK, Reduced
  <2>2. CASE ~(n < p.qty)
    BY <1>1, <2>2 DEF TypeOK, Reduced
  <2>3. QED
    BY <2>1, <2>2
<1>6. [job[t] EXCEPT !.qty = @ - n] \in Job
  BY <1>2, <1>3 DEF Job
<1>7. job' \in [Threads -> Job \cup {NoJob}] /\ job'[t] \in Job
      /\ \A u \in Threads \ {t} : job'[u] = job[u]
  BY <1>1, <1>6 DEF TypeOK
<1>8. QED
  BY <1>2, <1>4, <1>5, <1>7 DEF TypeOK, TradeOnce

\* What comes to rest is a resting order.
LEMMA EndTypes ==
  ASSUME TypeOK, NEW t \in Threads, EndMatch(t)
  PROVE  TypeOK'
<1>1. job[t] \in Job
  BY DEF EndMatch, TypeOK
<1>2. orders' \subseteq Resting /\ arrivals' \in Nat
  <2>1. CASE job[t].qty > 0 /\ job[t].type = "LIMIT"
    <3>1. [id |-> job[t].id, sym |-> job[t].sym, side |-> job[t].side,
           price |-> job[t].price, qty |-> job[t].qty, at |-> arrivals] \in Resting
      BY <1>1, <2>1 DEF Resting, Job, TypeOK
    <3>2. QED
      BY <2>1, <3>1 DEF EndMatch, Rest, TypeOK
  <2>2. CASE ~(job[t].qty > 0 /\ job[t].type = "LIMIT")
    BY <2>2 DEF EndMatch, Rest, TypeOK
  <2>3. QED
    BY <2>1, <2>2
<1>3. QED
  BY <1>1, <1>2 DEF EndMatch, TypeOK

LEMMA MetaTypes ==
  ASSUME TypeOK, NEW t \in Threads, UpdateMeta(t)
  PROVE  TypeOK'
<1>1. job[t] \in Job
  BY DEF UpdateMeta, TypeOK
<1>2. [oid |-> job[t].id, symbol |-> job[t].sym, side |-> job[t].side] \in Meta
  BY <1>1 DEF Job, Meta
<1>3. meta' \subseteq Meta
  BY <1>2 DEF UpdateMeta, TypeOK
<1>4. QED
  BY <1>1, <1>3 DEF UpdateMeta, TypeOK

\* The jobs the three requests start with.
LEMMA RequestTypes ==
  ASSUME TypeOK, NEW t \in Threads, Request(t)
  PROVE  TypeOK'
<1>1. ASSUME NEW b \in Bodies, PostOrder(t, b)
      PROVE  TypeOK'
  <2>1. [kind |-> "POST", oid |-> 0, id |-> gid, sym |-> b.sym, side |-> b.side,
         type |-> b.type, price |-> b.price, qty |-> b.qty] \in Job
    BY BodyAssumption DEF TypeOK, Job
  <2>2. QED
    BY <1>1, <2>1 DEF PostOrder, TypeOK
<1>2. ASSUME NEW m \in meta, DeleteOrder(t, m)
      PROVE  TypeOK'
  <2>1. [kind |-> "DELETE", oid |-> m.oid, id |-> 0, sym |-> m.symbol, side |-> m.side,
         type |-> "LIMIT", price |-> 0, qty |-> 0] \in Job
    BY DEF TypeOK, Job, Meta
  <2>2. QED
    BY <1>2, <2>1 DEF DeleteOrder, TypeOK
<1>3. ASSUME NEW m \in meta, NEW c \in Changes, ModifyOrder(t, m, c)
      PROVE  TypeOK'
  <2>1. [kind |-> "PATCH", oid |-> m.oid, id |-> 0, sym |-> m.symbol, side |-> m.side,
         type |-> "LIMIT", price |-> c.price, qty |-> c.qty] \in Job
    BY BodyAssumption DEF TypeOK, Job, Meta
  <2>2. QED
    BY <1>3, <2>1 DEF ModifyOrder, TypeOK
<1>4. QED
  BY <1>1, <1>2, <1>3 DEF Request

LEMMA AcquireTypes ==
  ASSUME TypeOK, NEW t \in Threads, Acquire(t)
  PROVE  TypeOK'
<1>1. CASE SubmitOrder(t)
  <2>1. job[t] \in Job
    BY <1>1 DEF SubmitOrder, TypeOK
  <2>2. QED
    BY <1>1, <2>1, StripeAssumption DEF SubmitOrder, TypeOK, Stripe, Job
<1>2. CASE CancelOrder(t)
  <2>1. job[t] \in Job
    BY <1>2 DEF CancelOrder, TypeOK
  <2>2. QED
    BY <1>2, <2>1 DEF CancelOrder, TypeOK, Cancelled, Job
<1>3. CASE ReplaceOrder(t)
  <2>1. job[t] \in Job
    BY <1>3 DEF ReplaceOrder, TypeOK
  <2>2. [job[t] EXCEPT !.id = gid] \in Job
    BY <2>1 DEF TypeOK, Job
  <2>3. job' \in [Threads -> Job \cup {NoJob}] /\ job'[t] \in Job
        /\ \A u \in Threads \ {t} : job'[u] = job[u]
    BY <1>3, <2>2 DEF ReplaceOrder, TypeOK
  <2>4. holder' \in [Stripes -> Threads \cup {Nobody}]
    BY <1>3, <2>1, StripeAssumption DEF ReplaceOrder, TypeOK, Stripe, Job
  <2>5. orders' \subseteq Resting /\ cancelled' \subseteq Nat /\ books' \subseteq Symbols
    BY <1>3, <2>1 DEF ReplaceOrder, TypeOK, Cancelled, Job
  <2>6. QED
    BY <1>3, <2>1, <2>3, <2>4, <2>5 DEF ReplaceOrder, TypeOK
<1>4. CASE TargetGone(t)
  <2>1. job[t] \in Job
    BY <1>4 DEF TargetGone, TypeOK
  <2>2. QED
    BY <1>4, <2>1 DEF TargetGone, TypeOK, Finish, Job
<1>5. CASE BroadcastDepth(t)
  <2>1. job[t] \in Job
    BY <1>5 DEF BroadcastDepth, TypeOK
  <2>2. QED
    BY <1>5, <2>1 DEF BroadcastDepth, TypeOK, Finish, Job
<1>6. QED
  BY <1>1, <1>2, <1>3, <1>4, <1>5 DEF Acquire

LEMMA TypeStep == TypeOK /\ [Next]_vars => TypeOK'
<1> SUFFICES ASSUME TypeOK, [Next]_vars PROVE TypeOK'
  OBVIOUS
<1>1. ASSUME NEW t \in Threads, Request(t) PROVE TypeOK'
  BY <1>1, RequestTypes
<1>2. ASSUME NEW t \in Threads, Acquire(t) PROVE TypeOK'
  BY <1>2, AcquireTypes
<1>3. ASSUME NEW t \in Threads, Proceed(t) PROVE TypeOK'
  BY <1>3, TradeTypes, EndTypes, MetaTypes DEF Proceed
<1>4. ASSUME NEW y \in Symbols, GetDepth(y) PROVE TypeOK'
  BY <1>4 DEF GetDepth, TypeOK
<1>5. CASE UNCHANGED vars
  BY <1>5 DEF vars, TypeOK
<1>6. QED
  BY <1>1, <1>2, <1>3, <1>4, <1>5 DEF Next

LEMMA TypeInit == Init => TypeOK
  BY NobodyAssumption DEF Init, TypeOK

\* In every reachable state the server's maps, books, counters and handler
\* locals have their types.
THEOREM TypeCorrect == Spec => []TypeOK
  BY TypeInit, TypeStep, PTL DEF Spec

-----------------------------------------------------------------------------
(* The inductive invariant.                                                *)

USE DEF Job, Resting, Meta

\* A new order has an id nobody has seen.
LEMMA PostOrderSafe ==
  ASSUME IInv, TypeOK', NEW t \in Threads, NEW b \in Bodies, PostOrder(t, b)
  PROVE  IInv'
<1> USE DEF IInv
<1>1. LockHeld'
  BY DEF PostOrder, LockHeld, Stripe
<1>2. JobsWellFormed'
  BY DEF PostOrder, TypeOK, JobsWellFormed
<1>3. IdsDrawn'
  BY DEF PostOrder, TypeOK, IdsDrawn
<1>4. UnnamedBeforeRecorded'
  BY DEF PostOrder, TypeOK, UnnamedBeforeRecorded, JobsWellFormed, IdsDrawn
<1>5. WonIsCancelled'
  BY DEF PostOrder, WonIsCancelled
<1>6. IdsAreUnique'
  BY DEF PostOrder, TypeOK, IdsAreUnique, JobsWellFormed, IdsDrawn
<1>7. RestingHasMeta'
  BY DEF PostOrder, TypeOK, RestingHasMeta, Recording
<1>8. CancelledIsFinal'
  BY DEF PostOrder, TypeOK, CancelledIsFinal, Erasing, IdsDrawn
<1>9. NeverCrossed'
  BY DEF PostOrder, NeverCrossed
<1>10. QED
  BY <1>1, <1>2, <1>3, <1>4, <1>5, <1>6, <1>7, <1>8, <1>9

\* The id a client names has metadata, so it was drawn and recorded.
LEMMA DeleteOrderSafe ==
  ASSUME IInv, TypeOK', NEW t \in Threads, NEW m \in meta, DeleteOrder(t, m)
  PROVE  IInv'
<1> USE DEF IInv
<1>1. LockHeld'
  BY DEF DeleteOrder, LockHeld, Stripe
<1>2. JobsWellFormed'
  BY DEF DeleteOrder, TypeOK, JobsWellFormed, IdsDrawn
<1>3. IdsDrawn'
  BY DEF DeleteOrder, IdsDrawn
<1>4. UnnamedBeforeRecorded'
  BY DEF DeleteOrder, TypeOK, UnnamedBeforeRecorded
<1>5. WonIsCancelled'
  BY DEF DeleteOrder, WonIsCancelled
<1>6. IdsAreUnique'
  BY DEF DeleteOrder, TypeOK, IdsAreUnique, IdsDrawn
<1>7. RestingHasMeta'
  BY DEF DeleteOrder, TypeOK, RestingHasMeta, Recording
<1>8. CancelledIsFinal'
  BY DEF DeleteOrder, TypeOK, CancelledIsFinal, Erasing, IdsDrawn
<1>9. NeverCrossed'
  BY DEF DeleteOrder, NeverCrossed
<1>10. QED
  BY <1>1, <1>2, <1>3, <1>4, <1>5, <1>6, <1>7, <1>8, <1>9

LEMMA ModifyOrderSafe ==
  ASSUME IInv, TypeOK', NEW t \in Threads, NEW m \in meta, NEW c \in Changes, ModifyOrder(t, m, c)
  PROVE  IInv'
<1> USE DEF IInv
<1>1. LockHeld'
  BY DEF ModifyOrder, LockHeld, Stripe
<1>2. JobsWellFormed'
  BY DEF ModifyOrder, TypeOK, JobsWellFormed, IdsDrawn
<1>3. IdsDrawn'
  BY DEF ModifyOrder, IdsDrawn
<1>4. UnnamedBeforeRecorded'
  BY DEF ModifyOrder, TypeOK, UnnamedBeforeRecorded
<1>5. WonIsCancelled'
  BY DEF ModifyOrder, WonIsCancelled
<1>6. IdsAreUnique'
  BY DEF ModifyOrder, TypeOK, IdsAreUnique, IdsDrawn
<1>7. RestingHasMeta'
  BY DEF ModifyOrder, TypeOK, RestingHasMeta, Recording
<1>8. CancelledIsFinal'
  BY DEF ModifyOrder, TypeOK, CancelledIsFinal, Erasing, IdsDrawn
<1>9. NeverCrossed'
  BY DEF ModifyOrder, NeverCrossed
<1>10. QED
  BY <1>1, <1>2, <1>3, <1>4, <1>5, <1>6, <1>7, <1>8, <1>9

\* Only a thread that holds the stripe matches.
LEMMA SubmitOrderSafe ==
  ASSUME IInv, TypeOK', NEW t \in Threads, SubmitOrder(t)
  PROVE  IInv'
<1> USE DEF IInv
<1>1. LockHeld'
  BY NobodyAssumption DEF SubmitOrder, TypeOK, LockHeld, Stripe, Free
<1>2. JobsWellFormed'
  BY DEF SubmitOrder, JobsWellFormed
<1>3. IdsDrawn'
  BY DEF SubmitOrder, IdsDrawn
<1>4. UnnamedBeforeRecorded'
  BY DEF SubmitOrder, UnnamedBeforeRecorded
<1>5. WonIsCancelled'
  BY DEF SubmitOrder, WonIsCancelled, JobsWellFormed
<1>6. IdsAreUnique'
  BY DEF SubmitOrder, IdsAreUnique
<1>7. RestingHasMeta'
  <2>1. ASSUME NEW u \in Threads, NEW o \in orders, Recording(u, o)
        PROVE  Recording(u, o)'
    BY <2>1 DEF SubmitOrder, Recording
  <2>2. QED
    BY <2>1 DEF SubmitOrder, RestingHasMeta
<1>8. CancelledIsFinal'
  BY DEF SubmitOrder, CancelledIsFinal, Erasing, JobsWellFormed, IdsDrawn
<1>9. NeverCrossed'
  BY DEF SubmitOrder, NeverCrossed
<1>10. QED
  BY <1>1, <1>2, <1>3, <1>4, <1>5, <1>6, <1>7, <1>8, <1>9

\* Of the handlers that name an order, one finds it in the book: its
\* metadata is still there and nobody else is erasing it.
LEMMA CancelOrderSafe ==
  ASSUME IInv, TypeOK', NEW t \in Threads, CancelOrder(t)
  PROVE  IInv'
<1> USE DEF IInv
<1>1. LockHeld'
  BY DEF CancelOrder, LockHeld, Stripe
<1>2. JobsWellFormed'
  BY DEF CancelOrder, JobsWellFormed
<1>3. IdsDrawn'
  BY DEF CancelOrder, Cancelled, Target, IdsDrawn
<1>4. UnnamedBeforeRecorded'
  BY DEF CancelOrder, UnnamedBeforeRecorded
<1>5. WonIsCancelled'
  BY DEF CancelOrder, WonIsCancelled
<1>6. IdsAreUnique'
  BY DEF CancelOrder, Cancelled, IdsAreUnique
<1>7. RestingHasMeta'
  <2>1. ASSUME NEW u \in Threads, NEW o \in orders, Recording(u, o)
        PROVE  Recording(u, o)'
    BY <2>1 DEF CancelOrder, Recording
  <2>2. QED
    BY <2>1 DEF CancelOrder, Cancelled, RestingHasMeta
<1>8. CancelledIsFinal'
  <2>1. PICK p \in orders : p.sym = job[t].sym /\ p.id = job[t].oid
    BY DEF CancelOrder, Target
  <2>2. job[t] \in Job /\ job[t].oid \notin cancelled /\ 0 < p.id /\ p.id < gid
    BY <2>1 DEF CancelOrder, TypeOK, CancelledIsFinal, IdsDrawn
  <2>3. \E m \in meta : m.oid = job[t].oid
    <3>1. ASSUME NEW u \in Threads PROVE ~Recording(u, p)
      BY <2>1, <2>2 DEF Recording, UnnamedBeforeRecorded, CancelOrder
    <3>2. QED
      BY <2>1, <3>1 DEF RestingHasMeta
  <2>4. ASSUME NEW u \in Threads PROVE ~Erasing(u, job[t].oid)
    BY <2>1, <2>2 DEF Erasing, WonIsCancelled
  <2>5. ASSUME NEW u \in Threads, NEW id
        PROVE  Erasing(u, id)' <=> Erasing(u, id) \/ (u = t /\ id = job[t].oid)
    BY DEF CancelOrder, Erasing, TypeOK
  <2>6. ASSUME NEW o \in orders' PROVE o \in orders /\ o.id # job[t].oid
    BY <2>1 DEF CancelOrder, Cancelled, IdsAreUnique
  <2>7. ASSUME NEW id \in cancelled', NEW u \in Threads, pc'[u] \in {"lock", "match"}
        PROVE  job'[u].id # id
    BY <2>1, <2>2, <2>7 DEF CancelOrder, CancelledIsFinal, UnnamedBeforeRecorded
  <2>8. QED
    BY <2>3, <2>4, <2>5, <2>6, <2>7 DEF CancelOrder, CancelledIsFinal
<1>9. NeverCrossed'
  BY DEF CancelOrder, Cancelled, NeverCrossed
<1>10. QED
  BY <1>1, <1>2, <1>3, <1>4, <1>5, <1>6, <1>7, <1>8, <1>9

\* The same for a PATCH, whose own order has a fresh id.
LEMMA ReplaceOrderSafe ==
  ASSUME IInv, TypeOK', NEW t \in Threads, ReplaceOrder(t)
  PROVE  IInv'
<1> USE DEF IInv
<1>1. LockHeld'
  BY NobodyAssumption DEF ReplaceOrder, TypeOK, LockHeld, Stripe, Free
<1>2. JobsWellFormed'
  BY DEF ReplaceOrder, TypeOK, JobsWellFormed
<1>3. IdsDrawn'
  BY DEF ReplaceOrder, Cancelled, Target, TypeOK, IdsDrawn
<1>4. UnnamedBeforeRecorded'
  BY DEF ReplaceOrder, TypeOK, UnnamedBeforeRecorded, JobsWellFormed, IdsDrawn
<1>5. WonIsCancelled'
  BY DEF ReplaceOrder, WonIsCancelled
<1>6. IdsAreUnique'
  BY DEF ReplaceOrder, Cancelled, TypeOK, IdsAreUnique, JobsWellFormed, IdsDrawn
<1>7. RestingHasMeta'
  <2>1. ASSUME NEW u \in Threads, NEW o \in orders, Recording(u, o)
        PROVE  Recording(u, o)'
    BY <2>1 DEF ReplaceOrder, Recording
  <2>2. QED
    BY <2>1 DEF ReplaceOrder, Cancelled, RestingHasMeta
<1>8. CancelledIsFinal'
  <2>1. PICK p \in orders : p.sym = job[t].sym /\ p.id = job[t].oid
    BY DEF ReplaceOrder, Target
  <2>2. job[t] \in Job /\ job[t].oid \notin cancelled /\ 0 < p.id /\ p.id < gid
    BY <2>1 DEF ReplaceOrder, TypeOK, CancelledIsFinal, IdsDrawn
  <2>3. \E m \in meta : m.oid = job[t].oid
    <3>1. ASSUME NEW u \in Threads PROVE ~Recording(u, p)
      BY <2>1, <2>2 DEF Recording, UnnamedBeforeRecorded, ReplaceOrder
    <3>2. QED
      BY <2>1, <3>1 DEF RestingHasMeta
  <2>4. ASSUME NEW u \in Threads PROVE ~Erasing(u, job[t].oid)
    BY <2>1, <2>2 DEF Erasing, WonIsCancelled
  <2>5. ASSUME NEW u \in Threads, NEW id
        PROVE  Erasing(u, id)' <=> Erasing(u, id) \/ (u = t /\ id = job[t].oid)
    BY DEF ReplaceOrder, Erasing, TypeOK
  <2>6. ASSUME NEW o \in orders' PROVE o \in orders /\ o.id # job[t].oid
    BY <2>1 DEF ReplaceOrder, Cancelled, IdsAreUnique
  <2>7. ASSUME NEW id \in cancelled', NEW u \in Threads, pc'[u] \in {"lock", "match"}
        PROVE  job'[u].id # id
    BY <2>1, <2>7 DEF ReplaceOrder, TypeOK, UnnamedBeforeRecorded, IdsDrawn
  <2>8. QED
    BY <2>3, <2>4, <2>5, <2>6, <2>7 DEF ReplaceOrder, CancelledIsFinal
<1>9. NeverCrossed'
  BY DEF ReplaceOrder, Cancelled, NeverCrossed
<1>10. QED
  BY <1>1, <1>2, <1>3, <1>4, <1>5, <1>6, <1>7, <1>8, <1>9

LEMMA TargetGoneSafe ==
  ASSUME IInv, TypeOK', NEW t \in Threads, TargetGone(t)
  PROVE  IInv'
<1> USE DEF IInv
<1>1. LockHeld'
  BY DEF TargetGone, Finish, LockHeld, Stripe
<1>2. JobsWellFormed'
  BY DEF TargetGone, Finish, TypeOK, JobsWellFormed
<1>3. IdsDrawn'
  BY DEF TargetGone, Finish, IdsDrawn
<1>4. UnnamedBeforeRecorded'
  BY DEF TargetGone, Finish, TypeOK, UnnamedBeforeRecorded
<1>5. WonIsCancelled'
  BY DEF TargetGone, Finish, WonIsCancelled
<1>6. IdsAreUnique'
  BY DEF TargetGone, Finish, TypeOK, IdsAreUnique
<1>7. RestingHasMeta'
  BY DEF TargetGone, Finish, TypeOK, RestingHasMeta, Recording
<1>8. CancelledIsFinal'
  BY DEF TargetGone, Finish, TypeOK, CancelledIsFinal, Erasing
<1>9. NeverCrossed'
  BY DEF TargetGone, Finish, NeverCrossed
<1>10. QED
  BY <1>1, <1>2, <1>3, <1>4, <1>5, <1>6, <1>7, <1>8, <1>9

\* A trade shrinks or removes a resting order, and changes no identity.
LEMMA TradeOnceSafe ==
  ASSUME IInv, TypeOK', NEW t \in Threads, TradeOnce(t)
  PROVE  IInv'
<1> USE DEF IInv
<1>1. LockHeld'
  BY DEF TradeOnce, LockHeld, Stripe
<1>2. JobsWellFormed'
  BY DEF TradeOnce, JobsWellFormed
<1>3. IdsDrawn'
  BY DEF TradeOnce, Front, Facing, Reduced, TypeOK, IdsDrawn
<1>4. UnnamedBeforeRecorded'
  BY DEF TradeOnce, UnnamedBeforeRecorded
<1>5. WonIsCancelled'
  BY DEF TradeOnce, WonIsCancelled
<1>6. IdsAreUnique'
  BY DEF TradeOnce, Front, Facing, Reduced, TypeOK, IdsAreUnique
<1>7. RestingHasMeta'
  <2>1. ASSUME NEW o \in orders'
        PROVE  \E p \in orders : p.id = o.id /\ p.sym = o.sym /\ p.side = o.side
    BY DEF TradeOnce, Front, Facing, Reduced, TypeOK, Resting
  <2>2. ASSUME NEW u \in Threads, NEW o \in orders', NEW p \in orders, Recording(u, p),
               p.id = o.id /\ p.sym = o.sym /\ p.side = o.side
        PROVE  Recording(u, o)'
    BY <2>2 DEF TradeOnce, Recording
  <2>3. ASSUME NEW o \in orders'
        PROVE  \/ [oid |-> o.id, symbol |-> o.sym, side |-> o.side] \in meta'
               \/ \E u \in Threads : Recording(u, o)'
    <3>1. PICK p \in orders : p.id = o.id /\ p.sym = o.sym /\ p.side = o.side
      BY <2>1
    <3>2. CASE [oid |-> p.id, symbol |-> p.sym, side |-> p.side] \in meta
      BY <3>1, <3>2 DEF TradeOnce
    <3>3. CASE \E u \in Threads : Recording(u, p)
      BY <3>1, <3>3, <2>2
    <3>4. QED
      BY <3>2, <3>3 DEF RestingHasMeta
  <2>4. QED
    BY <2>3 DEF RestingHasMeta
<1>8. CancelledIsFinal'
  BY DEF TradeOnce, Front, Facing, Reduced, TypeOK, CancelledIsFinal, Erasing
<1>9. NeverCrossed'
  BY DEF TradeOnce, Front, Facing, Reduced, TypeOK, NeverCrossed
<1>10. QED
  BY <1>1, <1>2, <1>3, <1>4, <1>5, <1>6, <1>7, <1>8, <1>9

\* What comes to rest faces nothing it reaches, and its handler records it.
LEMMA EndMatchSafe ==
  ASSUME IInv, TypeOK', NEW t \in Threads, EndMatch(t)
  PROVE  IInv'
<1> USE DEF IInv
<1>1. LockHeld'
  BY DEF EndMatch, TypeOK, LockHeld, Stripe
<1>2. JobsWellFormed'
  BY DEF EndMatch, JobsWellFormed
<1>3. IdsDrawn'
  BY DEF EndMatch, Rest, TypeOK, IdsDrawn, JobsWellFormed
<1>4. UnnamedBeforeRecorded'
  BY DEF EndMatch, UnnamedBeforeRecorded
<1>5. WonIsCancelled'
  BY DEF EndMatch, WonIsCancelled
<1>6. IdsAreUnique'
  BY DEF EndMatch, Rest, TypeOK, IdsAreUnique, JobsWellFormed
<1>7. RestingHasMeta'
  <2>1. ASSUME NEW u \in Threads, NEW o \in orders, Recording(u, o)
        PROVE  Recording(u, o)'
    BY <2>1 DEF EndMatch, Recording
  <2>2. ASSUME NEW o \in orders', o \notin orders
        PROVE  Recording(t, o)'
    BY <2>2 DEF EndMatch, Rest, Recording, TypeOK, JobsWellFormed
  <2>3. QED
    BY <2>1, <2>2 DEF EndMatch, RestingHasMeta
<1>8. CancelledIsFinal'
  BY DEF EndMatch, Rest, CancelledIsFinal, Erasing
<1>9. NeverCrossed'
  <2>1. ASSUME NEW o \in orders, job[t].qty > 0, job[t].type = "LIMIT",
               o.sym = job[t].sym, o.side = Opposite(job[t].side)
        PROVE  ~Reaches(job[t].side, job[t].price, o.price)
    BY <2>1 DEF EndMatch, Facing
  <2>2. CASE job[t].qty > 0 /\ job[t].type = "LIMIT"
    <3>1. \A o \in orders : o.price \in Nat /\ o.side \in {"B", "A"}
      BY DEF TypeOK
    <3>2. job[t].price \in Nat /\ job[t].side \in {"B", "A"}
      BY DEF EndMatch, TypeOK
    <3>3. QED
      BY <2>1, <3>1, <3>2 DEF EndMatch, Rest, NeverCrossed, Opposite, Reaches
  <2>3. CASE ~(job[t].qty > 0 /\ job[t].type = "LIMIT")
    BY <2>3 DEF EndMatch, Rest, NeverCrossed
  <2>4. QED
    BY <2>2, <2>3
<1>10. QED
  BY <1>1, <1>2, <1>3, <1>4, <1>5, <1>6, <1>7, <1>8, <1>9

\* The erased entry is of an order that no longer rests; the added one is of
\* the handler's own.
LEMMA UpdateMetaSafe ==
  ASSUME IInv, TypeOK', NEW t \in Threads, UpdateMeta(t)
  PROVE  IInv'
<1> USE DEF IInv
<1>1. LockHeld'
  BY DEF UpdateMeta, LockHeld, Stripe
<1>2. JobsWellFormed'
  BY DEF UpdateMeta, JobsWellFormed
<1>3. IdsDrawn'
  BY DEF UpdateMeta, TypeOK, IdsDrawn, JobsWellFormed
<1>4. UnnamedBeforeRecorded'
  BY DEF UpdateMeta, TypeOK, UnnamedBeforeRecorded, IdsAreUnique
<1>5. WonIsCancelled'
  BY DEF UpdateMeta, WonIsCancelled
<1>6. IdsAreUnique'
  BY DEF UpdateMeta, IdsAreUnique
<1>7. RestingHasMeta'
  <2>1. ASSUME NEW o \in orders PROVE 0 < o.id /\ o.id # job[t].oid
    BY DEF UpdateMeta, IdsDrawn, WonIsCancelled, CancelledIsFinal
  <2>2. ASSUME NEW o \in orders, NEW m \in meta, m.oid = o.id
        PROVE  m \in meta'
    BY <2>1, <2>2 DEF UpdateMeta, UnnamedBeforeRecorded
  <2>3. ASSUME NEW o \in orders, Recording(t, o)
        PROVE  [oid |-> o.id, symbol |-> o.sym, side |-> o.side] \in meta'
    BY <2>3 DEF UpdateMeta, Recording
  <2>4. ASSUME NEW o \in orders, NEW u \in Threads \ {t}, Recording(u, o)
        PROVE  Recording(u, o)'
    BY <2>4 DEF UpdateMeta, Recording
  <2>5. ASSUME NEW o \in orders
        PROVE  \/ [oid |-> o.id, symbol |-> o.sym, side |-> o.side] \in meta'
               \/ \E u \in Threads : Recording(u, o)'
    BY <2>2, <2>3, <2>4 DEF RestingHasMeta
  <2>6. QED
    BY <2>5 DEF UpdateMeta, RestingHasMeta
<1>8. CancelledIsFinal'
  <2>1. job[t] \in Job /\ (job[t].kind # "DELETE" => job[t].id \notin cancelled)
    BY DEF UpdateMeta, TypeOK, JobsWellFormed, UnnamedBeforeRecorded
  <2>2. ASSUME NEW u \in Threads, NEW id
        PROVE  Erasing(u, id)' <=> Erasing(u, id) /\ u # t
    BY DEF UpdateMeta, Erasing, TypeOK
  <2>3. ASSUME NEW id \in cancelled
        PROVE  (\E m \in meta' : m.oid = id) <=> (\E m \in meta : m.oid = id) /\ id # job[t].oid
    <3>1. id # job[t].id
      BY <2>1 DEF UpdateMeta, JobsWellFormed, IdsDrawn
    <3>2. QED
      BY <3>1 DEF UpdateMeta
  <2>4. ASSUME NEW id \in cancelled
        PROVE  Erasing(t, id) <=> id = job[t].oid
    BY DEF UpdateMeta, Erasing
  <2>5. ASSUME NEW u \in Threads, NEW id \in cancelled, pc'[u] \in {"lock", "match"}
        PROVE  job'[u].id # id
    BY <2>5 DEF UpdateMeta, CancelledIsFinal
  <2>6. QED
    BY <2>2, <2>3, <2>4, <2>5 DEF UpdateMeta, CancelledIsFinal
<1>9. NeverCrossed'
  BY DEF UpdateMeta, NeverCrossed
<1>10. QED
  BY <1>1, <1>2, <1>3, <1>4, <1>5, <1>6, <1>7, <1>8, <1>9

LEMMA BroadcastDepthSafe ==
  ASSUME IInv, TypeOK', NEW t \in Threads, BroadcastDepth(t)
  PROVE  IInv'
<1> USE DEF IInv
<1>1. LockHeld'
  BY DEF BroadcastDepth, Finish, LockHeld, Stripe
<1>2. JobsWellFormed'
  BY DEF BroadcastDepth, Finish, TypeOK, JobsWellFormed
<1>3. IdsDrawn'
  BY DEF BroadcastDepth, Finish, IdsDrawn
<1>4. UnnamedBeforeRecorded'
  BY DEF BroadcastDepth, Finish, TypeOK, UnnamedBeforeRecorded
<1>5. WonIsCancelled'
  BY DEF BroadcastDepth, Finish, WonIsCancelled
<1>6. IdsAreUnique'
  BY DEF BroadcastDepth, Finish, TypeOK, IdsAreUnique
<1>7. RestingHasMeta'
  BY DEF BroadcastDepth, Finish, TypeOK, RestingHasMeta, Recording
<1>8. CancelledIsFinal'
  BY DEF BroadcastDepth, Finish, CancelledIsFinal, Erasing
<1>9. NeverCrossed'
  BY DEF BroadcastDepth, Finish, NeverCrossed
<1>10. QED
  BY <1>1, <1>2, <1>3, <1>4, <1>5, <1>6, <1>7, <1>8, <1>9

\* A step that changes none of the variables the invariant speaks of.
LEMMA FrameSafe ==
  ASSUME IInv, TypeOK',
         UNCHANGED <<holder, orders, arrivals, meta, gid, pc, job, cancelled>>
  PROVE  IInv'
<1> USE DEF IInv
<1>1. LockHeld'
  BY DEF LockHeld, Stripe
<1>2. JobsWellFormed'
  BY DEF JobsWellFormed
<1>3. IdsDrawn'
  BY DEF IdsDrawn
<1>4. UnnamedBeforeRecorded'
  BY DEF UnnamedBeforeRecorded
<1>5. WonIsCancelled'
  BY DEF WonIsCancelled
<1>6. IdsAreUnique'
  BY DEF IdsAreUnique
<1>7. RestingHasMeta'
  BY DEF RestingHasMeta, Recording
<1>8. CancelledIsFinal'
  BY DEF CancelledIsFinal, Erasing
<1>9. NeverCrossed'
  BY DEF NeverCrossed
<1>10. QED
  BY <1>1, <1>2, <1>3, <1>4, <1>5, <1>6, <1>7, <1>8, <1>9

LEMMA IInvInit == Init => IInv
<1> SUFFICES ASSUME Init PROVE IInv
  OBVIOUS
<1>1. TypeOK
  BY TypeInit
<1>2. LockHeld /\ JobsWellFormed /\ UnnamedBeforeRecorded /\ WonIsCancelled
  BY DEF Init, LockHeld, JobsWellFormed, UnnamedBeforeRecorded, WonIsCancelled
<1>3. IdsDrawn /\ IdsAreUnique /\ RestingHasMeta /\ CancelledIsFinal /\ NeverCrossed
  BY DEF Init, IdsDrawn, IdsAreUnique, RestingHasMeta, CancelledIsFinal,
    NeverCrossed
<1>4. QED
  BY <1>1, <1>2, <1>3 DEF IInv

LEMMA IInvStep == IInv /\ [Next]_vars => IInv'
<1> SUFFICES ASSUME IInv, [Next]_vars PROVE IInv'
  OBVIOUS
<1>1. TypeOK'
  BY TypeStep DEF IInv
<1>2. ASSUME NEW t \in Threads, Request(t) PROVE IInv'
  BY <1>1, <1>2, PostOrderSafe, DeleteOrderSafe, ModifyOrderSafe DEF Request
<1>3. ASSUME NEW t \in Threads, Acquire(t) PROVE IInv'
  BY <1>1, <1>3, SubmitOrderSafe, CancelOrderSafe, ReplaceOrderSafe,
    TargetGoneSafe, BroadcastDepthSafe DEF Acquire
<1>4. ASSUME NEW t \in Threads, Proceed(t) PROVE IInv'
  BY <1>1, <1>4, TradeOnceSafe, EndMatchSafe, UpdateMetaSafe DEF Proceed
<1>5. ASSUME NEW y \in Symbols, GetDepth(y) PROVE IInv'
  BY <1>1, <1>5, FrameSafe DEF GetDepth
<1>6. CASE UNCHANGED vars
  BY <1>1, <1>6, FrameSafe DEF vars
<1>7. QED
  BY <1>2, <1>3, <1>4, <1>5, <1>6 DEF Next

-----------------------------------------------------------------------------
(* The lock.                                                               *)

\* Two threads that match in the same book would hold the same stripe.
LEMMA MatchAlone ==
  ASSUME IInv, NEW t \in Threads, NEW u \in Threads,
         pc[t] = "match", pc[u] = "match", job[t].sym = job[u].sym
  PROVE  t = u
  BY DEF IInv, LockHeld, Stripe

\* A free stripe is not the stripe of a thread that matches.
LEMMA FreeIsOthers ==
  ASSUME IInv, NEW t \in Threads, NEW u \in Threads,
         pc[t] = "match", Free(job[u].sym)
  PROVE  job[u].sym # job[t].sym
  BY NobodyAssumption DEF IInv, LockHeld, Stripe, Free

LEMMA GuardedStep ==
  ASSUME IInv, Next, NEW t \in Threads,
         pc[t] = "match", pc'[t] = "match", job'[t] = job[t]
  PROVE  {o \in orders' : o.sym = job[t].sym} = BookOf(t)
<1>1. ASSUME NEW u \in Threads, CancelOrder(u) \/ ReplaceOrder(u)
      PROVE  {o \in orders' : o.sym = job[t].sym} = BookOf(t)
  <2>1. job[u].sym # job[t].sym
    BY <1>1, FreeIsOthers DEF CancelOrder, ReplaceOrder
  <2>2. orders' = {o \in orders : ~(o.sym = job[u].sym /\ o.id = job[u].oid)}
    BY <1>1 DEF CancelOrder, ReplaceOrder, Cancelled
  <2>3. QED
    BY <2>1, <2>2 DEF BookOf
<1>2. ASSUME NEW u \in Threads, TradeOnce(u)
      PROVE  {o \in orders' : o.sym = job[t].sym} = BookOf(t)
  <2>1. PICK p \in Front(orders, job[u]) :
          /\ orders' = Reduced(orders, p, Lesser(p.qty, job[u].qty))
          /\ job' = [job EXCEPT ![u].qty = @ - Lesser(p.qty, job[u].qty)]
    BY <1>2 DEF TradeOnce
  <2>2. p \in orders /\ p.sym = job[u].sym /\ p \in Resting
    BY DEF Front, Facing, IInv, TypeOK
  <2>3. u # t
    <3>1. job[u] \in Job
          /\ job[u].qty > 0 /\ p.qty \in Nat \ {0}
      BY <1>2, <2>2 DEF TradeOnce, IInv, TypeOK
    <3>2. Lesser(p.qty, job[u].qty) \in Nat \ {0}
      BY <3>1 DEF Lesser
    <3>3. job'[u].qty # job[u].qty
      BY <2>1, <3>1, <3>2 DEF IInv, TypeOK
    <3>4. QED
      BY <3>3
  <2>4. job[u].sym # job[t].sym
    BY <1>2, <2>3, MatchAlone DEF TradeOnce
  <2>5. QED
    BY <2>1, <2>2, <2>4 DEF Reduced, BookOf
<1>3. ASSUME NEW u \in Threads, EndMatch(u)
      PROVE  {o \in orders' : o.sym = job[t].sym} = BookOf(t)
  <2>1. u # t
    BY <1>3 DEF EndMatch, IInv, TypeOK
  <2>2. job[u].sym # job[t].sym
    BY <1>3, <2>1, MatchAlone DEF EndMatch
  <2>3. QED
    BY <1>3, <2>2 DEF EndMatch, Rest, BookOf
<1>4. CASE orders' = orders
  BY <1>4 DEF BookOf
<1>5. ASSUME NEW u \in Threads, Request(u) PROVE orders' = orders
  BY <1>5 DEF Request, PostOrder, DeleteOrder, ModifyOrder
<1>6. ASSUME NEW u \in Threads, Acquire(u)
      PROVE  orders' = orders \/ CancelOrder(u) \/ ReplaceOrder(u)
  BY <1>6 DEF Acquire, SubmitOrder, TargetGone, BroadcastDepth
<1>7. ASSUME NEW u \in Threads, Proceed(u)
      PROVE  orders' = orders \/ TradeOnce(u) \/ EndMatch(u)
  BY <1>7 DEF Proceed, UpdateMeta
<1>8. ASSUME NEW y \in Symbols, GetDepth(y) PROVE orders' = orders
  BY <1>8 DEF GetDepth
<1>9. QED
  BY <1>1, <1>2, <1>3, <1>4, <1>5, <1>6, <1>7, <1>8 DEF Next

-----------------------------------------------------------------------------
(* The theorems.                                                           *)

\* In every reachable state the invariant holds that the others rest on.
THEOREM Invariance == Spec => []IInv
  BY IInvInit, IInvStep, PTL DEF Spec

\* Every resting order can be cancelled and modified, or is about to be
\* recorded by the handler that placed it (lob_server.cpp:292-296, 462-467).
THEOREM RestingOrdersHaveMeta == Spec => []RestingHasMeta
<1>1. IInv => RestingHasMeta
  BY DEF IInv
<1>2. QED
  BY <1>1, Invariance, PTL

\* However many DELETE and PATCH handlers race for an order, one takes it out
\* of its book, and it never comes back (lob_server.cpp:346-366, 439-467).
THEOREM CancelsAreFinal == Spec => []CancelledIsFinal
<1>1. IInv => CancelledIsFinal
  BY DEF IInv
<1>2. QED
  BY <1>1, Invariance, PTL

\* No reader ever sees a crossed book: a limit order rests only when nothing
\* on the other side reaches it (lob_server.cpp:283-290, 459-460).
THEOREM BooksAreNeverCrossed == Spec => []NeverCrossed
<1>1. IInv => NeverCrossed
  BY DEF IInv
<1>2. QED
  BY <1>1, Invariance, PTL

\* The shared counter gives every order an id of its own (lob_server.cpp:272,
\* 447).
THEOREM IdsNeverClash == Spec => []IdsAreUnique
<1>1. IInv => IdsAreUnique
  BY DEF IInv
<1>2. QED
  BY <1>1, Invariance, PTL

\* Striped locking is enough: whatever the assignment of symbols to stripes,
\* nobody changes a book while a thread matches in it (lob_server.cpp:24-27).
THEOREM BooksAreGuarded == Spec => BookIsGuarded
<1>1. ASSUME IInv, [Next]_vars
      PROVE  [\A t \in Threads :
                pc[t] = "match" /\ pc'[t] = "match" /\ job'[t] = job[t]
                  => {o \in orders' : o.sym = job[t].sym} = BookOf(t)]_vars
  BY <1>1, GuardedStep
<1>2. QED
  BY <1>1, Invariance, PTL DEF Spec, BookIsGuarded

-----------------------------------------------------------------------------
(***************************************************************************)
(* LobServer implements Exchange: every critical section of a handler is a *)
(* step of Exchange or leaves what Exchange shows as it was.               *)
(***************************************************************************)

\* Every id that may still be drawn is within the bound.
IdsReserved ==
  /\ IsFiniteSet(Drawing)
  /\ gid + Cardinality(Drawing) <= MaxOrders + 1

\* order_meta_map is a map.
OneMetaPerId == \A m, n \in meta : m.oid = n.oid => m = n

\* What a handler that waits for the lock has been asked for.
AskedFor ==
  \A t \in Threads : pc[t] = "lock" /\ job[t].kind # "DELETE" => job[t].qty \in Asked

\* The order a handler was asked about is on the side of the book where its
\* metadata has it.
AskedSide ==
  \A t \in Threads, o \in orders :
    pc[t] = "lock" /\ job[t].kind # "POST" /\ o.id = job[t].oid =>
      o.sym = job[t].sym /\ o.side = job[t].side

RInv == IInv /\ IdsReserved /\ OneMetaPerId /\ AskedFor /\ AskedSide

-----------------------------------------------------------------------------
(* The invariant.                                                          *)

\* Who joins, or leaves, the PATCH handlers that may draw an id.
LEMMA DrawingStep ==
  ASSUME TypeOK, NEW t \in Threads, Request(t) \/ Acquire(t) \/ Proceed(t)
  PROVE  \/ Drawing' = Drawing /\ gid' = gid
         \/ Drawing' = Drawing /\ IdLeft /\ gid' = gid + 1
         \/ Drawing' = Drawing \cup {t} /\ t \notin Drawing /\ IdLeft /\ gid' = gid
         \/ Drawing' = Drawing \ {t} /\ t \in Drawing /\ gid' \in {gid, gid + 1}
<1>1. ASSUME NEW b \in Bodies, PostOrder(t, b)
      PROVE  Drawing' = Drawing /\ IdLeft /\ gid' = gid + 1
  BY <1>1 DEF PostOrder, Drawing, TypeOK
<1>2. ASSUME NEW m \in meta, DeleteOrder(t, m)
      PROVE  Drawing' = Drawing /\ gid' = gid
  BY <1>2 DEF DeleteOrder, Drawing, TypeOK
<1>3. ASSUME NEW m \in meta, NEW c \in Changes, ModifyOrder(t, m, c)
      PROVE  Drawing' = Drawing \cup {t} /\ t \notin Drawing /\ IdLeft /\ gid' = gid
  BY <1>3 DEF ModifyOrder, Drawing, TypeOK
<1>4. CASE SubmitOrder(t) \/ CancelOrder(t) \/ BroadcastDepth(t)
  BY <1>4 DEF SubmitOrder, CancelOrder, BroadcastDepth, Finish, Drawing, TypeOK
<1>5. CASE ReplaceOrder(t)
  BY <1>5 DEF ReplaceOrder, Drawing, TypeOK
<1>6. CASE TargetGone(t)
  BY <1>6 DEF TargetGone, Finish, Drawing, TypeOK
<1>7. CASE TradeOnce(t)
  BY <1>7 DEF TradeOnce, Drawing, TypeOK
<1>8. CASE EndMatch(t) \/ UpdateMeta(t)
  BY <1>8 DEF EndMatch, UpdateMeta, Drawing, TypeOK
<1>9. QED
  BY <1>1, <1>2, <1>3, <1>4, <1>5, <1>6, <1>7, <1>8 DEF Request, Acquire, Proceed

\* A thread that draws an id gives up the place it had reserved.
LEMMA ReservedStep ==
  ASSUME TypeOK, IdsReserved, NEW t \in Threads, Request(t) \/ Acquire(t) \/ Proceed(t)
  PROVE  IdsReserved'
<1>1. gid \in Nat /\ MaxOrders \in Nat /\ IsFiniteSet(Drawing) /\ Cardinality(Drawing) \in Nat
  BY BoundAssumption, FS_CardinalityType DEF TypeOK, IdsReserved
<1>2. CASE Drawing' = Drawing /\ gid' = gid
  BY <1>2 DEF IdsReserved
<1>3. CASE Drawing' = Drawing /\ IdLeft /\ gid' = gid + 1
  BY <1>1, <1>3 DEF IdsReserved, IdLeft
<1>4. CASE Drawing' = Drawing \cup {t} /\ t \notin Drawing /\ IdLeft /\ gid' = gid
  <2>1. IsFiniteSet(Drawing') /\ Cardinality(Drawing') = Cardinality(Drawing) + 1
    BY <1>1, <1>4, FS_AddElement
  <2>2. QED
    BY <1>1, <1>4, <2>1 DEF IdsReserved, IdLeft
<1>5. CASE Drawing' = Drawing \ {t} /\ t \in Drawing /\ gid' \in {gid, gid + 1}
  <2>1. IsFiniteSet(Drawing') /\ Cardinality(Drawing') = Cardinality(Drawing) - 1
    BY <1>1, <1>5, FS_RemoveElement
  <2>2. QED
    BY <1>1, <1>5, <2>1 DEF IdsReserved
<1>6. QED
  BY <1>2, <1>3, <1>4, <1>5, DrawingStep

\* An order that rests, and is not a job's own, has the side its metadata says.
LEMMA MetaSide ==
  ASSUME IInv, OneMetaPerId, NEW m \in meta, NEW o \in orders, o.id = m.oid
  PROVE  o.sym = m.symbol /\ o.side = m.side
<1>1. ASSUME NEW u \in Threads PROVE ~Recording(u, o)
  <2>1. 0 < m.oid
    BY DEF IInv, IdsDrawn
  <2>2. QED
    BY <2>1 DEF Recording, IInv, UnnamedBeforeRecorded
<1>2. [oid |-> o.id, symbol |-> o.sym, side |-> o.side] \in meta
  BY <1>1 DEF IInv, RestingHasMeta
<1>3. QED
  BY <1>2 DEF OneMetaPerId

LEMMA RInvInit == Init => RInv
<1> SUFFICES ASSUME Init PROVE RInv
  OBVIOUS
<1>1. IInv
  BY IInvInit
<1>2. Drawing = {} /\ gid = 1
  BY DEF Init, Drawing
<1>3. IdsReserved
  BY <1>2, FS_EmptySet, BoundAssumption DEF IdsReserved
<1>4. QED
  BY <1>1, <1>3 DEF Init, RInv, OneMetaPerId, AskedFor, AskedSide

\* The other parts change only where a handler starts, trades, records or
\* comes to rest.
LEMMA AskedStep ==
  ASSUME RInv, IInv', NEW t \in Threads, Request(t) \/ Acquire(t) \/ Proceed(t)
  PROVE  OneMetaPerId' /\ AskedFor' /\ AskedSide'
<1> USE DEF RInv
<1>1. ASSUME NEW b \in Bodies, PostOrder(t, b)
      PROVE  OneMetaPerId' /\ AskedFor' /\ AskedSide'
  BY <1>1 DEF PostOrder, IInv, TypeOK, OneMetaPerId, AskedFor, AskedSide, Asked
<1>2. ASSUME NEW m \in meta, DeleteOrder(t, m)
      PROVE  OneMetaPerId' /\ AskedFor' /\ AskedSide'
  BY <1>2, MetaSide DEF DeleteOrder, IInv, TypeOK, OneMetaPerId, AskedFor, AskedSide
<1>3. ASSUME NEW m \in meta, NEW c \in Changes, ModifyOrder(t, m, c)
      PROVE  OneMetaPerId' /\ AskedFor' /\ AskedSide'
  BY <1>3, MetaSide DEF ModifyOrder, IInv, TypeOK, OneMetaPerId, AskedFor, AskedSide, Asked
<1>4. CASE SubmitOrder(t) \/ BroadcastDepth(t) \/ TargetGone(t)
  BY <1>4 DEF SubmitOrder, BroadcastDepth, TargetGone, Finish, IInv, TypeOK,
              OneMetaPerId, AskedFor, AskedSide
<1>5. CASE CancelOrder(t) \/ ReplaceOrder(t)
  BY <1>5 DEF CancelOrder, ReplaceOrder, Cancelled, IInv, TypeOK,
              OneMetaPerId, AskedFor, AskedSide
<1>6. CASE TradeOnce(t)
  <2>1. PICK p \in Front(orders, job[t]) :
          /\ orders' = Reduced(orders, p, Lesser(p.qty, job[t].qty))
          /\ job' = [job EXCEPT ![t].qty = @ - Lesser(p.qty, job[t].qty)]
    BY <1>6 DEF TradeOnce
  <2>2. p \in orders /\ p \in Resting
    BY DEF Front, Facing, IInv, TypeOK
  <2>3. ASSUME NEW o \in orders'
        PROVE  \E q \in orders : q.id = o.id /\ q.sym = o.sym /\ q.side = o.side
    BY <2>1, <2>2 DEF Reduced, Resting
  <2>4. ASSUME NEW u \in Threads, pc'[u] = "lock" PROVE job'[u] = job[u] /\ pc[u] = "lock"
    BY <1>6, <2>1, <2>4 DEF TradeOnce, IInv, TypeOK
  <2>5. QED
    BY <1>6, <2>3, <2>4 DEF TradeOnce, OneMetaPerId, AskedFor, AskedSide
<1>7. CASE EndMatch(t)
  <2>1. job[t].id # 0 /\ \A u \in Threads : pc[u] = "lock" => job[u].oid # job[t].id
    BY <1>7 DEF EndMatch, IInv, JobsWellFormed, TypeOK, Job, UnnamedBeforeRecorded
  <2>2. \A o \in orders' : o \in orders \/ o.id = job[t].id
    BY <1>7 DEF EndMatch, Rest
  <2>3. ASSUME NEW u \in Threads, pc'[u] = "lock" PROVE pc[u] = "lock" /\ job'[u] = job[u]
    BY <1>7, <2>3 DEF EndMatch, IInv, TypeOK
  <2>4. QED
    BY <1>7, <2>1, <2>2, <2>3 DEF EndMatch, OneMetaPerId, AskedFor, AskedSide
<1>8. CASE UpdateMeta(t)
  BY <1>8 DEF UpdateMeta, IInv, TypeOK, OneMetaPerId, AskedFor, AskedSide
<1>9. QED
  BY <1>1, <1>2, <1>3, <1>4, <1>5, <1>6, <1>7, <1>8 DEF Request, Acquire, Proceed

LEMMA RInvStep == RInv /\ [Next]_vars => RInv'
<1> SUFFICES ASSUME RInv, [Next]_vars PROVE RInv'
  OBVIOUS
<1>1. IInv'
  BY IInvStep DEF RInv
<1>2. ASSUME NEW t \in Threads, Request(t) \/ Acquire(t) \/ Proceed(t)
      PROVE  RInv'
  <2>1. TypeOK
    BY DEF RInv, IInv
  <2>2. IdsReserved'
    BY <1>2, <2>1, ReservedStep DEF RInv
  <2>3. QED
    BY <1>1, <1>2, <2>2, AskedStep DEF RInv
<1>3. ASSUME NEW y \in Symbols, GetDepth(y) PROVE RInv'
  BY <1>1, <1>3 DEF GetDepth, RInv, IdsReserved, Drawing, OneMetaPerId, AskedFor, AskedSide
<1>4. CASE UNCHANGED vars
  BY <1>1, <1>4 DEF vars, RInv, IdsReserved, Drawing, OneMetaPerId, AskedFor, AskedSide
<1>5. QED
  BY <1>2, <1>3, <1>4 DEF Next

-----------------------------------------------------------------------------
(* What a step does to the variables of Exchange.                          *)

\* The orders that rest keep what Exchange sees, and so do those being matched.
LEMMA SameOpen ==
  ASSUME orders' = orders, Takers' = Takers, \A u \in Takers : job'[u] = job[u]
  PROVE  OpenOrders' = OpenOrders
  BY DEF OpenOrders, Public

\* The ids not yet drawn, and those in a handler that waits, stay the same.
Waiting(id) == \E u \in Threads : pc[u] = "lock" /\ job[u].id = id

LEMMA BornAre == BornIds = {id \in 1 .. gid - 1 : ~Waiting(id)}
  BY DEF BornIds, Waiting

LEMMA SameBorn ==
  ASSUME gid' = gid, \A id \in 1 .. gid - 1 : Waiting(id)' <=> Waiting(id)
  PROVE  BornIds' = BornIds
<1>1. BornIds' = {id \in 1 .. gid' - 1 : ~Waiting(id)'}
  BY DEF BornIds, Waiting
<1>2. QED
  BY <1>1, BornAre

\* A request shows nothing: its order is not born before the lock is taken.
LEMMA RequestIsQuiet ==
  ASSUME RInv, NEW t \in Threads, Request(t)
  PROVE  UNCHANGED Promise!vars
<1>0. TypeOK /\ JobsWellFormed
  BY DEF RInv, IInv
<1>1. ASSUME NEW b \in Bodies, PostOrder(t, b)
      PROVE  UNCHANGED Promise!vars
  <2>1. Takers' = Takers /\ \A u \in Takers : job'[u] = job[u]
    BY <1>0, <1>1 DEF PostOrder, Takers, TypeOK
  <2>2. BornIds' = {id \in 1 .. gid' - 1 : ~Waiting(id)'}
    BY DEF BornIds, Waiting
  <2>3. gid \in Nat \ {0} /\ gid' = gid + 1
    BY <1>0, <1>1 DEF PostOrder, TypeOK
  <2>4. \A id \in 1 .. gid - 1 : Waiting(id)' <=> Waiting(id)
    BY <1>0, <1>1 DEF PostOrder, TypeOK, Waiting
  <2>5. ASSUME NEW id, id = gid PROVE Waiting(id)'
    BY <1>0, <1>1, <2>5 DEF PostOrder, TypeOK, Waiting
  <2>6. BornIds' = BornIds
    BY <2>2, <2>3, <2>4, <2>5, BornAre
  <2>7. QED
    BY <1>1, <2>1, <2>6, SameOpen DEF PostOrder, Promise!vars, Handles, Sold
<1>2. ASSUME NEW m \in meta, DeleteOrder(t, m) \/ \E c \in Changes : ModifyOrder(t, m, c)
      PROVE  UNCHANGED Promise!vars
  <2>1. Takers' = Takers /\ \A u \in Takers : job'[u] = job[u]
    BY <1>0, <1>2 DEF DeleteOrder, ModifyOrder, Takers, TypeOK
  <2>2. gid' = gid /\ gid \in Nat
    BY <1>0, <1>2 DEF DeleteOrder, ModifyOrder, TypeOK
  <2>3. \A id \in 1 .. gid - 1 : Waiting(id)' <=> Waiting(id)
    BY <1>0, <1>2, <2>2 DEF DeleteOrder, ModifyOrder, TypeOK, Waiting
  <2>4. BornIds' = BornIds
    BY <2>2, <2>3, SameBorn
  <2>5. QED
    BY <1>2, <2>1, <2>4, SameOpen DEF DeleteOrder, ModifyOrder, Promise!vars, Handles, Sold
<1>3. QED
  BY <1>1, <1>2 DEF Request

\* A 404, an answer and a read of the book show nothing either.
LEMMA AnswerIsQuiet ==
  ASSUME RInv, NEW t \in Threads, TargetGone(t) \/ BroadcastDepth(t)
  PROVE  UNCHANGED Promise!vars
<1>0. TypeOK /\ JobsWellFormed
  BY DEF RInv, IInv
<1>1. Takers' = Takers /\ \A u \in Takers : job'[u] = job[u]
  BY <1>0 DEF TargetGone, BroadcastDepth, Finish, Takers, TypeOK
<1>2. gid' = gid /\ gid \in Nat
  BY <1>0 DEF TargetGone, BroadcastDepth, TypeOK
<1>3. ASSUME NEW id \in 1 .. gid - 1 PROVE Waiting(id)' <=> Waiting(id)
  <2>1. pc[t] = "lock" => job[t].id # id
    BY <1>0, <1>2 DEF TargetGone, BroadcastDepth, JobsWellFormed
  <2>2. QED
    BY <1>0, <2>1 DEF TargetGone, BroadcastDepth, Finish, TypeOK, Waiting
<1>4. BornIds' = BornIds
  BY <1>2, <1>3, SameBorn
<1>5. QED
  BY <1>1, <1>4, SameOpen DEF TargetGone, BroadcastDepth, Promise!vars, Handles, Sold

LEMMA FrameIsQuiet ==
  ASSUME (\E y \in Symbols : GetDepth(y)) \/ UNCHANGED vars
  PROVE  UNCHANGED Promise!vars
  BY DEF GetDepth, vars, Promise!vars, OpenOrders, Takers, Public, BornIds, Handles, Sold

-----------------------------------------------------------------------------
(* Steps of Exchange.                                                      *)

\* The order of a handler that is past its cancel has an id.
LEMMA OwnId ==
  ASSUME RInv, NEW t \in Threads,
         pc[t] = "match" \/ (pc[t] = "lock" /\ job[t].kind = "POST")
                         \/ (pc[t] = "meta" /\ job[t].kind # "DELETE")
  PROVE  job[t] \in Job /\ job[t].id \in 1 .. gid - 1
  BY DEF RInv, IInv, TypeOK, Job, JobsWellFormed

\* No two orders that Exchange sees share an id.
LEMMA OpenIdsAreUnique ==
  ASSUME RInv
  PROVE  /\ \A o, p \in orders : o.id = p.id => o = p
         /\ \A u \in Takers, o \in orders : job[u].id # o.id
         /\ \A u, v \in Takers : job[u].id = job[v].id => u = v
<1>1. \A u \in Takers : u \in Threads /\ pc[u] = "match" /\ job[u].id # 0
  BY OwnId DEF Takers
<1>2. QED
  BY <1>1 DEF RInv, IInv, IdsAreUnique

LEMMA SubmitOpens ==
  ASSUME RInv, NEW t \in Threads, SubmitOrder(t)
  PROVE  Promise!Next
<1> DEFINE o == Public(job[t])
<1>0. TypeOK /\ pc[t] = "lock" /\ job[t].kind = "POST"
  BY DEF RInv, IInv, SubmitOrder
<1>1. job[t] \in Job /\ job[t].id \in 1 .. gid - 1 /\ gid \in Nat
  BY <1>0, OwnId DEF TypeOK
<1>2. gid <= MaxOrders + 1 /\ MaxOrders \in Nat
  BY <1>1, BoundAssumption, FS_CardinalityType DEF RInv, IdsReserved
<1>3. job[t].qty \in Asked /\ job[t].qty \in Nat /\ job[t].qty > 0
  <2>1. job[t].qty \in Asked
    BY <1>0 DEF RInv, AskedFor
  <2>2. QED
    BY <2>1, BodyAssumption DEF Asked
<1>4. o \in Promise!Order
  BY <1>1, <1>2, <1>3 DEF Public, Promise!Order, Job, Sides
<1>5. Takers' = Takers \cup {t} /\ t \notin Takers
  BY <1>0, <1>3 DEF SubmitOrder, Takers, TypeOK
<1>6. OpenOrders' = OpenOrders \cup {o}
  BY <1>5 DEF SubmitOrder, OpenOrders, Public
<1>7. o.id = job[t].id /\ Waiting(o.id)
  BY <1>0 DEF Public, Waiting
<1>8. \A id \in 1 .. gid - 1 : Waiting(id)' <=> Waiting(id) /\ id # job[t].id
  <2>1. \A u \in Threads : pc[u] = "lock" /\ job[u].id = job[t].id => u = t
    BY <1>0, <1>1 DEF RInv, IInv, IdsAreUnique
  <2>2. QED
    BY <1>0, <2>1 DEF SubmitOrder, TypeOK, Waiting
<1>9. BornIds' = BornIds \cup {o.id} /\ o.id \notin BornIds
  <2>1. BornIds' = {id \in 1 .. gid' - 1 : ~Waiting(id)'}
    BY DEF BornIds, Waiting
  <2>2. QED
    BY <1>1, <1>7, <1>8, <2>1, BornAre DEF SubmitOrder
<1>10. UNCHANGED <<cancelled, Handles, Sold>>
  BY DEF SubmitOrder, Handles, Sold
<1>11. Promise!Open(o)
  BY <1>6, <1>9, <1>10 DEF Promise!Open
<1>12. QED
  BY <1>4, <1>11 DEF Promise!Next

\* The order a handler takes out of its book, and its handle.
LEMMA TargetHasHandle ==
  ASSUME RInv, NEW t \in Threads, pc[t] = "lock", job[t].kind # "POST",
         NEW o \in Target(t)
  PROVE  /\ Public(o) \in OpenOrders /\ o.id \in Handles
         /\ o.sym = job[t].sym /\ o.side = job[t].side /\ o.id = job[t].oid
<1>1. o \in orders /\ o.sym = job[t].sym /\ o.id = job[t].oid
  BY DEF Target
<1>2. ASSUME NEW u \in Threads PROVE ~Recording(u, o)
  <2>1. 0 < o.id
    BY <1>1 DEF RInv, IInv, IdsDrawn
  <2>2. QED
    BY <1>1, <2>1 DEF Recording, RInv, IInv, UnnamedBeforeRecorded
<1>3. [oid |-> o.id, symbol |-> o.sym, side |-> o.side] \in meta
  BY <1>1, <1>2 DEF RInv, IInv, RestingHasMeta
<1>4. o.id \in Handles
  BY <1>3 DEF Handles
<1>5. QED
  BY <1>1, <1>4 DEF OpenOrders, RInv, AskedSide

\* Taking it out takes one order from what Exchange sees.
LEMMA TargetTakenOut ==
  ASSUME RInv, NEW t \in Threads, pc[t] = "lock", NEW o \in Target(t)
  PROVE  {Public(q) : q \in Cancelled(orders, job[t].sym, job[t].oid)}
            \cup {Public(job[u]) : u \in Takers} = OpenOrders \ {Public(o)}
<1>1. o \in orders /\ o.sym = job[t].sym /\ o.id = job[t].oid
  BY DEF Target
<1>2. Cancelled(orders, job[t].sym, job[t].oid) = orders \ {o}
  BY <1>1, OpenIdsAreUnique DEF Cancelled
<1>3. \A q \in orders \ {o} : Public(q) # Public(o)
  BY <1>1, OpenIdsAreUnique DEF Public
<1>4. \A u \in Takers : Public(job[u]) # Public(o)
  BY <1>1, OpenIdsAreUnique DEF Public
<1>5. QED
  BY <1>1, <1>2, <1>3, <1>4 DEF OpenOrders

LEMMA CancelCancels ==
  ASSUME RInv, NEW t \in Threads, CancelOrder(t)
  PROVE  Promise!Next
<1>0. TypeOK /\ pc[t] = "lock" /\ job[t].kind = "DELETE" /\ JobsWellFormed
  BY DEF RInv, IInv, CancelOrder
<1>1. PICK o \in Target(t) : TRUE
  BY DEF CancelOrder
<1>2. /\ Public(o) \in OpenOrders /\ o.id \in Handles /\ o.id = job[t].oid
  BY <1>0, <1>1, TargetHasHandle
<1>3. Takers' = Takers /\ \A u \in Takers : job'[u] = job[u]
  BY <1>0 DEF CancelOrder, Takers, TypeOK
<1>4. OpenOrders' = OpenOrders \ {Public(o)}
  <2>1. OpenOrders' = {Public(q) : q \in Cancelled(orders, job[t].sym, job[t].oid)}
                        \cup {Public(job[u]) : u \in Takers}
    BY <1>3 DEF CancelOrder, OpenOrders, Public
  <2>2. QED
    BY <1>0, <1>1, <2>1, TargetTakenOut
<1>5. BornIds' = BornIds
  <2>1. gid' = gid /\ gid \in Nat
    BY <1>0 DEF CancelOrder, TypeOK
  <2>2. ASSUME NEW id \in 1 .. gid - 1 PROVE Waiting(id)' <=> Waiting(id)
    BY <1>0, <2>1 DEF CancelOrder, TypeOK, Waiting, JobsWellFormed
  <2>3. QED
    BY <2>1, <2>2, SameBorn
<1>6. Public(o).id = o.id
  BY DEF Public
<1>7. Promise!Cancel(Public(o))
  BY <1>2, <1>4, <1>5, <1>6 DEF CancelOrder, Promise!Cancel, Handles, Sold
<1>8. QED
  BY <1>2, <1>7 DEF Promise!Next

\* PATCH: the old order goes and the new one comes in one step.
LEMMA ReplaceReplaces ==
  ASSUME RInv, NEW t \in Threads, ReplaceOrder(t)
  PROVE  Promise!Next
<1>0. TypeOK /\ pc[t] = "lock" /\ job[t].kind = "PATCH" /\ JobsWellFormed
  BY DEF RInv, IInv, ReplaceOrder
<1>1. PICK o \in Target(t) : TRUE
  BY DEF ReplaceOrder
<1>2. /\ Public(o) \in OpenOrders /\ o.id \in Handles /\ o.id = job[t].oid
      /\ o.sym = job[t].sym /\ o.side = job[t].side
  BY <1>0, <1>1, TargetHasHandle
<1>3. job[t] \in Job /\ gid \in Nat \ {0} /\ gid' = gid + 1 /\ job[t].id = 0
  BY <1>0 DEF TypeOK, ReplaceOrder, JobsWellFormed
<1>4. gid <= MaxOrders /\ MaxOrders \in Nat
  <2>1. t \in Drawing /\ IsFiniteSet(Drawing)
    BY <1>0 DEF Drawing, RInv, IdsReserved
  <2>2. Cardinality(Drawing) \in Nat /\ Cardinality(Drawing) # 0
    BY <2>1, FS_CardinalityType, FS_EmptySet
  <2>3. QED
    BY <1>3, <2>2, BoundAssumption DEF RInv, IdsReserved
<1>5. job[t].qty \in Asked /\ job[t].qty \in Nat /\ job[t].qty > 0
  <2>1. job[t].qty \in Asked
    BY <1>0 DEF RInv, AskedFor
  <2>2. QED
    BY <2>1, BodyAssumption DEF Asked
<1> DEFINE n == [id |-> gid, sym |-> job[t].sym, side |-> job[t].side, qty |-> job[t].qty]
<1>6. n \in Promise!Order
  BY <1>3, <1>4, <1>5 DEF Promise!Order, Job, Sides
<1>7. Takers' = Takers \cup {t} /\ t \notin Takers
      /\ (\A u \in Takers : job'[u] = job[u]) /\ Public(job'[t]) = n
  BY <1>0, <1>3, <1>5 DEF ReplaceOrder, Takers, TypeOK, Public, Job
<1>8. OpenOrders' = (OpenOrders \ {Public(o)}) \cup {n}
  <2>1. OpenOrders' = {Public(q) : q \in orders'} \cup {Public(job'[u]) : u \in Takers'}
    BY DEF OpenOrders, Public
  <2>2. {Public(job'[u]) : u \in Takers'} = {Public(job[u]) : u \in Takers} \cup {n}
    BY <1>7
  <2>3. orders' = Cancelled(orders, job[t].sym, job[t].oid)
    BY DEF ReplaceOrder
  <2>4. QED
    BY <1>0, <1>1, <2>1, <2>2, <2>3, TargetTakenOut
<1>9. BornIds' = BornIds \cup {gid} /\ gid \notin BornIds
  <2>1. BornIds' = {id \in 1 .. gid' - 1 : ~Waiting(id)'}
    BY DEF BornIds, Waiting
  <2>2. ASSUME NEW id \in 1 .. gid - 1 PROVE Waiting(id)' <=> Waiting(id)
    BY <1>0, <1>3 DEF ReplaceOrder, TypeOK, Waiting
  <2>3. ASSUME NEW id, id = gid PROVE ~Waiting(id)'
    BY <1>0, <1>3, <2>3 DEF ReplaceOrder, TypeOK, Waiting, JobsWellFormed, Job
  <2>4. QED
    BY <1>3, <2>1, <2>2, <2>3, BornAre
<1>10. Public(o).id = o.id /\ Public(o).sym = o.sym /\ Public(o).side = o.side
  BY DEF Public
<1>11. UNCHANGED <<Handles, Sold>> /\ cancelled' = cancelled \cup {o.id}
  BY <1>2 DEF ReplaceOrder, Handles, Sold
<1>12. Promise!Replace(Public(o), n)
  BY <1>2, <1>8, <1>9, <1>10, <1>11 DEF Promise!Replace
<1>13. QED
  BY <1>2, <1>6, <1>12 DEF Promise!Next

\* What is left of a taker and of the order it meets, if anything.
LEMMA TradeTrades ==
  ASSUME RInv, NEW t \in Threads, TradeOnce(t)
  PROVE  Promise!Next
<1>0. TypeOK /\ t \in Takers /\ job[t] \in Job
  BY DEF RInv, IInv, TradeOnce, TypeOK, Takers
<1>1. PICK p \in Front(orders, job[t]) :
        LET n == Lesser(p.qty, job[t].qty)
        IN  /\ kafka_q' = kafka_q \cup {[sym |-> p.sym, px |-> p.price, qty |-> n,
                                         pass |-> p.id, take |-> job[t].id]}
            /\ orders' = Reduced(orders, p, n)
            /\ job' = [job EXCEPT ![t].qty = @ - n]
  BY DEF TradeOnce
<1> DEFINE n == Lesser(p.qty, job[t].qty)
           p1 == [p EXCEPT !.qty = @ - n]
           j1 == [job[t] EXCEPT !.qty = @ - n]
           o1 == Public(p)
           k1 == Public(job[t])
           o2 == [o1 EXCEPT !.qty = @ - n]
           k2 == [k1 EXCEPT !.qty = @ - n]
           Rest1 == {Public(o) : o \in orders \ {p}} \cup {Public(job[u]) : u \in Takers \ {t}}
<1>2. p \in orders /\ p \in Resting /\ p.sym = job[t].sym /\ p.side # job[t].side
  BY <1>0, <1>1 DEF Front, Facing, Opposite, Job, Sides, TypeOK
<1>3. n \in Nat \ {0} /\ n <= p.qty /\ n <= job[t].qty
      /\ p.qty \in Nat \ {0} /\ job[t].qty \in Nat \ {0}
  BY <1>0, <1>2 DEF Lesser, Resting, Job, Takers
<1>4. n = Promise!Least(o1.qty, k1.qty)
  BY DEF Lesser, Promise!Least, Public
<1>5. Public(p1) = o2 /\ Public(j1) = k2 /\ o2.qty = p.qty - n /\ k2.qty = job[t].qty - n
  BY <1>0, <1>2 DEF Public, Resting, Job
<1> HIDE DEF n
<1>6. OpenOrders = Rest1 \cup {o1, k1}
  BY <1>0, <1>2 DEF OpenOrders
<1>7. o1 \notin Rest1 /\ k1 \notin Rest1
  <2>1. \A o \in orders \ {p} : o.id # p.id /\ o.id # job[t].id
    BY <1>0, <1>2, OpenIdsAreUnique
  <2>2. \A u \in Takers \ {t} : job[u].id # job[t].id /\ job[u].id # p.id
    BY <1>0, <1>2, OpenIdsAreUnique
  <2>3. o1.id = p.id /\ k1.id = job[t].id /\ (\A o \in orders : Public(o).id = o.id)
        /\ (\A u \in Takers : Public(job[u]).id = job[u].id)
    BY DEF Public
  <2>4. QED
    BY <2>1, <2>2, <2>3
<1>8. Takers' = (Takers \ {t}) \cup (IF n < job[t].qty THEN {t} ELSE {})
      /\ (\A u \in Takers \ {t} : job'[u] = job[u]) /\ job'[t] = j1
  <2>1. job' = [job EXCEPT ![t] = j1] /\ pc' = pc
    BY <1>1 DEF n, TradeOnce
  <2>2. job'[t] = j1 /\ (\A u \in Threads \ {t} : job'[u] = job[u])
    BY <1>0, <2>1 DEF TypeOK
  <2>3. j1.qty = job[t].qty - n
    BY <1>0 DEF Job
  <2>4. j1.qty > 0 <=> n < job[t].qty
    BY <1>3, <2>3
  <2>5. Takers' = {u \in Threads : pc[u] = "match" /\ job'[u].qty > 0}
    BY <2>1 DEF Takers
  <2>6. t \in Threads /\ pc[t] = "match"
    BY <1>0 DEF Takers
  <2> HIDE DEF j1
  <2>7. Takers' = (Takers \ {t}) \cup (IF n < job[t].qty THEN {t} ELSE {})
    BY <2>2, <2>4, <2>5, <2>6 DEF Takers
  <2>8. QED
    BY <2>2, <2>7 DEF Takers
<1>9. {Public(job'[u]) : u \in Takers'}
        = {Public(job[u]) : u \in Takers \ {t}} \cup (IF n < job[t].qty THEN {k2} ELSE {})
  BY <1>5, <1>8
<1>10. {Public(o) : o \in orders'}
         = {Public(o) : o \in orders \ {p}} \cup (IF n < p.qty THEN {o2} ELSE {})
  <2>1. orders' = (orders \ {p}) \cup (IF n < p.qty THEN {p1} ELSE {})
    BY <1>1 DEF Reduced, n
  <2>2. QED
    BY <1>5, <2>1
<1>11. OpenOrders' = {Public(o) : o \in orders'} \cup {Public(job'[u]) : u \in Takers'}
  BY DEF OpenOrders, Public
<1>12. OpenOrders' = (OpenOrders \ {o1, k1}) \cup {o \in {o2, k2} : o.qty > 0}
  <2> HIDE DEF o1, k1, o2, k2, Rest1
  <2>1. {o \in {o2, k2} : o.qty > 0}
          = (IF n < p.qty THEN {o2} ELSE {}) \cup (IF n < job[t].qty THEN {k2} ELSE {})
    BY <1>3, <1>5
  <2>2. OpenOrders \ {o1, k1} = Rest1
    BY <1>6, <1>7
  <2>3. QED
    BY <1>9, <1>10, <1>11, <2>1, <2>2 DEF Rest1
<1>13. Sold' = Sold \cup {[sym |-> o1.sym, pass |-> o1.id, take |-> k1.id, qty |-> n]}
  <2> DEFINE f1 == [sym |-> p.sym, px |-> p.price, qty |-> n, pass |-> p.id, take |-> job[t].id]
             Shown(f) == [sym |-> f.sym, pass |-> f.pass, take |-> f.take, qty |-> f.qty]
  <2>1. kafka_q' = kafka_q \cup {f1}
    BY <1>1 DEF n
  <2>2. Shown(f1) = [sym |-> o1.sym, pass |-> o1.id, take |-> k1.id, qty |-> n]
    BY DEF Public
  <2>3. Sold = {Shown(f) : f \in kafka_q} /\ Sold' = {Shown(f) : f \in kafka_q'}
    BY DEF Sold
  <2> HIDE DEF f1, Shown
  <2>4. Sold' = Sold \cup {Shown(f1)}
    BY <2>1, <2>3
  <2>5. QED
    BY <2>2, <2>4
<1>14. BornIds' = BornIds
  <2>1. gid' = gid
    BY DEF TradeOnce
  <2>2. ASSUME NEW id \in 1 .. gid - 1 PROVE Waiting(id)' <=> Waiting(id)
    BY <1>0, <1>8 DEF TradeOnce, TypeOK, Waiting, Takers
  <2>3. QED
    BY <2>1, <2>2, SameBorn
<1>15. UNCHANGED <<cancelled, Handles>>
  BY DEF TradeOnce, Handles
<1>16. o1.sym = k1.sym /\ o1.side # k1.side
  BY <1>2 DEF Public
<1>17. Promise!Trade(o1, k1)
  BY <1>4, <1>12, <1>13, <1>14, <1>15, <1>16 DEF Promise!Trade
<1>18. QED
  BY <1>6, <1>17 DEF Promise!Next

\* A limit order that comes to rest stays open, a market order expires.
LEMMA EndMatchEnds ==
  ASSUME RInv, NEW t \in Threads, EndMatch(t)
  PROVE  Promise!Next \/ UNCHANGED Promise!vars
<1>0. TypeOK /\ pc[t] = "match"
  BY DEF RInv, IInv, EndMatch
<1>1. job[t] \in Job /\ job[t].id \in 1 .. gid - 1
  BY <1>0, OwnId
<1>2. Takers' = Takers \ {t} /\ job' = job
  BY <1>0 DEF EndMatch, Takers, TypeOK
<1>3. OpenOrders' = {Public(o) : o \in orders'} \cup {Public(job[u]) : u \in Takers \ {t}}
  BY <1>2 DEF OpenOrders, Public
<1>4. BornIds' = BornIds
  <2>1. gid' = gid
    BY DEF EndMatch
  <2>2. ASSUME NEW id \in 1 .. gid - 1 PROVE Waiting(id)' <=> Waiting(id)
    BY <1>0 DEF EndMatch, TypeOK, Waiting
  <2>3. QED
    BY <2>1, <2>2, SameBorn
<1>5. UNCHANGED <<cancelled, Handles, Sold>>
  BY DEF EndMatch, Handles, Sold
<1>6. CASE job[t].qty > 0 /\ job[t].type = "LIMIT"
  <2> DEFINE o == [id |-> job[t].id, sym |-> job[t].sym, side |-> job[t].side,
                   price |-> job[t].price, qty |-> job[t].qty, at |-> arrivals]
  <2>1. orders' = orders \cup {o} /\ Public(o) = Public(job[t]) /\ t \in Takers
    BY <1>0, <1>6 DEF EndMatch, Rest, Public, Takers
  <2>2. OpenOrders' = OpenOrders
    BY <1>3, <2>1 DEF OpenOrders
  <2>3. QED
    BY <1>4, <1>5, <2>2 DEF Promise!vars
<1>7. CASE ~(job[t].qty > 0)
  <2>1. orders' = orders /\ t \notin Takers
    BY <1>7 DEF EndMatch, Rest, Takers
  <2>2. OpenOrders' = OpenOrders
    BY <1>3, <2>1 DEF OpenOrders
  <2>3. QED
    BY <1>4, <1>5, <2>2 DEF Promise!vars
<1>8. CASE job[t].qty > 0 /\ job[t].type # "LIMIT"
  <2> DEFINE o == Public(job[t])
  <2>1. orders' = orders /\ t \in Takers /\ o.id = job[t].id
    BY <1>0, <1>8 DEF EndMatch, Rest, Takers, Public
  <2>2. \A q \in orders : Public(q) # o
    BY <2>1, OpenIdsAreUnique DEF Public
  <2>3. \A u \in Takers \ {t} : Public(job[u]) # o
    BY <2>1, OpenIdsAreUnique DEF Public
  <2>4. o \in OpenOrders /\ OpenOrders' = OpenOrders \ {o}
    BY <1>3, <2>1, <2>2, <2>3 DEF OpenOrders
  <2>5. o.id \notin Handles
    BY <1>0, <1>1, <2>1 DEF Handles, RInv, IInv, UnnamedBeforeRecorded
  <2>6. Promise!Expire(o)
    BY <1>4, <1>5, <2>4, <2>5 DEF Promise!Expire
  <2>7. QED
    BY <2>4, <2>6 DEF Promise!Next
<1>9. QED
  BY <1>6, <1>7, <1>8

\* The handle of an order that was cancelled goes, that of a new one comes.
LEMMA MetaRehandles ==
  ASSUME RInv, NEW t \in Threads, UpdateMeta(t)
  PROVE  Promise!Next
<1>0. TypeOK /\ pc[t] = "meta" /\ job[t] \in Job
  BY DEF RInv, IInv, TypeOK, UpdateMeta
<1> DEFINE drop == {job[t].oid} \cap Handles
           give == IF job[t].kind = "DELETE" THEN {} ELSE {job[t].id}
<1>1. job[t].id \notin Handles
  <2>1. job[t].id = 0 => job[t].id \notin Handles
    BY DEF Handles, RInv, IInv, IdsDrawn
  <2>2. job[t].id # 0 => job[t].id \notin Handles
    BY <1>0 DEF Handles, RInv, IInv, UnnamedBeforeRecorded
  <2>3. QED
    BY <2>1, <2>2
<1>2. Handles' = (Handles \ drop) \cup give
  <2> DEFINE kept == {m \in meta : m.oid # job[t].oid /\ m.oid # job[t].id}
             new == IF job[t].kind = "DELETE" THEN {}
                    ELSE {[oid |-> job[t].id, symbol |-> job[t].sym, side |-> job[t].side]}
  <2>1. Handles' = {m.oid : m \in kept \cup new}
    BY DEF UpdateMeta, Handles
  <2>2. {m.oid : m \in new} = give
    <3>1. CASE job[t].kind = "DELETE"
      BY <3>1
    <3>2. CASE job[t].kind # "DELETE"
      BY <3>2
    <3>3. QED
      BY <3>1, <3>2
  <2>3. {m.oid : m \in kept} = Handles \ drop
    BY <1>1 DEF Handles
  <2> HIDE DEF kept, new, drop, give
  <2>4. QED
    BY <2>1, <2>2, <2>3
<1>3. drop \subseteq cancelled
  <2>1. job[t].oid \in Handles => job[t].oid # 0
    BY DEF Handles, RInv, IInv, IdsDrawn
  <2>2. QED
    BY <1>0, <2>1 DEF RInv, IInv, WonIsCancelled
<1>4. give \subseteq BornIds \ cancelled
  <2>1. ASSUME job[t].kind # "DELETE" PROVE job[t].id \in BornIds \ cancelled
    <3>1. job[t].id \in 1 .. gid - 1 /\ gid \in Nat
      BY <1>0, <2>1, OwnId DEF TypeOK
    <3>2. ~Waiting(job[t].id)
      BY <1>0, <3>1 DEF Waiting, RInv, IInv, IdsAreUnique
    <3>3. job[t].id \notin cancelled
      BY <1>0, <3>1 DEF RInv, IInv, UnnamedBeforeRecorded
    <3>4. QED
      BY <3>1, <3>2, <3>3, BornAre
  <2>2. QED
    BY <2>1
<1>5. drop \in Promise!AtMostOne(Handles) /\ give \in Promise!AtMostOne(BornIds)
  BY <1>4 DEF Promise!AtMostOne
<1>6. OpenOrders' = OpenOrders
  <2>1. Takers' = Takers /\ job' = job /\ orders' = orders
    BY <1>0 DEF UpdateMeta, Takers, TypeOK
  <2>2. QED
    BY <2>1, SameOpen
<1>7. BornIds' = BornIds
  <2>1. gid' = gid
    BY DEF UpdateMeta
  <2>2. ASSUME NEW id \in 1 .. gid - 1 PROVE Waiting(id)' <=> Waiting(id)
    BY <1>0 DEF UpdateMeta, TypeOK, Waiting
  <2>3. QED
    BY <2>1, <2>2, SameBorn
<1>8. Promise!Rehandle(drop, give)
  <2>1. UNCHANGED <<cancelled, Sold>>
    BY DEF UpdateMeta, Sold
  <2>2. QED
    BY <1>2, <1>3, <1>4, <1>6, <1>7, <2>1 DEF Promise!Rehandle
<1>9. QED
  BY <1>5, <1>8 DEF Promise!Next

-----------------------------------------------------------------------------
(* The theorem.                                                            *)

LEMMA InitMaps == Init => Promise!Init
  BY DEF Init, Promise!Init, OpenOrders, Takers, BornIds, Handles, Sold

LEMMA StepMaps == RInv /\ [Next]_vars => [Promise!Next]_(Promise!vars)
<1> SUFFICES ASSUME RInv, [Next]_vars PROVE Promise!Next \/ UNCHANGED Promise!vars
  OBVIOUS
<1>1. ASSUME NEW t \in Threads, Request(t) PROVE UNCHANGED Promise!vars
  BY <1>1, RequestIsQuiet
<1>2. ASSUME NEW t \in Threads, Acquire(t) PROVE Promise!Next \/ UNCHANGED Promise!vars
  BY <1>2, SubmitOpens, CancelCancels, ReplaceReplaces, AnswerIsQuiet DEF Acquire
<1>3. ASSUME NEW t \in Threads, Proceed(t) PROVE Promise!Next \/ UNCHANGED Promise!vars
  BY <1>3, TradeTrades, EndMatchEnds, MetaRehandles DEF Proceed
<1>4. CASE (\E y \in Symbols : GetDepth(y)) \/ UNCHANGED vars
  BY <1>4, FrameIsQuiet
<1>5. QED
  BY <1>1, <1>2, <1>3, <1>4 DEF Next

\* For any threads, symbols, stripes and order bodies, what a client can see of
\* the handlers is a behaviour of Exchange: PATCH, four critical sections, is
\* one replacement, and an order has a handle for as long as it rests
\* (lob_server.cpp:248-480).
THEOREM HandlersImplementExchange == Spec => ImplementsExchange
<1>1. Spec => []RInv
  BY RInvInit, RInvStep, PTL DEF Spec
<1>2. QED
  BY <1>1, InitMaps, StepMaps, PTL DEF Spec, ImplementsExchange, Promise!Spec

=============================================================================
