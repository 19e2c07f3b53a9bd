------------------------ MODULE TradePipelineProofs -------------------------
(***************************************************************************)
(* What the consumer does with every message, whatever the trades, the     *)
(* partitions, the batch size and the order of events.                     *)
(***************************************************************************)
EXTENDS TradePipeline, FiniteSetTheorems, TLAPS

\* What is in the batch was read in this life of the consumer, and is in a
\* batch only while the loop runs.
BatchWasRead ==
  /\ \A m \in batch : m[2] <= position[m[1]]
  /\ batch # {} => task \in {"loop", "flush"}

\* A message that can still be read, or waits in the batch, has become a row
\* once per failure at most.
SparedWhenUnread ==
  \A m \in Messages :
    m[2] > position[m[1]] \/ m \in batch => rows[m] <= failures

Resuming == task \in {"connect", "open", "ended", "down"}

\* So has one that will be read again by the next life of the consumer.
SparedWhenUncommitted ==
  /\ Resuming => \A m \in Messages : m[2] > committed[m[1]] => rows[m] <= failures
  /\ task = "open" => position = committed

\* Without failures the next life starts where this one ended.
ResumesInPlace == Resuming /\ failures = 0 => committed = position

\* The streamer is stopped after the consumer.
StopsInOrder == streamer = "flushing" => task = "ended"

IInv ==
  /\ TypeOK /\ StopsInOrder /\ BatchWasRead /\ SparedWhenUnread /\ SparedWhenUncommitted
  /\ ResumesInPlace /\ StoredOnce /\ RereadAfterFailure

consuming == <<task, batch, position, db, failures, streamer>>

LEMMA MessageParts ==
  \A m \in Messages : m[1] \in Partitions /\ m[2] \in 1 .. MaxLog
BY DEF Messages

LEMMA Appended ==
  ASSUME TypeOK, NEW t \in Trades, NEW p \in Partitions, Write(t, p)
  PROVE  /\ topic' \in [Partitions -> Seq(Trades)]
         /\ \A q \in Partitions : Len(topic'[q]) <= MaxLog
         /\ \A q \in Partitions : Len(topic[q]) <= Len(topic'[q])
         /\ \A m \in Messages : m[2] <= Len(topic[m[1]]) => Trade(m)' = Trade(m)
<1>1. topic[p] \in Seq(Trades) /\ Len(topic[p]) \in Nat /\ MaxLog \in Nat
  BY BatchAssumption DEF TypeOK
<1>2. /\ topic'[p] = Append(topic[p], t)
      /\ \A q \in Partitions : q # p => topic'[q] = topic[q]
      /\ topic' \in [Partitions -> Seq(Trades)]
  BY <1>1 DEF Write, TypeOK
<1>3. Len(topic'[p]) = Len(topic[p]) + 1 /\ Len(topic[p]) < MaxLog
  BY <1>1, <1>2 DEF Write
<1>4. \A q \in Partitions : Len(topic'[q]) <= MaxLog /\ Len(topic[q]) <= Len(topic'[q])
  <2> SUFFICES ASSUME NEW q \in Partitions
               PROVE  Len(topic'[q]) <= MaxLog /\ Len(topic[q]) <= Len(topic'[q])
    OBVIOUS
  <2>1. Len(topic[q]) \in Nat /\ Len(topic[q]) <= MaxLog
    BY DEF TypeOK
  <2>2. CASE q = p
    BY <1>1, <1>3, <2>2
  <2>3. CASE q # p
    BY <1>2, <2>1, <2>3
  <2>4. QED
    BY <2>2, <2>3
<1>5. ASSUME NEW m \in Messages, m[2] <= Len(topic[m[1]])
      PROVE  Trade(m)' = Trade(m)
  <2>1. m[1] \in Partitions /\ m[2] \in 1 .. MaxLog
    BY MessageParts
  <2>2. CASE m[1] = p
    <3>1. m[2] \in 1 .. Len(topic[p])
      BY <1>1, <1>5, <2>1, <2>2
    <3>2. QED
      BY <1>1, <1>2, <2>2, <3>1 DEF Trade
  <2>3. CASE m[1] # p
    BY <1>2, <2>1, <2>3 DEF Trade
  <2>4. QED
    BY <2>2, <2>3
<1>6. QED
  BY <1>2, <1>4, <1>5

\* A step that leaves the consumer alone keeps its invariant, if messages stay
\* where they are.
LEMMA Elsewhere ==
  ASSUME IInv, TypeOK', UNCHANGED consuming,
         \A m \in Messages : m[2] <= Len(topic[m[1]]) => Trade(m)' = Trade(m)
  PROVE  IInv'
<1>1. \A m \in Messages : m[2] <= position[m[1]] => WellFormed(m)' = WellFormed(m)
  <2> SUFFICES ASSUME NEW m \in Messages, m[2] <= position[m[1]]
               PROVE  WellFormed(m)' = WellFormed(m)
    OBVIOUS
  <2>1. m[2] <= Len(topic[m[1]])
    BY MessageParts DEF IInv, TypeOK
  <2>2. QED
    BY <2>1 DEF WellFormed
<1>2. StoredOnce'
  BY <1>1 DEF IInv, StoredOnce, InBatch, consuming, db
<1>3. QED
  BY <1>2 DEF IInv, BatchWasRead, SparedWhenUnread, SparedWhenUncommitted, Resuming,
              StopsInOrder, ResumesInPlace, RereadAfterFailure, consuming, db

LEMMA ProducingSafe ==
  ASSUME IInv, Producing
  PROVE  IInv'
<1> USE DEF consuming, db, lob
<1>1. ASSUME NEW t \in Trades,
             LogFill(t) \/ Produce(t) \/ ProduceNothing(t) \/ StreamTrade(t)
               \/ StreamNothing(t) \/ \E c \in Clients : Expire(c, t)
      PROVE  IInv'
  <2>1. UNCHANGED <<topic, consuming, producer, stopping>>
    BY <1>1 DEF LogFill, Produce, ProduceNothing, StreamTrade, StreamNothing, Expire
  <2>2. /\ seen' \subseteq Trades /\ dropped' \subseteq Trades
        /\ kafka_q' \subseteq Fills /\ outbox' \in [Clients -> SUBSET Trades]
    <3>1. CASE LogFill(t) \/ Produce(t) \/ ProduceNothing(t)
      BY <3>1 DEF IInv, TypeOK, LogFill, Produce, ProduceNothing
    <3>2. CASE StreamTrade(t) \/ StreamNothing(t) \/ \E c \in Clients : Expire(c, t)
      BY <3>2 DEF IInv, TypeOK, StreamTrade, StreamNothing, Expire
    <3>3. QED
      BY <1>1, <3>1, <3>2
  <2>3. TypeOK'
    BY <2>1, <2>2 DEF IInv, TypeOK
  <2>4. QED
    BY <2>1, <2>3, Elsewhere DEF Trade
<1>2. ASSUME NEW t \in Trades, NEW c \in Clients, NEW p \in Partitions,
             Deliver(c, t, p) \/ DeliverUnanswered(c, t, p)
      PROVE  IInv'
  <2>1. Write(t, p)
    BY <1>2 DEF Deliver, DeliverUnanswered
  <2>2. UNCHANGED consuming
    BY <2>1 DEF Write
  <2>3. TypeOK'
    <3>1. outbox' \in [Clients -> SUBSET Trades]
      BY <1>2 DEF IInv, TypeOK, Deliver, DeliverUnanswered
    <3>2. \A q \in Partitions : position'[q] <= Len(topic'[q])
      <4> SUFFICES ASSUME NEW q \in Partitions PROVE position'[q] <= Len(topic'[q])
        OBVIOUS
      <4>1. position[q] \in Nat /\ topic[q] \in Seq(Trades) /\ topic'[q] \in Seq(Trades)
        BY <2>1, Appended DEF IInv, TypeOK
      <4>2. position[q] <= Len(topic[q]) /\ Len(topic[q]) <= Len(topic'[q])
        BY <2>1, Appended DEF IInv, TypeOK
      <4>3. QED
        BY <2>2, <4>1, <4>2
    <3>3. QED
      BY <2>1, <3>1, <3>2, Appended DEF IInv, TypeOK, Write
  <2>4. QED
    BY <2>1, <2>2, <2>3, Appended, Elsewhere DEF IInv
<1>3. CASE LobCrash
  <2>1. TypeOK'
    BY <1>3 DEF IInv, TypeOK, LobCrash, Clients, Trades
  <2>2. UNCHANGED <<topic, consuming>>
    BY <1>3 DEF LobCrash
  <2>3. QED
    BY <2>1, <2>2, Elsewhere DEF Trade
<1>4. QED
  BY <1>1, <1>2, <1>3 DEF Producing

\* poll returns a message that no row and no batch of this life knows.
LEMMA PollSafe ==
  ASSUME IInv, NEW p \in Partitions, Poll(p)
  PROVE  IInv'
<1>1. /\ position[p] \in Nat /\ Len(topic[p]) \in Nat /\ MaxLog \in Nat
      /\ position[p] + 1 <= Len(topic[p]) /\ Len(topic[p]) <= MaxLog
      /\ committed[p] \in Nat /\ committed[p] <= position[p]
  BY BatchAssumption DEF IInv, TypeOK, Poll
<1>2. PICK m \in Messages : m = <<p, position[p] + 1>>
  <2>1. position[p] + 1 \in 1 .. MaxLog
    BY <1>1
  <2>2. <<p, position[p] + 1>> \in Messages
    BY <2>1 DEF Messages
  <2>3. QED
    BY <2>2
<1>3. /\ position' \in [Partitions -> Nat] /\ position'[p] = position[p] + 1
      /\ \A q \in Partitions : q # p => position'[q] = position[q]
  BY <1>1 DEF IInv, TypeOK, Poll
<1>4. /\ batch' = IF Trade(m) \in Malformed THEN batch ELSE batch \cup {m}
      /\ task = "loop" /\ task' \in {"loop", "flush"}
      /\ UNCHANGED <<topic, committed, rows, failures, streamer>>
  BY <1>2 DEF Poll, db, producing
<1>5. m \notin batch
  BY <1>1, <1>2 DEF IInv, BatchWasRead
<1>6. \A n \in Messages : n # m =>
        /\ n \in batch' <=> n \in batch
        /\ n[2] <= position'[n[1]] <=> n[2] <= position[n[1]]
  <2> SUFFICES ASSUME NEW n \in Messages, n # m
               PROVE  /\ n \in batch' <=> n \in batch
                      /\ n[2] <= position'[n[1]] <=> n[2] <= position[n[1]]
    OBVIOUS
  <2>1. n[1] \in Partitions /\ n[2] \in Nat /\ n = <<n[1], n[2]>>
    BY <1>1 DEF Messages
  <2>2. n[1] = p => n[2] # position[p] + 1
    BY <1>2, <2>1
  <2>3. QED
    BY <1>1, <1>3, <1>4, <2>1, <2>2
<1>7. TypeOK'
  <2>1. \A q \in Partitions : committed'[q] <= position'[q] /\ position'[q] <= Len(topic'[q])
    <3> SUFFICES ASSUME NEW q \in Partitions
                 PROVE  committed[q] <= position'[q] /\ position'[q] <= Len(topic[q])
      BY <1>4
    <3>1. CASE q = p
      BY <1>1, <1>3, <3>1
    <3>2. CASE q # p
      BY <1>3, <3>2 DEF IInv, TypeOK
    <3>3. QED
      BY <3>1, <3>2
  <2>2. task' \in Tasks /\ batch' \subseteq Messages
    BY <1>2, <1>4 DEF IInv, TypeOK, Tasks
  <2>3. QED
    BY <1>3, <1>4, <2>1, <2>2 DEF IInv, TypeOK, Poll, db, lob, producing
<1>8. BatchWasRead'
  BY <1>1, <1>2, <1>3, <1>4, <1>6 DEF IInv, TypeOK, BatchWasRead
<1>9. rows[m] <= failures
  BY <1>1, <1>2 DEF IInv, SparedWhenUnread
<1>10. SparedWhenUnread'
  <2> SUFFICES ASSUME NEW n \in Messages, n[2] > position'[n[1]] \/ n \in batch'
               PROVE  rows[n] <= failures
    BY <1>4 DEF SparedWhenUnread
  <2>1. CASE n = m
    BY <1>9, <2>1
  <2>2. CASE n # m
    <3>1. position[n[1]] \in Nat /\ position'[n[1]] \in Nat /\ n[2] \in Nat
      BY <1>3, MessageParts DEF IInv, TypeOK
    <3>2. n[2] > position[n[1]] \/ n \in batch
      BY <1>6, <2>2, <3>1
    <3>3. QED
      BY <3>2 DEF IInv, SparedWhenUnread
  <2>3. QED
    BY <2>1, <2>2
<1>11. StoredOnce'
  <2> SUFFICES ASSUME failures = 0, NEW n \in Messages
               PROVE  rows[n] + InBatch(n)' =
                        IF n[2] <= position'[n[1]] /\ WellFormed(n) THEN 1 ELSE 0
    BY <1>4 DEF StoredOnce, WellFormed, Trade
  <2>1. rows[n] + InBatch(n) = IF n[2] <= position[n[1]] /\ WellFormed(n) THEN 1 ELSE 0
    BY DEF IInv, StoredOnce
  <2>2. CASE n = m
    <3>1. ~(m[2] <= position[m[1]]) /\ m[2] <= position'[m[1]] /\ InBatch(m) = 0
      BY <1>1, <1>2, <1>3, <1>5 DEF InBatch
    <3>2. rows[m] = 0
      BY <1>2, <2>1, <2>2, <3>1 DEF IInv, TypeOK
    <3>3. InBatch(m)' = IF WellFormed(m) THEN 1 ELSE 0
      BY <1>4, <1>5 DEF InBatch, WellFormed
    <3>4. QED
      BY <2>2, <3>1, <3>2, <3>3
  <2>3. CASE n # m
    BY <1>6, <2>1, <2>3 DEF InBatch
  <2>4. QED
    BY <2>2, <2>3
<1>12. SparedWhenUncommitted' /\ ResumesInPlace' /\ RereadAfterFailure' /\ StopsInOrder'
  BY <1>4 DEF IInv, SparedWhenUncommitted, ResumesInPlace, Resuming, RereadAfterFailure,
              StopsInOrder
<1>13. QED
  BY <1>7, <1>8, <1>10, <1>11, <1>12 DEF IInv

LEMMA InsertSafe ==
  ASSUME IInv, Insert \/ InsertFails
  PROVE  IInv'
<1>1. /\ task = "flush" /\ batch' = {} /\ task' \in {"loop", "close"}
      /\ UNCHANGED <<seen, dropped, producer, kafka_q, outbox, topic, position,
                     committed, streamer, stopping>>
  BY DEF Insert, InsertFails, producing, lob
<1>2. /\ rows' \in {rows, WithRows(batch)} /\ failures' \in {failures, failures + 1}
      /\ failures' = failures => rows' = WithRows(batch)
  BY DEF Insert, InsertFails, IInv, TypeOK
<1>3. WithRows(batch) \in [Messages -> Nat]
  BY DEF WithRows, IInv, TypeOK
<1>4. TypeOK'
  BY <1>1, <1>2, <1>3 DEF IInv, TypeOK, Tasks
<1>5. \A m \in Messages :
        /\ rows'[m] \in {rows[m], rows[m] + InBatch(m)}
        /\ failures' = failures => rows'[m] = rows[m] + InBatch(m)
        /\ rows[m] \in Nat /\ InBatch(m) \in {0, 1} /\ failures \in Nat
  BY <1>2 DEF WithRows, InBatch, IInv, TypeOK
<1>6. StoredOnce'
  <2> SUFFICES ASSUME failures' = 0, NEW m \in Messages
               PROVE  rows'[m] + InBatch(m)' =
                        IF m[2] <= position[m[1]] /\ WellFormed(m) THEN 1 ELSE 0
    BY <1>1 DEF StoredOnce, WellFormed, Trade
  <2>1. failures = 0
    BY <1>2, <1>5
  <2>2. QED
    BY <1>1, <1>5, <2>1 DEF IInv, StoredOnce, InBatch
<1>7. RereadAfterFailure'
  BY <1>2, <1>5 DEF IInv, SparedWhenUnread, RereadAfterFailure, InBatch
<1>8. SparedWhenUnread'
  <2> SUFFICES ASSUME NEW m \in Messages, m[2] > position[m[1]]
               PROVE  rows'[m] <= failures'
    BY <1>1 DEF SparedWhenUnread
  <2>1. position[m[1]] \in Nat /\ m[2] \in Nat
    BY MessageParts DEF IInv, TypeOK
  <2>2. m \notin batch /\ rows[m] <= failures
    BY <2>1 DEF IInv, BatchWasRead, SparedWhenUnread
  <2>3. QED
    BY <1>2, <1>5, <2>2 DEF InBatch
<1>9. BatchWasRead' /\ SparedWhenUncommitted' /\ ResumesInPlace' /\ StopsInOrder'
  BY <1>1 DEF IInv, BatchWasRead, SparedWhenUncommitted, ResumesInPlace, Resuming, StopsInOrder
<1>10. QED
  BY <1>4, <1>6, <1>7, <1>8, <1>9 DEF IInv

LEMMA CommitSafe ==
  ASSUME IInv, AutoCommit \/ Close
  PROVE  IInv'
<1>1. /\ batch' = batch /\ task \in {"loop", "flush", "close"} /\ rows' = rows
      /\ (task' = task \/ (task = "close" /\ task' = "ended"))
      /\ UNCHANGED <<seen, dropped, producer, kafka_q, outbox, topic, position,
                     streamer, stopping>>
  <2>1. CASE AutoCommit
    BY <2>1 DEF AutoCommit, producing, lob
  <2>2. CASE Close
    BY <2>2 DEF Close, producing, lob
  <2>3. QED
    BY <2>1, <2>2
<1>2. \/ committed' = position /\ failures' = failures
      \/ committed' = committed /\ failures' = failures + 1 /\ task = "close"
  BY DEF AutoCommit, Close
<1>3. TypeOK'
  BY <1>1, <1>2 DEF IInv, TypeOK, Tasks
<1>4. failures \in Nat /\ (failures' = 0 => failures = 0 /\ committed' = position)
  BY <1>2 DEF IInv, TypeOK
<1>5. StoredOnce'
  BY <1>1, <1>4 DEF IInv, StoredOnce, InBatch, WellFormed, Trade
<1>6. RereadAfterFailure' /\ SparedWhenUnread'
  BY <1>1, <1>2, <1>4 DEF IInv, TypeOK, RereadAfterFailure, SparedWhenUnread
<1>7. BatchWasRead' /\ StopsInOrder'
  BY <1>1 DEF IInv, BatchWasRead, StopsInOrder
<1>8. SparedWhenUncommitted'
  BY <1>1, <1>2, <1>4 DEF IInv, TypeOK, SparedWhenUncommitted, Resuming, SparedWhenUnread,
                          RereadAfterFailure
<1>9. ResumesInPlace'
  BY <1>1, <1>4 DEF ResumesInPlace, Resuming
<1>10. QED
  BY <1>3, <1>5, <1>6, <1>7, <1>8, <1>9 DEF IInv

LEMMA LeaveSafe ==
  ASSUME IInv, CancelReconnecting
  PROVE  IInv'
<1>1. /\ task = "ended" /\ task' = "down" /\ streamer' = "down" /\ batch = {}
      /\ UNCHANGED <<topic, batch, position, committed, rows, failures>>
  BY DEF IInv, BatchWasRead, CancelReconnecting, db
<1>2. TypeOK'
  BY <1>1 DEF IInv, TypeOK, CancelReconnecting, Tasks, Clients, lob
<1>3. SparedWhenUnread' /\ SparedWhenUncommitted' /\ RereadAfterFailure'
  BY <1>1 DEF IInv, SparedWhenUnread, SparedWhenUncommitted, Resuming, RereadAfterFailure
<1>4. BatchWasRead' /\ ResumesInPlace' /\ StopsInOrder'
  BY <1>1 DEF IInv, BatchWasRead, ResumesInPlace, Resuming, StopsInOrder
<1>5. StoredOnce'
  BY <1>1 DEF IInv, StoredOnce, InBatch, WellFormed, Trade
<1>6. QED
  BY <1>2, <1>3, <1>4, <1>5 DEF IInv

LEMMA CrashSafe ==
  ASSUME IInv, Crash
  PROVE  IInv'
<1>1. /\ batch' = {} /\ task' = "down" /\ failures' = failures + 1 /\ failures \in Nat
      /\ UNCHANGED <<topic, position, committed, rows>>
  BY DEF IInv, TypeOK, Crash, db
<1>2. TypeOK'
  BY <1>1 DEF IInv, TypeOK, Crash, Tasks, Clients, lob
<1>3. \A m \in Messages : rows[m] \in Nat /\ rows[m] <= failures'
  BY <1>1 DEF IInv, TypeOK, RereadAfterFailure
<1>4. SparedWhenUnread' /\ SparedWhenUncommitted' /\ RereadAfterFailure'
  BY <1>1, <1>3 DEF SparedWhenUnread, SparedWhenUncommitted, RereadAfterFailure
<1>5. BatchWasRead' /\ ResumesInPlace' /\ StoredOnce' /\ StopsInOrder'
  BY <1>1 DEF IInv, TypeOK, Crash, BatchWasRead, ResumesInPlace, StoredOnce, StopsInOrder
<1>6. QED
  BY <1>2, <1>4, <1>5 DEF IInv

LEMMA ConnectSafe ==
  ASSUME IInv, Connect
  PROVE  IInv'
<1>1. /\ batch = {} /\ batch' = {} /\ task = "connect" /\ task' = "open"
      /\ position' = committed
      /\ UNCHANGED <<topic, committed, rows, failures, streamer>>
  BY DEF IInv, BatchWasRead, Connect, db, producing
<1>2. TypeOK'
  <2>1. \A q \in Partitions : committed'[q] <= position'[q] /\ position'[q] <= Len(topic'[q])
    BY <1>1 DEF IInv, TypeOK
  <2>2. QED
    BY <1>1, <2>1 DEF IInv, TypeOK, Connect, Tasks, lob, db, producing
<1>3. SparedWhenUnread' /\ SparedWhenUncommitted'
  BY <1>1 DEF IInv, SparedWhenUnread, SparedWhenUncommitted, Resuming
<1>4. StoredOnce'
  BY <1>1 DEF IInv, ResumesInPlace, Resuming, StoredOnce, InBatch, WellFormed, Trade
<1>5. BatchWasRead' /\ ResumesInPlace' /\ RereadAfterFailure' /\ StopsInOrder'
  BY <1>1 DEF IInv, BatchWasRead, ResumesInPlace, RereadAfterFailure, StopsInOrder
<1>6. QED
  BY <1>2, <1>3, <1>4, <1>5 DEF IInv

\* The other steps of the service only move on.
LEMMA MovesSafe ==
  ASSUME IInv,
         Open \/ PollTimeout \/ Cancel \/ CancelStreamer \/ Exit \/ Restart
  PROVE  IInv'
<1>1. UNCHANGED <<seen, dropped, producer, kafka_q, outbox, topic, batch, position,
                 committed, rows, failures>>
  BY DEF Open, PollTimeout, Cancel, CancelStreamer, Exit, Restart, db, producing, lob
<1>2. TypeOK'
  BY <1>1 DEF IInv, TypeOK, Open, PollTimeout, Cancel, CancelStreamer, Exit, Restart, Tasks
<1>3. /\ batch # {} => task' \in {"loop", "flush"}
      /\ task' \in {"connect", "open", "ended", "down"} => Resuming
      /\ task' = "open" => task = "open"
      /\ streamer' = "flushing" => task' = "ended"
  <2>1. CASE Open \/ PollTimeout
    BY <2>1 DEF IInv, BatchWasRead, StopsInOrder, Resuming, Open, PollTimeout
  <2>2. CASE Cancel
    <3>1. CASE task = "loop" /\ batch # {}
      BY <2>2, <3>1 DEF IInv, StopsInOrder, Cancel
    <3>2. CASE task = "loop" /\ batch = {}
      BY <2>2, <3>2 DEF IInv, StopsInOrder, Cancel
    <3>3. CASE task # "loop"
      BY <2>2, <3>3 DEF IInv, BatchWasRead, StopsInOrder, Resuming, Cancel
    <3>4. QED
      BY <3>1, <3>2, <3>3
  <2>3. CASE CancelStreamer \/ Exit \/ Restart
    BY <2>3 DEF IInv, BatchWasRead, StopsInOrder, Resuming, CancelStreamer, Exit, Restart
  <2>4. QED
    BY <2>1, <2>2, <2>3
<1>4. BatchWasRead' /\ StopsInOrder'
  BY <1>1, <1>3 DEF IInv, BatchWasRead, StopsInOrder
<1>5. SparedWhenUncommitted' /\ ResumesInPlace'
  BY <1>1, <1>3 DEF IInv, SparedWhenUncommitted, ResumesInPlace, Resuming
<1>6. SparedWhenUnread' /\ RereadAfterFailure'
  BY <1>1 DEF IInv, SparedWhenUnread, RereadAfterFailure
<1>7. StoredOnce'
  BY <1>1 DEF IInv, StoredOnce, InBatch, WellFormed, Trade
<1>8. QED
  BY <1>2, <1>4, <1>5, <1>6, <1>7 DEF IInv

LEMMA IInvInit == Init => IInv
<1> SUFFICES ASSUME Init PROVE IInv
  OBVIOUS
<1>1. TypeOK
  <2>1. /\ topic \in [Partitions -> Seq(Trades)]
        /\ \A p \in Partitions : Len(topic[p]) = 0
    BY DEF Init
  <2>2. /\ position \in [Partitions -> Nat] /\ committed \in [Partitions -> Nat]
        /\ \A p \in Partitions : position[p] = 0 /\ committed[p] = 0
        /\ outbox \in [Clients -> SUBSET Trades] /\ rows \in [Messages -> Nat]
    BY DEF Init
  <2>3. MaxLog \in Nat
    BY BatchAssumption
  <2>4. \A p \in Partitions : /\ committed[p] <= position[p] /\ position[p] <= Len(topic[p])
                              /\ Len(topic[p]) <= MaxLog
    BY <2>1, <2>2, <2>3
  <2>5. QED
    BY <2>1, <2>2, <2>4 DEF Init, TypeOK, Tasks
<1>2. \A m \in Messages : /\ rows[m] = 0 /\ m \notin batch /\ failures = 0
                          /\ ~(m[2] <= position[m[1]])
  BY MessageParts, BatchAssumption DEF Init
<1>3. StoredOnce
  BY <1>2 DEF StoredOnce, InBatch
<1>4. SparedWhenUnread /\ SparedWhenUncommitted /\ RereadAfterFailure
  BY <1>2 DEF Init, SparedWhenUnread, SparedWhenUncommitted, RereadAfterFailure
<1>5. BatchWasRead /\ ResumesInPlace /\ StopsInOrder
  BY DEF Init, BatchWasRead, ResumesInPlace, StopsInOrder
<1>6. QED
  BY <1>1, <1>3, <1>4, <1>5 DEF IInv

LEMMA IInvStep == IInv /\ [Next]_vars => IInv'
<1> SUFFICES ASSUME IInv, [Next]_vars PROVE IInv'
  OBVIOUS
<1>1. CASE Producing
  BY <1>1, ProducingSafe
<1>2. CASE Consuming
  BY <1>2, PollSafe, InsertSafe, CommitSafe, ConnectSafe, MovesSafe DEF Consuming
<1>3. CASE Running
  BY <1>3, MovesSafe, LeaveSafe, CrashSafe DEF Running
<1>4. CASE UNCHANGED vars
  <2>1. TypeOK'
    BY <1>4 DEF IInv, TypeOK, vars, lob, db
  <2>2. QED
    BY <1>4, <2>1, Elsewhere DEF vars, consuming, Trade, db
<1>5. QED
  BY <1>1, <1>2, <1>3, <1>4 DEF Next

\* Types, and what is acknowledged was read, what was read is in the topic.
THEOREM TypeCorrect == Spec => []TypeOK
<1>1. IInv => TypeOK
  BY DEF IInv
<1>2. QED
  BY <1>1, IInvInit, IInvStep, PTL DEF Spec

\* Without failures every message read is exactly one row or waits for it,
\* across commits, full and timed-out batches and orderly restarts
\* (kafka_consumer.py:171-212).
THEOREM MessagesAreStoredOnce == Spec => []StoredOnce
<1>1. IInv => StoredOnce
  BY DEF IInv
<1>2. QED
  BY <1>1, IInvInit, IInvStep, PTL DEF Spec

\* A message has at most one row more than there were failures
\* (kafka_consumer.py:80-108, 141, 210).
THEOREM RereadsAreBounded == Spec => []RereadAfterFailure
<1>1. IInv => RereadAfterFailure
  BY DEF IInv
<1>2. QED
  BY <1>1, IInvInit, IInvStep, PTL DEF Spec

-----------------------------------------------------------------------------
(* A failure loses a batch at most.                                        *)

\* The messages read that are no rows and that nobody holds.
Doomed ==
  {m \in Messages : /\ m[2] <= position[m[1]] /\ WellFormed(m)
                    /\ rows[m] = 0 /\ m \notin batch}

\* The batch is never larger than BATCH_SIZE, and each failure has doomed one
\* batch.
LossBounded ==
  /\ IsFiniteSet(batch) /\ Cardinality(batch) <= BatchSize
  /\ task = "loop" => Cardinality(batch) < BatchSize
  /\ IsFiniteSet(Doomed) /\ Cardinality(Doomed) <= failures * BatchSize

LEMMA SmallerIsBounded ==
  ASSUME NEW S, IsFiniteSet(S), NEW T, T \subseteq S, NEW n \in Nat, Cardinality(S) <= n
  PROVE  IsFiniteSet(T) /\ Cardinality(T) <= n
<1>1. /\ IsFiniteSet(T) /\ Cardinality(T) <= Cardinality(S)
      /\ Cardinality(S) \in Nat
  BY FS_Subset, FS_CardinalityType
<1>2. Cardinality(T) \in Nat
  BY <1>1, FS_CardinalityType
<1>3. QED
  BY <1>1, <1>2

\* No more messages are doomed.
LEMMA NobodyDoomed ==
  ASSUME IInv, LossBounded, failures' = failures, Doomed' \subseteq Doomed
  PROVE  IsFiniteSet(Doomed') /\ Cardinality(Doomed') <= failures' * BatchSize
<1>1. failures * BatchSize \in Nat
  BY BatchAssumption DEF IInv, TypeOK
<1>2. QED
  BY <1>1, SmallerIsBounded DEF LossBounded

\* A failure dooms the batch.
LEMMA BatchDoomed ==
  ASSUME IInv, LossBounded, failures' = failures + 1, Doomed' \subseteq Doomed \cup batch
  PROVE  IsFiniteSet(Doomed') /\ Cardinality(Doomed') <= failures' * BatchSize
<1>1. /\ failures \in Nat /\ BatchSize \in Nat /\ failures * BatchSize \in Nat
      /\ failures' * BatchSize = failures * BatchSize + BatchSize
      /\ failures' * BatchSize \in Nat
  BY BatchAssumption DEF IInv, TypeOK
<1>2. /\ IsFiniteSet(Doomed \cup batch)
      /\ Cardinality(Doomed \cup batch)
           = Cardinality(Doomed) + Cardinality(batch) - Cardinality(Doomed \cap batch)
  BY FS_Union DEF LossBounded
<1>3. /\ Cardinality(Doomed) \in Nat /\ Cardinality(batch) \in Nat
      /\ Cardinality(Doomed \cap batch) \in Nat
  BY FS_CardinalityType, FS_Subset DEF LossBounded
<1>4. Cardinality(Doomed \cup batch) <= failures' * BatchSize
  BY <1>1, <1>2, <1>3 DEF LossBounded
<1>5. QED
  BY <1>1, <1>2, <1>4, SmallerIsBounded

LEMMA LossInit == Init => LossBounded
<1> SUFFICES ASSUME Init PROVE LossBounded
  OBVIOUS
<1>1. batch = {} /\ Doomed = {}
  BY MessageParts, BatchAssumption DEF Init, Doomed
<1>2. 0 <= failures * BatchSize /\ 0 <= BatchSize /\ 0 < BatchSize
  BY BatchAssumption DEF Init
<1>3. /\ IsFiniteSet(batch) /\ Cardinality(batch) = 0
      /\ IsFiniteSet(Doomed) /\ Cardinality(Doomed) = 0
  BY <1>1, FS_EmptySet
<1>4. QED
  BY <1>2, <1>3 DEF LossBounded

\* A message read keeps its trade.
LEMMA TradesStay ==
  ASSUME IInv, [Next]_vars
  PROVE  \A m \in Messages : m[2] <= position[m[1]] => WellFormed(m)' = WellFormed(m)
<1>1. \A m \in Messages : m[2] <= position[m[1]] => m[2] <= Len(topic[m[1]])
  BY MessageParts DEF IInv, TypeOK
<1>2. CASE UNCHANGED topic
  BY <1>2 DEF WellFormed, Trade
<1>3. CASE \E t \in Trades, p \in Partitions : Write(t, p)
  BY <1>1, <1>3, Appended DEF IInv, WellFormed
<1>4. UNCHANGED topic \/ \E t \in Trades, p \in Partitions : Write(t, p)
  <2>1. CASE Producing
    BY <2>1 DEF Producing, LogFill, Produce, ProduceNothing, StreamTrade, StreamNothing,
                Expire, LobCrash, Deliver, DeliverUnanswered
  <2>2. CASE Consuming
    BY <2>2 DEF Consuming, Poll, Connect, Open, PollTimeout, Insert, InsertFails,
                AutoCommit, Close, producing
  <2>3. CASE Running \/ UNCHANGED vars
    BY <2>3 DEF Running, Cancel, CancelStreamer, CancelReconnecting, Exit, Crash, Restart, producing, vars
  <2>4. QED
    BY <2>1, <2>2, <2>3 DEF Next
<1>5. QED
  BY <1>2, <1>3, <1>4

LEMMA LossStep == IInv /\ LossBounded /\ [Next]_vars => LossBounded'
<1> SUFFICES ASSUME IInv, LossBounded, [Next]_vars PROVE LossBounded'
  OBVIOUS
<1> BatchSize \in Nat /\ 0 < BatchSize
  BY BatchAssumption
<1>1. \A m \in Messages : m[2] <= position[m[1]] => WellFormed(m)' = WellFormed(m)
  BY TradesStay
<1>2. CASE /\ UNCHANGED <<position, rows, batch, failures>>
           /\ task' = "loop" => task = "loop" \/ batch = {}
  <2>1. Doomed' \subseteq Doomed
    BY <1>1, <1>2 DEF Doomed
  <2>2. QED
    BY <1>2, <2>1, NobodyDoomed, FS_EmptySet DEF LossBounded
<1>3. ASSUME NEW p \in Partitions, Poll(p)
      PROVE  LossBounded'
  <2>1. /\ UNCHANGED <<rows, failures>>
        /\ position' = [position EXCEPT ![p] = @ + 1]
        /\ batch' = IF Trade(<<p, position[p] + 1>>) \in Malformed THEN batch
                    ELSE batch \cup {<<p, position[p] + 1>>}
        /\ topic' = topic /\ task = "loop"
        /\ task' = IF Cardinality(batch') >= BatchSize THEN "flush" ELSE "loop"
    BY <1>3 DEF Poll, db, producing
  <2>2. ASSUME NEW m \in Messages, m[2] <= position'[m[1]], ~(m[2] <= position[m[1]])
        PROVE  m = <<p, position[p] + 1>>
    <3>1. m[1] \in Partitions /\ m[2] \in Nat /\ m = <<m[1], m[2]>>
      BY DEF Messages
    <3>2. position[m[1]] \in Nat /\ position \in [Partitions -> Nat]
      BY <3>1 DEF IInv, TypeOK
    <3>3. m[1] = p
      BY <2>1, <2>2, <3>1, <3>2
    <3>4. m[2] <= position[p] + 1
      BY <2>1, <2>2, <3>2, <3>3
    <3>5. m[2] = position[p] + 1
      BY <2>2, <3>1, <3>2, <3>3, <3>4
    <3>6. QED
      BY <3>1, <3>3, <3>5
  <2>3. Doomed' \subseteq Doomed
    <3> SUFFICES ASSUME NEW m \in Messages, m[2] <= position'[m[1]], WellFormed(m)',
                        rows[m] = 0, m \notin batch'
                 PROVE  m[2] <= position[m[1]] /\ WellFormed(m) /\ m \notin batch
      BY <2>1 DEF Doomed
    <3>1. WellFormed(m) /\ m \notin batch
      BY <2>1 DEF WellFormed, Trade
    <3>2. m[2] <= position[m[1]]
      BY <2>1, <2>2, <3>1 DEF WellFormed
    <3>3. QED
      BY <3>1, <3>2
  <2>4. /\ IsFiniteSet(batch') /\ Cardinality(batch') <= Cardinality(batch) + 1
        /\ Cardinality(batch) \in Nat /\ Cardinality(batch') \in Nat
    <3>1. IsFiniteSet(batch) /\ Cardinality(batch) \in Nat
      BY FS_CardinalityType DEF LossBounded
    <3>2. CASE batch' = batch
      BY <3>1, <3>2
    <3>3. CASE batch' = batch \cup {<<p, position[p] + 1>>}
      <4>1. /\ IsFiniteSet(batch')
            /\ \/ Cardinality(batch') = Cardinality(batch)
               \/ Cardinality(batch') = Cardinality(batch) + 1
        BY <3>1, <3>3, FS_AddElement
      <4>2. QED
        BY <3>1, <4>1
    <3>4. QED
      BY <2>1, <3>2, <3>3
  <2>5. Cardinality(batch') <= BatchSize /\ (task' = "loop" => Cardinality(batch') < BatchSize)
    BY <2>1, <2>4 DEF LossBounded
  <2>6. QED
    BY <2>1, <2>3, <2>4, <2>5, NobodyDoomed DEF LossBounded
<1>4. ASSUME batch' = {}, position' = position,
             \/ failures' = failures /\ rows' = WithRows(batch)
             \/ failures' = failures + 1 /\ rows' \in {rows, WithRows(batch)}
      PROVE  LossBounded'
  <2>1. ASSUME NEW m \in Messages, rows' = WithRows(batch), rows'[m] = 0
        PROVE  rows[m] = 0 /\ m \notin batch
    BY <2>1 DEF WithRows, IInv, TypeOK
  <2>2. Cardinality(batch') = 0 /\ IsFiniteSet(batch')
    BY <1>4, FS_EmptySet
  <2>3. CASE rows' = WithRows(batch) /\ failures' = failures
    <3>1. Doomed' \subseteq Doomed
      BY <1>1, <1>4, <2>1, <2>3 DEF Doomed
    <3>2. QED
      BY <2>2, <2>3, <3>1, NobodyDoomed DEF LossBounded
  <2>4. CASE failures' = failures + 1
    <3>1. Doomed' \subseteq Doomed \cup batch
      BY <1>1, <1>4, <2>1, <2>4 DEF Doomed
    <3>2. QED
      BY <2>2, <2>4, <3>1, BatchDoomed DEF LossBounded
  <2>5. QED
    BY <1>4, <2>3, <2>4
<1>5. CASE Insert \/ InsertFails \/ Crash
  BY <1>4, <1>5 DEF Insert, InsertFails, Crash, db
<1>6. CASE Close
  <2>1. CASE UNCHANGED failures
    BY <1>2, <1>6, <2>1 DEF Close
  <2>2. CASE failures' = failures + 1
    <3>1. Doomed' \subseteq Doomed \cup batch /\ batch' = batch /\ task' = "ended"
      BY <1>1, <1>6 DEF Close, Doomed
    <3>2. QED
      BY <2>2, <3>1, BatchDoomed DEF LossBounded
  <2>3. QED
    BY <1>6, <2>1, <2>2 DEF Close
<1>7. CASE Connect
  <2>1. position' = committed /\ task' = "open" /\ UNCHANGED <<batch, rows, failures>>
    BY <1>7 DEF Connect, db
  <2>2. \A m \in Messages : m[2] <= committed[m[1]] => m[2] <= position[m[1]]
    BY MessageParts DEF IInv, TypeOK
  <2>3. Doomed' \subseteq Doomed
    BY <1>1, <2>1, <2>2 DEF Doomed
  <2>4. QED
    BY <2>1, <2>3, NobodyDoomed DEF LossBounded
<1>8. CASE Producing
  BY <1>2, <1>8 DEF Producing, LogFill, Produce, ProduceNothing, StreamTrade, StreamNothing,
                    Expire, LobCrash, Deliver, DeliverUnanswered, Write, db
<1>9. CASE Open \/ PollTimeout \/ AutoCommit
  <2>1. task = "open" => batch = {}
    BY DEF IInv, BatchWasRead
  <2>2. QED
    BY <1>2, <1>9, <2>1 DEF Open, PollTimeout, AutoCommit, db
<1>10. CASE Cancel \/ CancelStreamer \/ CancelReconnecting \/ Exit \/ Restart \/ UNCHANGED vars
  BY <1>2, <1>10 DEF Cancel, CancelStreamer, CancelReconnecting, Exit, Restart, db, vars
<1>11. QED
  BY <1>3, <1>5, <1>6, <1>7, <1>8, <1>9, <1>10 DEF Next, Consuming, Running

\* A crash, a refused insert or a lost acknowledgement costs one batch at most
\* (kafka_consumer.py:141, 172-212).
THEOREM LossesAreBounded == Spec => []FailureLosesABatch
<1>1. IInv /\ LossBounded => FailureLosesABatch
  <2> SUFFICES ASSUME IInv, LossBounded PROVE FailureLosesABatch
    OBVIOUS
  <2>1. Lost \subseteq Doomed
    BY MessageParts DEF Lost, Doomed, IInv, TypeOK
  <2>2. failures * BatchSize \in Nat
    BY BatchAssumption DEF IInv, TypeOK
  <2>3. QED
    BY <2>1, <2>2, SmallerIsBounded DEF LossBounded, FailureLosesABatch
<1>2. QED
  BY <1>1, IInvInit, IInvStep, LossInit, LossStep, PTL DEF Spec

=============================================================================
