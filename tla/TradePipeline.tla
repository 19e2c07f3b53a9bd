--------------------------- MODULE TradePipeline ----------------------------
(***************************************************************************)
(* The way of a trade into raw_ticks: log_fill's queue and the Kafka       *)
(* worker of module1_lob/lob_server.cpp, the live streamer, the topic      *)
(* executed_trades, and the consumer of module2_timescale, which runs with *)
(* the streamer in one event loop.                                         *)
(*                                                                         *)
(* The consumer acknowledges on a timer: librdkafka commits in its own     *)
(* thread what poll has returned, whether or not it is a row yet.          *)
(***************************************************************************)
EXTENDS Integers, FiniteSets, Sequences

CONSTANTS
  Fills,       \* trades of the order book
  Ticks,       \* trades on Kraken's stream
  Malformed,   \* fills whose message does not parse: the symbol has a quote
  Oversized,   \* fills whose row raw_ticks refuses: the symbol is too long
  Partitions,
  BatchSize,   \* BATCH_SIZE: 1000 in the code
  MaxLog,      \* bound: the messages a partition takes
  MaxRepeats,  \* bound: the messages of a partition while trades are written again
  MaxFailures, \* bound: crashes, refused inserts and refused commits
  MaxDrops     \* bound: trades Kafka's clients give up

Trades == Fills \cup Ticks

ASSUME TradeAssumption ==
  Malformed \subseteq Fills /\ Oversized \subseteq Fills /\ Fills \cap Ticks = {}

ASSUME BatchAssumption ==
  BatchSize \in Nat \ {0} /\ MaxLog \in Nat /\ MaxRepeats \in Nat /\ MaxFailures \in Nat /\ MaxDrops \in Nat

VARIABLES
  seen,       \* history: the trades executed or received
  dropped,    \* history: the trades that never reached the topic
  producer,   \* whether the LOB has a Kafka producer
  kafka_q,    \* the fills that wait for the worker
  outbox,     \* the local queue of each Kafka producer
  topic,      \* executed_trades
  task,       \* where the consumer is
  batch,      \* the messages it has read and not inserted
  position,   \* the messages of each partition poll has returned
  committed,  \* the messages of each partition the group has acknowledged
  rows,       \* how many rows of raw_ticks each message has become
  streamer,   \* whether the live streamer runs
  stopping,   \* whether the service is being shut down
  failures    \* history: the failures so far

lob == <<producer, kafka_q>>
db == <<committed, rows>>
vars == <<seen, dropped, lob, outbox, topic, task, batch, position, db,
          streamer, stopping, failures>>

Messages == Partitions \X (1 .. MaxLog)
Clients == {"lob", "streamer"}
Tasks == {"connect", "open", "loop", "flush", "close", "ended", "down"}

Trade(m) == topic[m[1]][m[2]]

Init ==
  /\ seen = {} /\ dropped = {} /\ kafka_q = {} /\ batch = {}
  /\ producer \in BOOLEAN
  /\ outbox = [c \in Clients |-> {}]
  /\ topic = [p \in Partitions |-> <<>>]
  /\ task = "connect" /\ streamer = "up" /\ stopping = FALSE /\ failures = 0
  /\ position = [p \in Partitions |-> 0] /\ committed = position
  /\ rows = [m \in Messages |-> 0]

-----------------------------------------------------------------------------
(* The producers.                                                          *)

\* log_fill puts a trade into kafka_q.
LogFill(t) ==
  /\ t \in Fills \ seen
  /\ seen' = seen \cup {t} /\ kafka_q' = kafka_q \cup {t}
  /\ UNCHANGED <<dropped, producer, outbox, topic, task, batch, position, db,
                 streamer, stopping, failures>>

\* The worker takes a trade, of any handler thread, and produces it.
Produce(t) ==
  /\ t \in kafka_q /\ producer
  /\ kafka_q' = kafka_q \ {t}
  /\ outbox' = [outbox EXCEPT !["lob"] = @ \cup {t}]
  /\ UNCHANGED <<seen, dropped, producer, topic, task, batch, position, db,
                 streamer, stopping, failures>>

MayDrop == Cardinality(dropped) < MaxDrops

\* There is no producer, or it has no room: the result of produce is ignored.
ProduceNothing(t) ==
  /\ t \in kafka_q /\ (~producer \/ MayDrop)
  /\ kafka_q' = kafka_q \ {t} /\ dropped' = dropped \cup {t}
  /\ UNCHANGED <<seen, producer, outbox, topic, task, batch, position, db,
                 streamer, stopping, failures>>

\* The LOB process ends, and what waits in its memory with it.
LobCrash ==
  /\ MayDrop /\ kafka_q \cup outbox["lob"] # {}
  /\ dropped' = dropped \cup kafka_q \cup outbox["lob"]
  /\ kafka_q' = {} /\ outbox' = [outbox EXCEPT !["lob"] = {}]
  /\ UNCHANGED <<seen, producer, topic, task, batch, position, db, streamer,
                 stopping, failures>>

\* The streamer receives a trade and produces it.
StreamTrade(t) ==
  /\ streamer = "up" /\ t \in Ticks \ seen
  /\ seen' = seen \cup {t}
  /\ outbox' = [outbox EXCEPT !["streamer"] = @ \cup {t}]
  /\ UNCHANGED <<dropped, lob, topic, task, batch, position, db, streamer,
                 stopping, failures>>

\* Its producer has no room: produce raises, the streamer reconnects.
StreamNothing(t) ==
  /\ streamer = "up" /\ t \in Ticks \ seen /\ MayDrop
  /\ seen' = seen \cup {t} /\ dropped' = dropped \cup {t}
  /\ UNCHANGED <<lob, outbox, topic, task, batch, position, db, streamer,
                 stopping, failures>>

Write(t, p) ==
  /\ Len(topic[p]) < MaxLog
  /\ topic' = [topic EXCEPT ![p] = Append(@, t)]
  /\ UNCHANGED <<seen, dropped, lob, task, batch, position, db, streamer,
                 stopping, failures>>

\* A producer writes a trade to some partition.
Deliver(c, t, p) ==
  /\ t \in outbox[c] /\ Write(t, p)
  /\ outbox' = [outbox EXCEPT ![c] = @ \ {t}]

\* It does, but the answer is lost: it will write the trade again.
DeliverUnanswered(c, t, p) ==
  /\ t \in outbox[c] /\ \A q \in Partitions : Len(topic[q]) < MaxRepeats
  /\ Write(t, p)
  /\ UNCHANGED outbox

\* A trade it could not write for too long is given up.
Expire(c, t) ==
  /\ t \in outbox[c] /\ MayDrop
  /\ outbox' = [outbox EXCEPT ![c] = @ \ {t}] /\ dropped' = dropped \cup {t}
  /\ UNCHANGED <<seen, lob, topic, task, batch, position, db, streamer,
                 stopping, failures>>

-----------------------------------------------------------------------------
(* The consumer.                                                           *)

producing == <<seen, dropped, lob, topic>>

\* Mutant: the consumer resumes one message late.
ConnectNext ==
  /\ task = "connect"
  /\ task' = "open" /\ position' = [p \in Partitions |-> committed[p] + 1]
  /\ UNCHANGED <<producing, outbox, batch, db, streamer, stopping, failures>>

\* The retry loops for Kafka and for the database end.
Connect ==
  /\ task = "connect"
  /\ task' = "open" /\ position' = committed
  /\ UNCHANGED <<producing, outbox, batch, db, streamer, stopping, failures>>

Open ==
  /\ task = "open" /\ task' = "loop"
  /\ UNCHANGED <<producing, outbox, batch, position, db, streamer, stopping, failures>>

\* Mutant: one message too many before the flush.
PollLate(p) ==
  /\ task = "loop" /\ position[p] < Len(topic[p])
  /\ position' = [position EXCEPT ![p] = @ + 1]
  /\ LET m == <<p, position[p] + 1>> IN
       batch' = IF Trade(m) \in Malformed THEN batch ELSE batch \cup {m}
  /\ task' = IF Cardinality(batch') > BatchSize THEN "flush" ELSE "loop"
  /\ UNCHANGED <<producing, outbox, db, streamer, stopping, failures>>

\* poll returns the next message of some partition; one that does not parse
\* is skipped.  (A time stamp outside the range of datetime would end the task
\* instead; neither producer writes one.)
Poll(p) ==
  /\ task = "loop" /\ position[p] < Len(topic[p])
  /\ position' = [position EXCEPT ![p] = @ + 1]
  /\ LET m == <<p, position[p] + 1>> IN
       batch' = IF Trade(m) \in Malformed THEN batch ELSE batch \cup {m}
  /\ task' = IF Cardinality(batch') >= BatchSize THEN "flush" ELSE "loop"
  /\ UNCHANGED <<producing, outbox, db, streamer, stopping, failures>>

\* Mutant: only a full batch is flushed.
PollTimeoutFull ==
  /\ task = "loop" /\ Cardinality(batch) = BatchSize
  /\ task' = "flush"
  /\ UNCHANGED <<producing, outbox, batch, position, db, streamer, stopping, failures>>

\* poll returns nothing: what was read is flushed.
PollTimeout ==
  /\ task = "loop" /\ batch # {}
  /\ task' = "flush"
  /\ UNCHANGED <<producing, outbox, batch, position, db, streamer, stopping, failures>>

WithRows(ms) == [m \in Messages |-> rows[m] + IF m \in ms THEN 1 ELSE 0]

Fits == \A m \in batch : Trade(m) \notin Oversized

\* Mutant: the batch is not cleared.
InsertKeep ==
  /\ task = "flush" /\ Fits
  /\ rows' = WithRows(batch)
  /\ task' = IF stopping THEN "close" ELSE "loop"
  /\ UNCHANGED <<producing, outbox, batch, position, committed, streamer,
                 stopping, failures>>

\* _bulk_insert succeeds and the batch is cleared.
Insert ==
  /\ task = "flush" /\ Fits
  /\ rows' = WithRows(batch) /\ batch' = {}
  /\ task' = IF stopping THEN "close" ELSE "loop"
  /\ UNCHANGED <<producing, outbox, position, committed, streamer, stopping, failures>>

\* _bulk_insert raises: a row is refused, or the connection is lost before or
\* after the commit.  The exception ends the task.
InsertFails ==
  /\ task = "flush" /\ (Fits => failures < MaxFailures)
  /\ rows' \in {rows} \cup (IF Fits THEN {WithRows(batch)} ELSE {})
  /\ task' = "close" /\ batch' = {} /\ failures' = failures + 1
  /\ UNCHANGED <<producing, outbox, position, committed, streamer, stopping>>

\* librdkafka's thread commits what poll has returned.
AutoCommit ==
  /\ task \in {"loop", "flush", "close"}
  /\ committed' = position
  /\ UNCHANGED <<producing, outbox, task, batch, position, rows, streamer,
                 stopping, failures>>

\* consumer.close() commits the same, unless the broker cannot be reached.
Close ==
  /\ task = "close" /\ task' = "ended"
  /\ \/ committed' = position /\ UNCHANGED failures
     \/ failures < MaxFailures /\ failures' = failures + 1 /\ UNCHANGED committed
  /\ UNCHANGED <<producing, outbox, batch, position, rows, streamer, stopping>>

-----------------------------------------------------------------------------
(* The service that runs the consumer and the streamer.                    *)

\* Mutant: a cancelled consumer closes without flushing.
CancelUnflushed ==
  /\ ~stopping /\ task \in {"connect", "open", "loop", "ended"}
  /\ stopping' = TRUE
  /\ task' = IF task = "loop" THEN "close" ELSE "ended"
  /\ batch' = {}
  /\ UNCHANGED <<producing, outbox, position, db, streamer, failures>>

\* The lifespan cancels the consumer, at one of its awaits.
Cancel ==
  /\ ~stopping /\ task \in {"connect", "open", "loop", "ended"}
  /\ stopping' = TRUE
  /\ task' = CASE task = "loop" /\ batch # {} -> "flush"
               [] task = "loop" /\ batch = {} -> "close"
               [] OTHER -> "ended"
  /\ UNCHANGED <<producing, outbox, batch, position, db, streamer, failures>>

\* When the consumer has ended the streamer is cancelled; it flushes and the
\* process ends.
CancelStreamer ==
  /\ stopping /\ task = "ended" /\ streamer = "up" /\ streamer' = "flushing"
  /\ UNCHANGED <<producing, outbox, task, batch, position, db, stopping, failures>>

\* Cancelled in the pause before it reconnects, it leaves without flushing.
CancelReconnecting ==
  /\ stopping /\ task = "ended" /\ streamer = "up"
  /\ streamer' = "down" /\ task' = "down"
  /\ dropped' = dropped \cup outbox["streamer"]
  /\ outbox' = [outbox EXCEPT !["streamer"] = {}]
  /\ UNCHANGED <<seen, lob, topic, batch, position, db, stopping, failures>>

Exit ==
  /\ streamer = "flushing" /\ outbox["streamer"] = {}
  /\ streamer' = "down" /\ task' = "down"
  /\ UNCHANGED <<producing, outbox, batch, position, db, stopping, failures>>

\* The process is killed.
Crash ==
  /\ task # "down" /\ failures < MaxFailures
  /\ failures' = failures + 1
  /\ dropped' = dropped \cup outbox["streamer"]
  /\ outbox' = [outbox EXCEPT !["streamer"] = {}]
  /\ batch' = {} /\ task' = "down" /\ streamer' = "down" /\ stopping' = TRUE
  /\ UNCHANGED <<seen, lob, topic, position, db>>

Restart ==
  /\ task = "down"
  /\ task' = "connect" /\ streamer' = "up" /\ stopping' = FALSE
  /\ UNCHANGED <<producing, outbox, batch, position, db, failures>>

Producing ==
  \/ \E t \in Trades :
       \/ LogFill(t) \/ Produce(t) \/ ProduceNothing(t)
       \/ StreamTrade(t) \/ StreamNothing(t)
       \/ \E c \in Clients :
            \/ Expire(c, t)
            \/ \E p \in Partitions : Deliver(c, t, p) \/ DeliverUnanswered(c, t, p)
  \/ LobCrash

Consuming ==
  \/ \E p \in Partitions : Poll(p)
  \/ Connect \/ Open \/ PollTimeout \/ Insert \/ InsertFails \/ AutoCommit \/ Close

Running == Cancel \/ CancelStreamer \/ CancelReconnecting \/ Exit \/ Crash \/ Restart

Next == Producing \/ Consuming \/ Running

Spec == Init /\ [][Next]_vars

\* The worker thread and the producers' threads go on; the consumer's loop goes
\* on, and poll neglects no partition for ever.
FairSpec ==
  /\ Spec
  /\ \A t \in Fills : WF_vars(Produce(t) \/ ProduceNothing(t))
  /\ \A t \in Trades, c \in Clients :
       WF_vars(\E p \in Partitions : Deliver(c, t, p))
  /\ \A p \in Partitions : SF_vars(Poll(p))
  /\ WF_vars(Connect) /\ WF_vars(Open) /\ WF_vars(PollTimeout)
  /\ WF_vars(Insert \/ InsertFails) /\ WF_vars(Close)

-----------------------------------------------------------------------------
(* Properties.                                                             *)

\* Every variable has its type.
TypeOK ==
  /\ seen \subseteq Trades /\ dropped \subseteq Trades
  /\ producer \in BOOLEAN /\ kafka_q \subseteq Fills
  /\ outbox \in [Clients -> SUBSET Trades]
  /\ topic \in [Partitions -> Seq(Trades)]
  /\ \A p \in Partitions : Len(topic[p]) <= MaxLog
  /\ task \in Tasks /\ batch \subseteq Messages
  /\ position \in [Partitions -> Nat] /\ committed \in [Partitions -> Nat]
  /\ \A p \in Partitions : committed[p] <= position[p] /\ position[p] <= Len(topic[p])
  /\ rows \in [Messages -> Nat]
  /\ streamer \in {"up", "flushing", "down"}
  /\ stopping \in BOOLEAN /\ failures \in Nat

InBatch(m) == IF m \in batch THEN 1 ELSE 0

WellFormed(m) == Trade(m) \notin Malformed

\* While nothing fails, every message poll has returned is one row or waits in
\* the batch for it, and no other message is a row: through timeouts, full
\* batches, commits on the timer, and any number of orderly shutdowns and
\* restarts, nothing is lost and nothing is inserted twice.
StoredOnce ==
  failures = 0 =>
    \A m \in Messages :
      rows[m] + InBatch(m) =
        IF m[2] <= position[m[1]] /\ WellFormed(m) THEN 1 ELSE 0

\* The messages that will not be read again and are no rows.
Lost ==
  {m \in Messages : /\ m[2] <= committed[m[1]] /\ WellFormed(m)
                    /\ rows[m] = 0 /\ m \notin batch}

\* One failure (a crash, a refused row, a commit that does not arrive) loses at
\* most one batch, whenever the timer's commits fall.
FailureLosesABatch == Cardinality(Lost) <= failures * BatchSize

\* A message becomes a second row only by being read again after a failure.
RereadAfterFailure == \A m \in Messages : rows[m] <= 1 + failures

Stored(t) == \E m \in Messages : rows[m] > 0 /\ Trade(m) = t

\* Every trade that happens becomes a row in the end, unless its message does
\* not parse, a Kafka client gives it up, something fails, or the service is
\* shut down.
EveryTradeIsStored ==
  \A t \in Trades \ Malformed :
    t \in seen ~> (Stored(t) \/ t \in dropped \/ failures > 0 \/ stopping)

=============================================================================
