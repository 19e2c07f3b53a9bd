---------------------------- MODULE KrakenFeeder ----------------------------
(***************************************************************************)
(* module1_lob/kraken_feeder.py: subscribes to Kraken's book of a symbol   *)
(* and posts each level of it as a limit order.  Kraken sends a snapshot,  *)
(* then the levels that change; quantity 0 deletes a level.                *)
(***************************************************************************)
EXTENDS LobCalls

CONSTANTS
  Levels,     \* the prices on either side of Kraken's book
  MaxUpdates  \* bound: the messages of Kraken

ASSUME UpdateAssumption ==
  MaxUpdates \in Nat \ {0} /\ (1 .. MaxUpdates) \X Levels \subseteq Orders

VARIABLES
  feed,    \* where run_feeder is
  inbox,   \* the messages it has not read: their numbers and quantities
  update,  \* the message whose orders are under way
  tasks,   \* its levels that are not settled
  shown,   \* the levels in Kraken's book
  updates, \* the messages so far: some may be used up from the beginning
  posted,  \* history: the levels posted since the last subscription
  missed,  \* history: whether a post has failed since then
  newest,  \* history: the latest message an order of which was executed
  overtaken, \* history: the orders executed after one of a later message
  abandoned  \* history: the orders whose call was given up

feeder == <<feed, inbox, update, tasks>>
kraken == <<shown, updates>>
fhistory == <<posted, missed, newest, overtaken, abandoned>>
fd == <<feeder, kraken, fhistory>>

FeedOrders == (1 .. MaxUpdates) \X Levels
Messages == [no : 1 .. MaxUpdates, bids_asks : UNION {[L -> {0, 1}] : L \in SUBSET Levels}]
Nothing == [no |-> 1, bids_asks |-> <<>>]

FeederTypeOK ==
  /\ feed \in {"connect", "recv", "send", "stopped"}
  /\ inbox \in Seq(Messages) /\ update \in Messages
  /\ tasks \subseteq DOMAIN update.bids_asks
  /\ feed = "send" <=> tasks # {}
  /\ shown \subseteq Levels /\ updates \in 0 .. MaxUpdates
  /\ posted \subseteq Levels /\ missed \in BOOLEAN
  /\ newest \in 0 .. MaxUpdates /\ overtaken \cup abandoned \subseteq FeedOrders

FeederInit ==
  /\ feed = "connect" /\ inbox = <<>> /\ update = Nothing /\ tasks = {}
  /\ shown \in SUBSET Levels /\ updates \in 0 .. MaxUpdates
  /\ posted = {} /\ missed = FALSE
  /\ newest = 0 /\ overtaken = {} /\ abandoned = {}

\* Kraken's next message.
Message(bids_asks) == [no |-> updates + 1, bids_asks |-> bids_asks]
NextUpdate == updates < MaxUpdates /\ updates' = updates + 1

\* Levels of the book change: they come, go, or have another quantity.
KrakenUpdates(L) ==
  /\ L # {} /\ NextUpdate
  /\ \E kept \in SUBSET L :
       /\ shown' = (shown \ L) \cup kept
       /\ inbox' = IF feed \in {"recv", "send"}
                   THEN Append(inbox, Message([l \in L |-> IF l \in kept THEN 1 ELSE 0]))
                   ELSE inbox
  /\ UNCHANGED <<feed, update, tasks, fhistory, calls>>

\* Subscribed: the snapshot is on its way.
Connect ==
  /\ feed = "connect" /\ NextUpdate
  /\ feed' = "recv"
  /\ inbox' = <<Message([l \in shown |-> 1])>>
  /\ posted' = {} /\ missed' = FALSE
  /\ UNCHANGED <<update, tasks, shown, newest, overtaken, abandoned, calls>>

\* Mutant: the orders of the last message are not waited for.
ReadUpdateAtOnce ==
  /\ feed \in {"recv", "send"} /\ inbox # <<>>
  /\ update' = Head(inbox) /\ inbox' = Tail(inbox)
  /\ tasks' = {l \in DOMAIN update'.bids_asks : update'.bids_asks[l] > 0}
  /\ feed' = IF tasks' = {} THEN "recv" ELSE "send"
  /\ UNCHANGED <<kraken, fhistory, calls>>

\* Mutant: of the messages that wait only the last is read.
ReadUpdateLatest ==
  /\ feed = "recv" /\ inbox # <<>>
  /\ update' = Last(inbox) /\ inbox' = <<>>
  /\ tasks' = {l \in DOMAIN update'.bids_asks : update'.bids_asks[l] > 0}
  /\ feed' = IF tasks' = {} THEN "recv" ELSE "send"
  /\ UNCHANGED <<kraken, fhistory, calls>>

\* The levels with a quantity are posted, all at the same time; a deletion is
\* left out.
ReadUpdate ==
  /\ feed = "recv" /\ inbox # <<>>
  /\ update' = Head(inbox) /\ inbox' = Tail(inbox)
  /\ tasks' = {l \in DOMAIN update'.bids_asks : update'.bids_asks[l] > 0}
  /\ feed' = IF tasks' = {} THEN "recv" ELSE "send"
  /\ UNCHANGED <<kraken, fhistory, calls>>

Order(l) == <<update.no, l>>

PostOrder(l) ==
  /\ l \in tasks /\ Send(Order(l))
  /\ UNCHANGED <<lob_up, faults, fd>>

\* Mutant: the first call that is settled is enough.
SettleFirst(l) == tasks' = tasks \ {l} /\ feed' = "recv"

\* gather returns when the last call of the message is settled.
Settle(l) ==
  /\ tasks' = tasks \ {l}
  /\ feed' = IF tasks' = {} THEN "recv" ELSE "send"

OrderPlaced(l) ==
  /\ l \in tasks /\ way[Order(l)] = "executed"
  /\ Settle(l) /\ posted' = posted \cup {l}
  /\ UNCHANGED <<inbox, update, kraken, missed, newest, overtaken, abandoned, calls>>

\* Mutant: an answer is waited for without end.
OrderFailsUnsent(l) ==
  /\ l \in tasks /\ way[Order(l)] \in {"none", "gone"}
  /\ Settle(l) /\ missed' = TRUE
  /\ abandoned' = abandoned \cup {Order(l)}
  /\ UNCHANGED <<inbox, update, kraken, posted, newest, overtaken, calls>>

\* No connection, a connection that breaks, or no answer for 2 seconds: the
\* order is counted as failed, and not posted again.
OrderFails(l) ==
  /\ l \in tasks
  /\ Settle(l) /\ missed' = TRUE
  /\ abandoned' = abandoned \cup {Order(l)}
  /\ UNCHANGED <<inbox, update, kraken, posted, newest, overtaken, calls>>

\* The LOB places an order of the feeder.
ExecuteFeed(o) ==
  /\ Execute(o)
  /\ newest' = IF o[1] > newest THEN o[1] ELSE newest
  /\ overtaken' = IF o[1] < newest THEN overtaken \cup {o} ELSE overtaken
  /\ UNCHANGED <<feeder, kraken, posted, missed, abandoned>>

\* recv finds the connection closed, or a message makes it raise: everything
\* unread is gone.
WebSocketError ==
  /\ feed = "recv" /\ Fault
  /\ feed' = "connect" /\ inbox' = <<>>
  /\ UNCHANGED <<update, tasks, kraken, fhistory, lob_up, way>>

\* The feeder is cancelled or dies, and its calls are left to the LOB.
FeederStops ==
  /\ feed # "stopped" /\ Fault
  /\ feed' = "stopped" /\ inbox' = <<>> /\ tasks' = {} /\ update' = Nothing
  /\ abandoned' = abandoned \cup {Order(l) : l \in tasks}
  /\ UNCHANGED <<kraken, posted, missed, newest, overtaken, lob_up, way>>

FeederStarts ==
  /\ feed = "stopped" /\ feed' = "connect"
  /\ UNCHANGED <<inbox, update, tasks, kraken, fhistory, calls>>

FeederStep ==
  \/ ReadUpdate
  \/ \E l \in Levels : PostOrder(l) \/ OrderPlaced(l) \/ OrderFails(l)

FeederNext ==
  \/ FeederStep \/ Connect \/ WebSocketError \/ FeederStops \/ FeederStarts
  \/ \E L \in SUBSET Levels : KrakenUpdates(L)
  \/ \E o \in FeedOrders : ExecuteFeed(o)
=============================================================================
