-------------------------- MODULE OrderEntryProofs --------------------------
(***************************************************************************)
(* What the feeder and the proxy keep to whatever becomes of their calls,  *)
(* for any number of levels, updates, clients, attempts and faults.        *)
(***************************************************************************)
EXTENDS OrderEntry, FiniteSetTheorems, TLAPS

-----------------------------------------------------------------------------
(* The proxy.                                                              *)

\* Only the last attempt of a client has reached the LOB, and no client that
\* is about to make another one has: what was sent is not followed by an
\* answer that invites it.
OnlyLastWasSent ==
  \A r \in Requests, k \in 1 .. MaxAttempts : way[<<r, k>>] # "none" =>
    /\ k = attempt[r]
    /\ pc[r] \in {"wait", "client"}
    /\ pc[r] = "client" => answer[r] \notin NotPlaced

\* A request in the proxy is an attempt of its client.
UnderWayIsAttempt == \A r \in Requests : pc[r] \in InProxy => attempt[r] \in 1 .. MaxAttempts

ProxyInv == CallsTypeOK /\ ProxyTypeOK /\ OnlyLastWasSent /\ UnderWayIsAttempt

LEMMA AttemptsBounded == MaxAttempts \in Nat /\ ProxyOrders \subseteq Orders
BY RequestAssumption DEF ProxyOrders

LEMMA ProxyInvInit == Init => ProxyInv
<1> SUFFICES ASSUME Init PROVE ProxyInv
  OBVIOUS
<1>1. CallsTypeOK /\ ProxyTypeOK
  BY RequestAssumption, FaultAssumption
  DEF Init, CallsInit, ProxyInit, CallsTypeOK, ProxyTypeOK, Ways, Statuses
<1>2. OnlyLastWasSent
  BY AttemptsBounded DEF Init, CallsInit, OnlyLastWasSent, ProxyOrders
<1>3. UnderWayIsAttempt
  BY DEF Init, ProxyInit, UnderWayIsAttempt, InProxy
<1>4. QED
  BY <1>1, <1>2, <1>3 DEF ProxyInv

\* What the LOB does with calls of the proxy, and what becomes of the LOB.
LEMMA CallsKeepProxyInv ==
  ASSUME ProxyInv, (\E o \in Orders : Execute(o)) \/ LobCrash \/ LobStart, UNCHANGED px
  PROVE  ProxyInv'
<1>1. CallsTypeOK'
  <2>1. lob_up' \in BOOLEAN
    BY DEF ProxyInv, CallsTypeOK, Execute, LobCrash, LobStart
  <2>2. way' \in [Orders -> Ways]
    BY DEF ProxyInv, CallsTypeOK, Execute, LobCrash, LobStart, Ways
  <2>3. faults' \in 0 .. MaxFaults
    BY FaultAssumption DEF ProxyInv, CallsTypeOK, Execute, LobCrash, LobStart, Fault
  <2>4. QED
    BY <2>1, <2>2, <2>3 DEF CallsTypeOK
<1>2. \A p \in Orders : way'[p] # "none" => way[p] # "none"
  BY DEF ProxyInv, CallsTypeOK, Execute, LobCrash, LobStart
<1>3. OnlyLastWasSent'
  BY <1>2, AttemptsBounded DEF ProxyInv, OnlyLastWasSent, px, ProxyOrders
<1>4. QED
  BY <1>1, <1>3 DEF ProxyInv, ProxyTypeOK, UnderWayIsAttempt, px

LEMMA RequestKeepsProxyInv ==
  ASSUME ProxyInv, NEW r \in Requests, Request(r)
  PROVE  ProxyInv'
<1> USE DEF ProxyInv, Request, Goto, calls
<1>1. CallsTypeOK'
  BY DEF CallsTypeOK
<1>2. ProxyTypeOK'
  <2>1. attempt[r] + 1 \in 0 .. MaxAttempts
    BY AttemptsBounded DEF ProxyTypeOK
  <2>2. QED
    BY <2>1 DEF ProxyTypeOK, InProxy
<1>3. \A k \in 1 .. MaxAttempts : way[<<r, k>>] = "none"
  BY AttemptsBounded DEF OnlyLastWasSent, ProxyTypeOK
<1>4. OnlyLastWasSent'
  BY <1>3 DEF OnlyLastWasSent, ProxyTypeOK
<1>5. UnderWayIsAttempt'
  BY AttemptsBounded DEF UnderWayIsAttempt, ProxyTypeOK
<1>6. QED
  BY <1>1, <1>2, <1>4, <1>5

LEMMA ProxyStepKeepsProxyInv ==
  ASSUME ProxyInv, NEW r \in Requests, ProxyStep(r) \/ ConnectionBreaks(r)
  PROVE  ProxyInv'
<1> USE DEF ProxyInv, Goto, Answer, calls
<1>1. CASE SqlFirewall(r) \/ LogSecurityEvent(r) \/ RateLimit(r) \/ Unavailable(r)
  <2> USE <1>1 DEF SqlFirewall, LogSecurityEvent, RateLimit, Unavailable
  <2>1. CallsTypeOK' /\ ProxyTypeOK'
    BY DEF CallsTypeOK, ProxyTypeOK, InProxy, Statuses
  <2>2. pc[r] \in {"filter", "log", "limit", "forward"} /\ way' = way /\ attempt' = attempt
        /\ \A q \in Requests \ {r} : pc'[q] = pc[q] /\ answer'[q] = answer[q]
    BY DEF ProxyTypeOK
  <2>3. OnlyLastWasSent'
    BY <2>2 DEF OnlyLastWasSent
  <2>4. UnderWayIsAttempt'
    BY <2>2 DEF UnderWayIsAttempt, InProxy
  <2>5. QED
    BY <2>1, <2>3, <2>4
<1>2. CASE Forward(r)
  <2> USE <1>2 DEF Forward, Send, Call
  <2>1. CallsTypeOK' /\ ProxyTypeOK'
    BY DEF CallsTypeOK, ProxyTypeOK, InProxy, Ways
  <2>2. \A q \in Requests, k \in 1 .. MaxAttempts :
          <<q, k>> # <<r, attempt[r]>> => way'[<<q, k>>] = way[<<q, k>>]
    BY AttemptsBounded DEF CallsTypeOK, ProxyOrders
  <2>3. OnlyLastWasSent'
    BY <2>2 DEF OnlyLastWasSent, ProxyTypeOK
  <2>4. UnderWayIsAttempt'
    BY DEF UnderWayIsAttempt, InProxy, ProxyTypeOK
  <2>5. QED
    BY <2>1, <2>3, <2>4
<1>3. CASE UpstreamAnswers(r) \/ UpstreamTimeout(r) \/ ConnectionBreaks(r)
  <2> USE <1>3 DEF UpstreamAnswers, UpstreamTimeout, ConnectionBreaks, Fault
  <2>1. CallsTypeOK' /\ ProxyTypeOK'
    BY FaultAssumption DEF CallsTypeOK, ProxyTypeOK, InProxy, Statuses
  <2>2. way' = way /\ attempt' = attempt /\ answer'[r] \notin NotPlaced
        /\ pc'[r] = "client"
        /\ \A q \in Requests \ {r} : pc'[q] = pc[q] /\ answer'[q] = answer[q]
    BY DEF ProxyTypeOK, NotPlaced
  <2>3. OnlyLastWasSent'
    BY <2>2 DEF OnlyLastWasSent
  <2>4. UnderWayIsAttempt'
    BY <2>2 DEF UnderWayIsAttempt, InProxy
  <2>5. QED
    BY <2>1, <2>3, <2>4
<1>4. QED
  BY <1>1, <1>2, <1>3 DEF ProxyStep

LEMMA RestartKeepsProxyInv ==
  ASSUME ProxyInv, ProxyRestart
  PROVE  ProxyInv'
<1> USE DEF ProxyInv, ProxyRestart, Fault
<1>1. CallsTypeOK' /\ ProxyTypeOK'
  BY FaultAssumption DEF CallsTypeOK, ProxyTypeOK, Statuses
<1>2. OnlyLastWasSent'
  BY DEF OnlyLastWasSent, ProxyTypeOK, InProxy, NotPlaced
<1>3. UnderWayIsAttempt'
  BY DEF UnderWayIsAttempt, InProxy
<1>4. QED
  BY <1>1, <1>2, <1>3
-----------------------------------------------------------------------------
(* The feeder.                                                             *)

Qty(m) == m.bids_asks

\* The messages wait in Kraken's order, behind the one whose orders are under
\* way.
InboxInOrder ==
  /\ \A i \in DOMAIN inbox :
       /\ inbox[i].no <= updates
       /\ tasks # {} => update.no < inbox[i].no
       /\ \A j \in DOMAIN inbox : i < j => inbox[i].no < inbox[j].no
  /\ tasks # {} => update.no <= updates

\* A message is not after the one under way, nor after those that wait.
NotAfter(n) ==
  /\ n <= updates
  /\ \A i \in DOMAIN inbox : n < inbox[i].no
  /\ tasks # {} => n <= update.no

SentInOrder ==
  NotAfter(newest) /\ \A o \in FeedOrders : way[o] # "none" => NotAfter(o[1])

\* A call that was sent is waited for or given up.
SentIsAwaited ==
  \A o \in FeedOrders : way[o] = "sent" =>
    o \in abandoned \/ (o[1] = update.no /\ o[2] \in tasks)

\* A level that Kraken shows was posted, is being posted, or waits in a
\* message, unless a post has failed.
ShownIsPending ==
  feed \in {"recv", "send"} /\ ~missed =>
    \A l \in shown :
      \/ l \in posted \cup tasks
      \/ \E i \in DOMAIN inbox : l \in DOMAIN Qty(inbox[i]) /\ Qty(inbox[i])[l] > 0

\* Nothing waits while the feeder is not subscribed.
QuietUnsubscribed == feed \in {"connect", "stopped"} => inbox = <<>> /\ tasks = {}

FeederInv ==
  /\ CallsTypeOK /\ FeederTypeOK /\ QuietUnsubscribed /\ InboxInOrder /\ SentInOrder
  /\ SentIsAwaited /\ OnlyAbandonedAreOvertaken /\ ShownIsPending

LEMMA UpdatesBounded == MaxUpdates \in Nat \ {0} /\ FeedOrders \subseteq Orders
BY UpdateAssumption DEF FeedOrders

LEMMA MessageParts ==
  ASSUME NEW m \in Messages
  PROVE  m.no \in 1 .. MaxUpdates /\ DOMAIN Qty(m) \subseteq Levels
         /\ \A l \in DOMAIN Qty(m) : Qty(m)[l] \in {0, 1}
BY DEF Messages, Qty

LEMMA NothingIsMessage == Nothing \in Messages /\ DOMAIN Qty(Nothing) = {}
<1>1. <<>> \in [{} -> {0, 1}]
  OBVIOUS
<1>2. QED
  BY <1>1, UpdatesBounded DEF Nothing, Messages, Qty

\* What Kraken sends next is a message with a new number.
LEMMA NewMessage ==
  ASSUME FeederInv, updates < MaxUpdates, NEW L \in SUBSET Levels, NEW f \in [L -> {0, 1}]
  PROVE  /\ Message(f) \in Messages
         /\ Message(f).no = updates + 1
         /\ Qty(Message(f)) = f
BY UpdatesBounded DEF FeederInv, FeederTypeOK, Message, Messages, Qty

LEMMA FeederInvInit == Init => FeederInv
<1> SUFFICES ASSUME Init PROVE FeederInv
  OBVIOUS
<1> USE DEF Init, CallsInit, FeederInit
<1>1. CallsTypeOK
  BY FaultAssumption DEF CallsTypeOK, Ways
<1>2. FeederTypeOK
  <2>1. inbox \in Seq(Messages)
    OBVIOUS
  <2>2. update \in Messages /\ tasks \subseteq DOMAIN update.bids_asks
    BY NothingIsMessage
  <2>3. shown \subseteq Levels /\ updates \in 0 .. MaxUpdates /\ newest \in 0 .. MaxUpdates
    BY UpdatesBounded
  <2>4. QED
    BY <2>1, <2>2, <2>3 DEF FeederTypeOK
<1>3. QuietUnsubscribed /\ InboxInOrder /\ SentIsAwaited /\ OnlyAbandonedAreOvertaken /\ ShownIsPending
  BY UpdatesBounded DEF QuietUnsubscribed, InboxInOrder, SentIsAwaited, OnlyAbandonedAreOvertaken, ShownIsPending
<1>4. SentInOrder
  BY UpdatesBounded DEF SentInOrder, NotAfter
<1>5. QED
  BY <1>1, <1>2, <1>3, <1>4 DEF FeederInv
\* What follows from an inbox that gets one more message.
LEMMA Appended ==
  ASSUME NEW q \in Seq(Messages), NEW m \in Messages
  PROVE  /\ Append(q, m) \in Seq(Messages)
         /\ Len(q) \in Nat
         /\ DOMAIN Append(q, m) = 1 .. Len(q) + 1
         /\ DOMAIN q = 1 .. Len(q)
         /\ \A i \in 1 .. Len(q) : Append(q, m)[i] = q[i]
         /\ Append(q, m)[Len(q) + 1] = m
OBVIOUS

LEMMA KrakenUpdatesSafe ==
  ASSUME FeederInv, NEW L \in SUBSET Levels, KrakenUpdates(L)
  PROVE  FeederInv'
<1> USE DEF FeederInv, KrakenUpdates, NextUpdate, calls, fhistory
<1>1. PICK kept \in SUBSET L :
        /\ shown' = (shown \ L) \cup kept
        /\ inbox' = IF feed \in {"recv", "send"}
                    THEN Append(inbox, Message([l \in L |-> IF l \in kept THEN 1 ELSE 0]))
                    ELSE inbox
  OBVIOUS
<1> DEFINE qty == [l \in L |-> IF l \in kept THEN 1 ELSE 0]
           new == Message(qty)
<1>2. /\ new \in Messages /\ new.no = updates + 1
      /\ DOMAIN Qty(new) = L /\ \A l \in kept : Qty(new)[l] > 0
  <2>1. qty \in [L -> {0, 1}] /\ \A l \in kept : qty[l] > 0
    OBVIOUS
  <2> HIDE DEF qty
  <2>2. QED
    BY <2>1, NewMessage
<1> HIDE DEF new
<1>3. updates \in Nat /\ updates' = updates + 1 /\ updates' \in 0 .. MaxUpdates
      /\ inbox \in Seq(Messages)
  BY UpdatesBounded DEF FeederTypeOK
<1>4. CallsTypeOK'
  BY DEF CallsTypeOK
<1>5. FeederTypeOK'
  <2>1. inbox' \in Seq(Messages)
    BY <1>1, <1>2, <1>3, Appended DEF new
  <2>2. shown' \subseteq Levels
    BY <1>1 DEF FeederTypeOK
  <2>3. QED
    BY <1>3, <2>1, <2>2 DEF FeederTypeOK
<1>6. \A i \in DOMAIN inbox' :
        \/ i \in DOMAIN inbox /\ inbox'[i] = inbox[i]
        \/ inbox'[i] = new /\ \A j \in DOMAIN inbox' : j <= i
  BY <1>1, <1>2, <1>3, Appended DEF new
<1>7. \A i \in DOMAIN inbox' : i \in Nat
  BY <1>1, <1>2, <1>3, Appended DEF new
<1>8. InboxInOrder'
  <2>1. \A i \in DOMAIN inbox : inbox[i].no <= updates /\ inbox[i].no \in Nat
    BY <1>3, MessageParts DEF InboxInOrder
  <2>2. tasks # {} => update.no <= updates /\ update.no \in Nat
    BY MessageParts DEF InboxInOrder, FeederTypeOK
  <2>3. \A i \in DOMAIN inbox' : inbox'[i].no <= updates' /\ (tasks # {} => update.no < inbox'[i].no)
    BY <1>2, <1>3, <1>6, <2>1, <2>2 DEF InboxInOrder
  <2>4. \A i, j \in DOMAIN inbox' : i < j => inbox'[i].no < inbox'[j].no
    BY <1>2, <1>3, <1>6, <1>7, <2>1 DEF InboxInOrder
  <2>5. tasks' # {} => update'.no <= updates'
    BY <1>3, <2>2
  <2>6. tasks' = tasks /\ update' = update
    OBVIOUS
  <2>7. QED
    BY <2>3, <2>4, <2>5, <2>6 DEF InboxInOrder
<1>9. \A n \in Nat : NotAfter(n) => NotAfter(n)'
  BY <1>2, <1>3, <1>6 DEF NotAfter
<1>10. SentInOrder'
  BY <1>9 DEF SentInOrder, FeederTypeOK, FeedOrders
<1>11. QuietUnsubscribed' /\ SentIsAwaited' /\ OnlyAbandonedAreOvertaken'
  BY <1>1 DEF QuietUnsubscribed, SentIsAwaited, OnlyAbandonedAreOvertaken
<1>12. ShownIsPending'
  <2>1. ASSUME feed \in {"recv", "send"}
        PROVE  /\ DOMAIN inbox' = 1 .. Len(inbox) + 1 /\ inbox'[Len(inbox) + 1] = new
               /\ DOMAIN inbox = 1 .. Len(inbox) /\ Len(inbox) \in Nat
               /\ \A i \in 1 .. Len(inbox) : inbox'[i] = inbox[i]
    BY <1>1, <1>2, <1>3, <2>1, Appended DEF new
  <2>2. QED
    BY <1>1, <1>2, <2>1, SMTT(20) DEF ShownIsPending
<1>13. QED
  BY <1>4, <1>5, <1>8, <1>10, <1>11, <1>12

\* The feeder subscribes: the snapshot is the only message.
LEMMA ConnectSafe ==
  ASSUME FeederInv, Connect
  PROVE  FeederInv'
<1> USE DEF FeederInv, Connect, NextUpdate, calls
<1> DEFINE new == Message([l \in shown |-> 1])
<1>1. /\ new \in Messages /\ new.no = updates + 1
      /\ DOMAIN Qty(new) = shown /\ \A l \in shown : Qty(new)[l] > 0
  <2>1. shown \in SUBSET Levels /\ [l \in shown |-> 1] \in [shown -> {0, 1}]
    BY DEF FeederTypeOK
  <2>2. QED
    BY <2>1, NewMessage
<1> HIDE DEF new
<1>2. inbox' = <<new>> /\ inbox' \in Seq(Messages) /\ DOMAIN inbox' = {1} /\ inbox'[1] = new
  BY <1>1 DEF new
<1>3. updates \in Nat /\ updates' = updates + 1 /\ updates' \in 0 .. MaxUpdates /\ tasks = {} /\ tasks' = {}
  BY UpdatesBounded DEF FeederTypeOK, QuietUnsubscribed
<1>4. CallsTypeOK' /\ FeederTypeOK'
  BY <1>2, <1>3 DEF CallsTypeOK, FeederTypeOK
<1>5. InboxInOrder'
  BY <1>1, <1>2, <1>3 DEF InboxInOrder
<1>6. \A n \in Nat : NotAfter(n) => NotAfter(n)'
  BY <1>1, <1>2, <1>3 DEF NotAfter
<1>7. SentInOrder'
  BY <1>6 DEF SentInOrder, FeederTypeOK, FeedOrders
<1>8. QuietUnsubscribed' /\ SentIsAwaited' /\ OnlyAbandonedAreOvertaken'
  BY <1>3 DEF QuietUnsubscribed, SentIsAwaited, OnlyAbandonedAreOvertaken
<1>9. ShownIsPending'
  BY <1>1, <1>2 DEF ShownIsPending
<1>10. QED
  BY <1>4, <1>5, <1>7, <1>8, <1>9

LEMMA ReadUpdateSafe ==
  ASSUME FeederInv, ReadUpdate
  PROVE  FeederInv'
<1> USE DEF FeederInv, ReadUpdate, calls, kraken, fhistory
<1>1. /\ inbox \in Seq(Messages) /\ inbox # <<>> /\ Len(inbox) \in Nat \ {0}
      /\ DOMAIN inbox = 1 .. Len(inbox) /\ 1 \in DOMAIN inbox
      /\ update' = inbox[1] /\ inbox[1] \in Messages
      /\ inbox' \in Seq(Messages) /\ DOMAIN inbox' = 1 .. Len(inbox) - 1
      /\ \A i \in DOMAIN inbox' : i + 1 \in DOMAIN inbox /\ inbox'[i] = inbox[i + 1]
      /\ tasks = {}
  BY DEF FeederTypeOK
<1>2. tasks' \subseteq DOMAIN Qty(update') /\ tasks' \subseteq Levels
      /\ \A l \in DOMAIN Qty(update') : Qty(update')[l] > 0 => l \in tasks'
  BY <1>1, MessageParts DEF Qty
<1>3. CallsTypeOK'
  BY DEF CallsTypeOK
<1>4. FeederTypeOK'
  BY <1>1, <1>2 DEF FeederTypeOK, Qty
<1>5. InboxInOrder'
  <2>1. \A i \in DOMAIN inbox' : 1 < i + 1
    BY <1>1
  <2>2. \A i, j \in DOMAIN inbox' : i < j => i + 1 < j + 1
    BY <1>1
  <2>3. QED
    BY <1>1, <2>1, <2>2 DEF InboxInOrder
<1>6. \A n \in Nat : NotAfter(n) => NotAfter(n)'
  <2>1. \A n \in Nat : n < inbox[1].no => n <= inbox[1].no
    BY <1>1, MessageParts
  <2>2. QED
    BY <1>1, <2>1 DEF NotAfter
<1>7. SentInOrder'
  BY <1>6 DEF SentInOrder, FeederTypeOK, FeedOrders
<1>8. QuietUnsubscribed' /\ SentIsAwaited' /\ OnlyAbandonedAreOvertaken'
  BY <1>1 DEF QuietUnsubscribed, SentIsAwaited, OnlyAbandonedAreOvertaken
<1>9. ShownIsPending'
  <2>1. ASSUME NEW i \in DOMAIN inbox
        PROVE  inbox[i] = update' \/ \E j \in DOMAIN inbox' : inbox'[j] = inbox[i]
    <3>1. CASE i = 1
      BY <1>1, <3>1
    <3>2. CASE i # 1
      <4>1. i - 1 \in DOMAIN inbox' /\ inbox'[i - 1] = inbox[i]
        BY <1>1, <3>2
      <4>2. QED
        BY <4>1
    <3>3. QED
      BY <3>1, <3>2
  <2>2. ASSUME ~missed, NEW l \in shown
        PROVE  \/ l \in posted \cup tasks'
               \/ \E j \in DOMAIN inbox' : l \in DOMAIN Qty(inbox'[j]) /\ Qty(inbox'[j])[l] > 0
    <3>1. CASE l \in posted
      BY <3>1
    <3>2. CASE \E i \in DOMAIN inbox : l \in DOMAIN Qty(inbox[i]) /\ Qty(inbox[i])[l] > 0
      BY <1>2, <2>1, <3>2
    <3>3. QED
      BY <1>1, <2>2, <3>1, <3>2 DEF ShownIsPending
  <2>3. QED
    BY <2>2 DEF ShownIsPending
<1>10. QED
  BY <1>3, <1>4, <1>5, <1>7, <1>8, <1>9
LEMMA OrderParts ==
  /\ \A o \in FeedOrders : o[1] \in 1 .. MaxUpdates /\ o[2] \in Levels /\ o = <<o[1], o[2]>>
  /\ \A o, p \in FeedOrders : o[1] = p[1] /\ o[2] = p[2] => o = p
BY DEF FeedOrders

\* The order of a level under way.
LEMMA OrderOfTask ==
  ASSUME FeederInv, NEW l \in tasks
  PROVE  /\ Order(l) \in FeedOrders /\ Order(l)[1] = update.no /\ Order(l)[2] = l
         /\ l \in Levels /\ feed = "send"
<1>1. update.no \in 1 .. MaxUpdates /\ l \in Levels /\ feed = "send"
  BY MessageParts DEF FeederInv, FeederTypeOK, Qty
<1>2. QED
  BY <1>1 DEF Order, FeedOrders

LEMMA PostOrderSafe ==
  ASSUME FeederInv, NEW l \in Levels, PostOrder(l)
  PROVE  FeederInv'
<1> USE DEF FeederInv, PostOrder, Send, fd, feeder, kraken, fhistory
<1>1. Order(l) \in FeedOrders /\ Order(l)[1] = update.no /\ Order(l)[2] = l
  BY OrderOfTask
<1>2. /\ way' \in [Orders -> Ways]
      /\ \A o \in Orders : o # Order(l) => way'[o] = way[o]
  BY <1>1, UpdatesBounded DEF CallsTypeOK, Ways
<1>3. CallsTypeOK' /\ FeederTypeOK'
  BY <1>2 DEF CallsTypeOK, FeederTypeOK
<1>4. InboxInOrder' /\ QuietUnsubscribed' /\ OnlyAbandonedAreOvertaken' /\ ShownIsPending'
  BY DEF InboxInOrder, QuietUnsubscribed, OnlyAbandonedAreOvertaken, ShownIsPending
<1>5. SentInOrder'
  <2>1. NotAfter(update.no)
    BY MessageParts DEF InboxInOrder, NotAfter, FeederTypeOK
  <2>2. \A n : NotAfter(n) => NotAfter(n)'
    BY DEF NotAfter
  <2>3. QED
    BY <1>1, <1>2, <2>1, <2>2, UpdatesBounded DEF SentInOrder
<1>6. SentIsAwaited'
  BY <1>1, <1>2, UpdatesBounded DEF SentIsAwaited
<1>7. QED
  BY <1>3, <1>4, <1>5, <1>6

\* A call is settled: it was executed, or is given up.
LEMMA SettleSafe ==
  ASSUME FeederInv, NEW l \in Levels, OrderPlaced(l) \/ OrderFails(l)
  PROVE  FeederInv'
<1> USE DEF FeederInv, OrderPlaced, OrderFails, Settle, kraken, calls
<1>1. /\ l \in tasks /\ tasks' = tasks \ {l}
      /\ inbox' = inbox /\ update' = update /\ updates' = updates /\ shown' = shown
      /\ way' = way /\ newest' = newest /\ overtaken' = overtaken
      /\ abandoned \subseteq abandoned'
      /\ way[Order(l)] = "sent" => Order(l) \in abandoned'
      /\ feed = "send"
  BY OrderOfTask
<1>2. Order(l) \in FeedOrders /\ Order(l)[1] = update.no /\ Order(l)[2] = l
  BY <1>1, OrderOfTask
<1>3. CallsTypeOK'
  BY DEF CallsTypeOK
<1>4. FeederTypeOK'
  <2>1. posted' \subseteq Levels /\ missed' \in BOOLEAN /\ abandoned' \subseteq FeedOrders
    BY <1>2 DEF FeederTypeOK
  <2>2. feed' = (IF tasks' = {} THEN "recv" ELSE "send") /\ tasks' \subseteq tasks
    OBVIOUS
  <2>3. QED
    BY <1>1, <2>1, <2>2 DEF FeederTypeOK
<1>5. QuietUnsubscribed'
  BY <1>1 DEF QuietUnsubscribed
<1>6. InboxInOrder' /\ OnlyAbandonedAreOvertaken'
  BY <1>1 DEF InboxInOrder, OnlyAbandonedAreOvertaken
<1>7. SentInOrder'
  <2>1. \A n : NotAfter(n) => NotAfter(n)'
    BY <1>1 DEF NotAfter
  <2>2. QED
    BY <1>1, <2>1 DEF SentInOrder
<1>8. SentIsAwaited'
  <2>1. ASSUME NEW o \in FeedOrders, way'[o] = "sent"
        PROVE  o \in abandoned' \/ (o[1] = update'.no /\ o[2] \in tasks')
    <3>1. CASE o = Order(l)
      BY <1>1, <2>1, <3>1
    <3>2. CASE o # Order(l)
      <4>1. ~(o[1] = update.no /\ o[2] = l)
        BY <1>2, <3>2, OrderParts
      <4>2. QED
        BY <1>1, <2>1, <4>1 DEF SentIsAwaited
    <3>3. QED
      BY <3>1, <3>2
  <2>2. QED
    BY <2>1 DEF SentIsAwaited
<1>9. ShownIsPending'
  <2>1. ~missed' => ~missed /\ posted \cup tasks \subseteq posted' \cup tasks'
    OBVIOUS
  <2>2. QED
    BY <1>1, <2>1 DEF ShownIsPending
<1>10. QED
  BY <1>3, <1>4, <1>5, <1>6, <1>7, <1>8, <1>9

\* The LOB executes an order of the feeder: what it overtakes was given up,
\* since the only calls that are waited for are those of the latest message.
LEMMA ExecuteFeedSafe ==
  ASSUME FeederInv, NEW o \in FeedOrders, ExecuteFeed(o)
  PROVE  FeederInv'
<1> USE DEF FeederInv, ExecuteFeed, Execute, feeder, kraken
<1>1. o[1] \in 1 .. MaxUpdates /\ newest \in 0 .. MaxUpdates /\ newest' \in 0 .. MaxUpdates
  BY OrderParts DEF FeederTypeOK
<1>2. /\ way' \in [Orders -> Ways] /\ way'[o] = "executed"
      /\ \A p \in Orders : p # o => way'[p] = way[p]
  BY UpdatesBounded DEF CallsTypeOK, Ways
<1>3. CallsTypeOK' /\ FeederTypeOK'
  BY <1>1, <1>2 DEF CallsTypeOK, FeederTypeOK
<1>4. InboxInOrder' /\ QuietUnsubscribed' /\ ShownIsPending'
  BY DEF InboxInOrder, QuietUnsubscribed, ShownIsPending
<1>5. SentInOrder'
  <2>1. \A n : NotAfter(n) => NotAfter(n)'
    BY DEF NotAfter
  <2>2. NotAfter(o[1]) /\ NotAfter(newest)
    BY DEF SentInOrder
  <2>3. \A p \in FeedOrders : way'[p] # "none" => way[p] # "none"
    BY <1>2, UpdatesBounded
  <2>4. QED
    BY <2>1, <2>2, <2>3 DEF SentInOrder
<1>6. SentIsAwaited'
  BY <1>2, UpdatesBounded DEF SentIsAwaited
<1>7. OnlyAbandonedAreOvertaken'
  <2>1. ASSUME o[1] < newest PROVE o \in abandoned
    <3>1. SUFFICES ASSUME o[1] = update.no, o[2] \in tasks PROVE FALSE
      BY DEF SentIsAwaited
    <3>2. newest <= update.no
      BY <3>1 DEF SentInOrder, NotAfter
    <3>3. QED
      BY <1>1, <2>1, <3>1, <3>2
  <2>2. QED
    BY <2>1 DEF OnlyAbandonedAreOvertaken
<1>8. QED
  BY <1>3, <1>4, <1>5, <1>6, <1>7

\* The connection to Kraken breaks, or the feeder stops or starts: nothing is
\* under way any more, and the calls that were are given up.
LEMMA InterruptSafe ==
  ASSUME FeederInv, WebSocketError \/ FeederStops \/ FeederStarts
  PROVE  FeederInv'
<1> USE DEF FeederInv, WebSocketError, FeederStops, FeederStarts, kraken, fhistory, calls, Fault
<1>1. /\ tasks' = {} /\ inbox' = <<>> /\ feed' \in {"connect", "stopped"}
      /\ way' = way /\ newest' = newest /\ updates' = updates /\ overtaken' = overtaken
      /\ abandoned \subseteq abandoned'
      /\ \A l \in tasks : Order(l) \in abandoned'
  BY DEF FeederTypeOK, QuietUnsubscribed
<1>2. CallsTypeOK'
  BY FaultAssumption DEF CallsTypeOK
<1>3. FeederTypeOK'
  <2>1. abandoned' \subseteq FeedOrders
    BY OrderOfTask DEF FeederTypeOK
  <2>2. update' \in Messages /\ inbox' \in Seq(Messages)
    BY <1>1, NothingIsMessage DEF FeederTypeOK
  <2>3. shown' = shown /\ posted' = posted /\ missed' = missed
    OBVIOUS
  <2>4. QED
    BY <1>1, <2>1, <2>2, <2>3 DEF FeederTypeOK
<1>4. InboxInOrder' /\ QuietUnsubscribed' /\ OnlyAbandonedAreOvertaken' /\ ShownIsPending'
  BY <1>1 DEF InboxInOrder, QuietUnsubscribed, OnlyAbandonedAreOvertaken, ShownIsPending
<1>5. SentInOrder'
  BY <1>1 DEF SentInOrder, NotAfter
<1>6. SentIsAwaited'
  <2>1. ASSUME NEW o \in FeedOrders, o[1] = update.no, o[2] \in tasks PROVE o \in abandoned'
    BY <1>1, <2>1, OrderOfTask, OrderParts
  <2>2. QED
    BY <1>1, <2>1 DEF SentIsAwaited
<1>7. QED
  BY <1>2, <1>3, <1>4, <1>5, <1>6

\* The LOB dies or starts, or a call of the proxy moves.
LEMMA OthersKeepFeederInv ==
  ASSUME FeederInv, UNCHANGED fd, CallsTypeOK',
         \A o \in FeedOrders : way'[o] = way[o] \/ (way[o] = "sent" /\ way'[o] = "gone")
  PROVE  FeederInv'
<1> USE DEF FeederInv, fd, feeder, kraken, fhistory
<1>1. FeederTypeOK' /\ QuietUnsubscribed' /\ InboxInOrder' /\ OnlyAbandonedAreOvertaken' /\ ShownIsPending'
  BY DEF FeederTypeOK, QuietUnsubscribed, InboxInOrder, OnlyAbandonedAreOvertaken, ShownIsPending
<1>2. SentInOrder' /\ SentIsAwaited'
  BY DEF SentInOrder, NotAfter, SentIsAwaited
<1>3. QED
  BY <1>1, <1>2
-----------------------------------------------------------------------------
(* Both of them, over one LOB.                                             *)

IInv == FeederInv /\ ProxyInv

LEMMA OrdersApart ==
  /\ Orders = FeedOrders \cup ProxyOrders
  /\ \A o \in FeedOrders : o \notin ProxyOrders
BY PlanAssumption

\* A step of the feeder moves none of the proxy's calls.
LEMMA FeederKeepsProxyInv ==
  ASSUME IInv, CallsTypeOK', UNCHANGED px,
         \A o \in ProxyOrders : way'[o] = way[o]
  PROVE  ProxyInv'
BY DEF IInv, ProxyInv, ProxyTypeOK, OnlyLastWasSent, UnderWayIsAttempt, px, ProxyOrders

LEMMA FeederNextSafe ==
  ASSUME IInv, FeederNext, UNCHANGED px
  PROVE  IInv'
<1>1. FeederInv'
  BY KrakenUpdatesSafe, ConnectSafe, ReadUpdateSafe, PostOrderSafe, SettleSafe,
     ExecuteFeedSafe, InterruptSafe
  DEF IInv, FeederNext, FeederStep
<1>2. \A o \in ProxyOrders : way'[o] = way[o]
  <2>1. CASE \E l \in Levels : PostOrder(l)
    <3>1. PICK l \in Levels : PostOrder(l)
      BY <2>1
    <3>2. Order(l) \in FeedOrders
      BY <3>1, OrderOfTask DEF IInv, PostOrder
    <3>3. QED
      BY <3>1, <3>2, OrdersApart DEF PostOrder, Send, IInv, ProxyInv, CallsTypeOK
  <2>2. CASE \E o \in FeedOrders : ExecuteFeed(o)
    BY <2>2, OrdersApart DEF ExecuteFeed, Execute, IInv, ProxyInv, CallsTypeOK
  <2>3. CASE (\E L \in SUBSET Levels : KrakenUpdates(L)) \/ Connect \/ ReadUpdate
    BY <2>3 DEF KrakenUpdates, Connect, ReadUpdate, calls
  <2>4. CASE \E l \in Levels : OrderPlaced(l) \/ OrderFails(l)
    BY <2>4 DEF OrderPlaced, OrderFails, calls
  <2>5. CASE WebSocketError \/ FeederStops \/ FeederStarts
    BY <2>5 DEF WebSocketError, FeederStops, FeederStarts, calls
  <2>6. QED
    BY <2>1, <2>2, <2>3, <2>4, <2>5 DEF FeederNext, FeederStep
<1>3. ProxyInv'
  BY <1>1, <1>2, FeederKeepsProxyInv DEF FeederInv
<1>4. QED
  BY <1>1, <1>3 DEF IInv

LEMMA ProxyNextSafe ==
  ASSUME IInv, ProxyNext, UNCHANGED fd
  PROVE  IInv'
<1>1. ProxyInv'
  BY RequestKeepsProxyInv, ProxyStepKeepsProxyInv, RestartKeepsProxyInv DEF IInv, ProxyNext
<1>2. \A o \in FeedOrders : way'[o] = way[o]
  <2>1. CASE \E r \in Requests : Forward(r)
    <3>1. PICK r \in Requests : Forward(r)
      BY <2>1
    <3>2. way' = [way EXCEPT ![Call(r)] = "sent"]
      BY <3>1 DEF Forward, Send
    <3>3. \A o \in FeedOrders : o # Call(r)
      <4>1. attempt[r] \in 1 .. MaxAttempts
        BY <3>1 DEF Forward, IInv, ProxyInv, UnderWayIsAttempt, InProxy
      <4>2. QED
        BY <4>1, OrdersApart DEF Call, ProxyOrders
    <3>4. QED
      BY <3>2, <3>3, OrdersApart DEF IInv, ProxyInv, CallsTypeOK
  <2>2. CASE \E r \in Requests : Request(r) \/ SqlFirewall(r) \/ LogSecurityEvent(r) \/ RateLimit(r)
    BY <2>2 DEF Request, SqlFirewall, LogSecurityEvent, RateLimit, calls
  <2>3. CASE \E r \in Requests : Unavailable(r) \/ UpstreamAnswers(r) \/ UpstreamTimeout(r)
                                  \/ ConnectionBreaks(r)
    BY <2>3 DEF Unavailable, UpstreamAnswers, UpstreamTimeout, ConnectionBreaks, calls
  <2>4. CASE ProxyRestart
    BY <2>4 DEF ProxyRestart
  <2>5. QED
    BY <2>1, <2>2, <2>3, <2>4 DEF ProxyNext, ProxyStep
<1>3. FeederInv'
  BY <1>1, <1>2, OthersKeepFeederInv DEF IInv, ProxyInv
<1>4. QED
  BY <1>1, <1>3 DEF IInv

LEMMA LobSafe ==
  ASSUME IInv, UNCHANGED <<fd, px>>,
         (\E o \in ProxyOrders : Execute(o)) \/ LobCrash \/ LobStart
  PROVE  IInv'
<1>1. ProxyInv'
  <2>1. CASE \E o \in ProxyOrders : Execute(o)
    BY <2>1, CallsKeepProxyInv, OrdersApart DEF IInv
  <2>2. CASE LobCrash \/ LobStart
    BY <2>2, CallsKeepProxyInv DEF IInv
  <2>3. QED
    BY <2>1, <2>2
<1>2. \A o \in FeedOrders : way'[o] = way[o] \/ (way[o] = "sent" /\ way'[o] = "gone")
  <2>1. CASE \E o \in ProxyOrders : Execute(o)
    BY <2>1, OrdersApart DEF Execute, IInv, ProxyInv, CallsTypeOK
  <2>2. CASE LobCrash \/ LobStart
    BY <2>2, OrdersApart DEF LobCrash, LobStart
  <2>3. QED
    BY <2>1, <2>2
<1>3. FeederInv'
  BY <1>1, <1>2, OthersKeepFeederInv DEF IInv, ProxyInv
<1>4. QED
  BY <1>1, <1>3 DEF IInv

LEMMA IInvStep == IInv /\ [Next]_vars => IInv'
<1> SUFFICES ASSUME IInv, [Next]_vars PROVE IInv'
  OBVIOUS
<1>1. CASE FeederNext /\ UNCHANGED px
  BY <1>1, FeederNextSafe
<1>2. CASE ProxyNext /\ UNCHANGED fd
  BY <1>2, ProxyNextSafe
<1>3. CASE ((\E o \in ProxyOrders : Execute(o)) \/ LobCrash \/ LobStart) /\ UNCHANGED <<fd, px>>
  BY <1>3, LobSafe
<1>4. CASE UNCHANGED vars
  <2>1. UNCHANGED <<fd, px>> /\ CallsTypeOK' /\ way' = way
    BY <1>4 DEF vars, calls, IInv, ProxyInv, CallsTypeOK
  <2>2. ProxyInv'
    BY <2>1, FeederKeepsProxyInv
  <2>3. FeederInv'
    BY <2>1, OthersKeepFeederInv DEF IInv
  <2>4. QED
    BY <2>2, <2>3 DEF IInv
<1>5. QED
  BY <1>1, <1>2, <1>3, <1>4 DEF Next

LEMMA Invariance == Spec => []IInv
<1>1. Init => IInv
  BY FeederInvInit, ProxyInvInit DEF IInv
<1>2. QED
  BY <1>1, IInvStep, PTL DEF Spec

\* Every variable has its type; in particular the feeder waits for orders
\* exactly while some are under way (kraken_feeder.py:112-119).
THEOREM TypeCorrect == Spec => []TypeOK
<1>1. IInv => TypeOK
  BY DEF IInv, FeederInv, ProxyInv, TypeOK
<1>2. QED
  BY <1>1, Invariance, PTL

\* The feeder's gather keeps the orders of different messages apart: only a
\* call that was given up is overtaken (kraken_feeder.py:113-119, 47).
THEOREM MessagesKeepTheirOrder == Spec => []OnlyAbandonedAreOvertaken
<1>1. IInv => OnlyAbandonedAreOvertaken
  BY DEF IInv, FeederInv
<1>2. QED
  BY <1>1, Invariance, PTL

\* A feeder that has read all there is has posted every level that Kraken
\* shows, unless a post has failed (kraken_feeder.py:63-119).
THEOREM LevelsArePosted == Spec => []ShownLevelsArePosted
<1>1. IInv => ShownLevelsArePosted
  BY DEF IInv, FeederInv, FeederTypeOK, ShownIsPending, ShownLevelsArePosted
<1>2. QED
  BY <1>1, Invariance, PTL

\* The proxy answers 502 only for a call it has not sent, so a client that
\* tries again then places its order once (main.py:83-105).
THEOREM OrdersArePlacedOnce == Spec => []AtMostOnce
<1>1. ASSUME IInv, NEW r \in Requests
      PROVE  Cardinality({k \in 1 .. MaxAttempts : way[<<r, k>>] = "executed"}) <= 1
  <2>1. {k \in 1 .. MaxAttempts : way[<<r, k>>] = "executed"} \subseteq {attempt[r]}
    BY <1>1 DEF IInv, ProxyInv, OnlyLastWasSent
  <2>2. IsFiniteSet({attempt[r]}) /\ Cardinality({attempt[r]}) = 1
    BY FS_Singleton
  <2>3. QED
    BY <2>1, <2>2, FS_Subset, FS_CardinalityType
<1>2. IInv => AtMostOnce
  BY <1>1 DEF AtMostOnce
<1>3. QED
  BY <1>2, Invariance, PTL

=============================================================================
