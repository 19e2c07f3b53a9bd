----------------------------- MODULE OrderEntry -----------------------------
(***************************************************************************)
(* The two ways by which orders enter the LOB over HTTP: the Kraken feeder *)
(* posts them itself, clients through the security proxy.                  *)
(***************************************************************************)
EXTENDS KrakenFeeder, SecurityProxy

CONSTANT Plans  \* bound: Kraken's first book, its messages, and the clients of a behaviour

ASSUME PlanAssumption ==
  /\ Plans \subseteq [shown : SUBSET Levels, updates : 0 .. MaxUpdates, clients : SUBSET Requests]
  /\ Orders = FeedOrders \cup ProxyOrders /\ FeedOrders \cap ProxyOrders = {}

vars == <<calls, fd, px>>

TypeOK == CallsTypeOK /\ FeederTypeOK /\ ProxyTypeOK

Planned(p) ==
  /\ shown = p.shown /\ updates = MaxUpdates - p.updates
  /\ p.clients = {r \in Requests : attempt[r] = 0}

Init ==
  /\ CallsInit /\ FeederInit /\ ProxyInit
  /\ \E p \in Plans : Planned(p)

Next ==
  \/ FeederNext /\ UNCHANGED px
  \/ ProxyNext /\ UNCHANGED fd
  \/ (\E o \in ProxyOrders : Execute(o)) /\ UNCHANGED <<fd, px>>
  \/ (LobCrash \/ LobStart) /\ UNCHANGED <<fd, px>>

Spec == Init /\ [][Next]_vars

\* The feeder and the proxy keep running; nothing is asked of the LOB.
FairSpec ==
  /\ Spec
  /\ WF_vars(FeederStep /\ UNCHANGED px)
  /\ \A r \in Requests : WF_vars(ProxyStep(r) /\ UNCHANGED fd)

-----------------------------------------------------------------------------

\* The orders of a message of Kraken reach the book before those of the next
\* one, although the orders of one message are posted in any order: only a call
\* the feeder has given up can be overtaken.
OnlyAbandonedAreOvertaken == overtaken \subseteq abandoned

\* Once the feeder has read all there is, the LOB has been sent every level
\* Kraken shows, if no post has failed since the subscription: reconnecting
\* loses nothing.
ShownLevelsArePosted ==
  feed = "recv" /\ inbox = <<>> /\ ~missed => shown \subseteq posted

\* A client that tries again after 429 and 502 only places its order once at
\* most, however late the LOB executes a call that was given up.
AtMostOnce ==
  \A r \in Requests :
    Cardinality({k \in 1 .. MaxAttempts : way[<<r, k>>] = "executed"}) <= 1

\* Whatever becomes of the LOB, the feeder does not wait for the orders of a
\* message for ever, and every request to the proxy is answered.
NobodyWaitsForEver ==
  []<>(feed # "send") /\ \A r \in Requests : []<>(pc[r] = "client")
=============================================================================
