-------------------------- MODULE DepthStreamProofs -------------------------
(***************************************************************************)
(* Proofs about DepthStream, for any number of threads, clients and book   *)
(* changes.                                                                *)
(***************************************************************************)
EXTENDS DepthStream, TLAPS

\* An open connection is subscribed.
OpenIsSubscribed == \A c \in Clients : conn[c] = "open" => c \in subs

IInv == TypeOK /\ OpenIsSubscribed /\ NoUpdateLost

USE DEF Stages

-----------------------------------------------------------------------------
(* Types.                                                                  *)

\* A thread whose broadcast is over is idle and serves nobody.
LEMMA ReturnTypes ==
  ASSUME TypeOK, NEW t \in Threads, Return(t)
  PROVE  /\ pc' \in [Threads -> {"idle", "snap", "targets", "send"}]
         /\ payload' \in [Threads -> Nat]
         /\ serving' \in [Threads -> Clients \cup {NoClient}]
         /\ pc'[t] = "idle" /\ serving'[t] = NoClient
         /\ \A u \in Threads \ {t} : pc'[u] = pc[u] /\ serving'[u] = serving[u]
<1>1. pc' \in [Threads -> {"idle", "snap", "targets", "send"}] /\ payload' \in [Threads -> Nat]
  BY DEF TypeOK, Return
<1>2. serving' \in [Threads -> Clients \cup {NoClient}]
  BY DEF TypeOK, Return
<1>3. QED
  BY <1>1, <1>2 DEF TypeOK, Return

LEMMA SendTypes ==
  ASSUME TypeOK, NEW t \in Threads, NEW c \in Clients, Send(t, c)
  PROVE  TypeOK'
<1>1. payload[t] \in Nat
  BY DEF TypeOK
<1>2. \A s \in Seq(Nat) : Append(s, payload[t]) \in Seq(Nat)
  BY <1>1
<1>3. inbox' \in [Clients -> Seq(Nat)]
  BY <1>2 DEF TypeOK, Send
<1>4. targets' \in [Threads -> SUBSET Clients] /\ targets'[t] = targets[t] \ {c}
  BY DEF TypeOK, Send
<1>5. CASE targets[t] = {c}
  <2>1. targets'[t] = {}
    BY <1>4, <1>5
  <2>2. QED
    BY <1>3, <1>4, <1>5, <2>1, ReturnTypes DEF TypeOK, Send
<1>6. CASE targets[t] # {c}
  <2>1. targets'[t] # {}
    BY <1>4, <1>6 DEF Send
  <2>2. QED
    BY <1>3, <1>4, <1>6, <2>1 DEF TypeOK, Send
<1>7. QED
  BY <1>5, <1>6

LEMMA TypeStep == TypeOK /\ [Next]_vars => TypeOK'
<1> SUFFICES ASSUME TypeOK, [Next]_vars PROVE TypeOK'
  OBVIOUS
<1>1. ASSUME NEW t \in Threads, ChangeBook(t) PROVE TypeOK'
  BY <1>1 DEF TypeOK, ChangeBook
<1>2. ASSUME NEW t \in Threads, Snapshot(t) PROVE TypeOK'
  BY <1>2 DEF TypeOK, Snapshot
<1>3. ASSUME NEW t \in Threads, CopyTargets(t) PROVE TypeOK'
  <2>1. targets' \in [Threads -> SUBSET Clients] /\ targets'[t] = subs
        /\ \A u \in Threads \ {t} : targets'[u] = targets[u]
    BY <1>3 DEF TypeOK, CopyTargets
  <2>2. CASE subs = {}
    BY <1>3, <2>1, <2>2, ReturnTypes DEF TypeOK, CopyTargets
  <2>3. CASE subs # {}
    BY <1>3, <2>1, <2>3 DEF TypeOK, CopyTargets
  <2>4. QED
    BY <2>2, <2>3
<1>4. ASSUME NEW t \in Threads, NEW c \in Clients, Send(t, c) PROVE TypeOK'
  BY <1>4, SendTypes
<1>5. ASSUME NEW t \in Threads, NEW c \in Clients, Connect(t, c) PROVE TypeOK'
  BY <1>5 DEF TypeOK, Connect
<1>6. ASSUME NEW c \in Clients, Drop(c) PROVE TypeOK'
  BY <1>6 DEF TypeOK, Drop
<1>7. ASSUME NEW c \in Clients, Forget(c) PROVE TypeOK'
  BY <1>7 DEF TypeOK, Forget
<1>8. CASE UNCHANGED vars
  BY <1>8 DEF TypeOK, vars
<1>9. QED
  BY <1>1, <1>2, <1>3, <1>4, <1>5, <1>6, <1>7, <1>8 DEF Next, Broadcast

LEMMA TypeInit == Init => TypeOK
<1>1. <<>> \in Seq(Nat)
  OBVIOUS
<1>2. QED
  BY <1>1 DEF Init, TypeOK

-----------------------------------------------------------------------------
(* No update is lost.                                                      *)

LEMMA SubscribedStep ==
  ASSUME TypeOK, OpenIsSubscribed, [Next]_vars
  PROVE  OpenIsSubscribed'
<1>1. ASSUME NEW t \in Threads, ChangeBook(t) \/ Broadcast(t)
      PROVE  UNCHANGED <<conn, subs>>
  BY <1>1 DEF ChangeBook, Broadcast, Snapshot, CopyTargets, Send
<1>2. ASSUME NEW t \in Threads, NEW c \in Clients, Connect(t, c) PROVE OpenIsSubscribed'
  BY <1>2 DEF TypeOK, OpenIsSubscribed, Connect
<1>3. ASSUME NEW c \in Clients, Drop(c) \/ Forget(c) PROVE OpenIsSubscribed'
  BY <1>3 DEF TypeOK, OpenIsSubscribed, Drop, Forget
<1>4. QED
  BY <1>1, <1>2, <1>3 DEF Next, OpenIsSubscribed, vars

\* A message that was received stays received.
LEMMA AppendKeeps ==
  ASSUME NEW s \in Seq(Nat), NEW v \in Nat
  PROVE  {Append(s, v)[i] : i \in 1 .. Len(Append(s, v))} = {s[i] : i \in 1 .. Len(s)} \cup {v}
<1>1. Len(Append(s, v)) = Len(s) + 1 /\ Append(s, v)[Len(s) + 1] = v
  OBVIOUS
<1>2. \A i \in 1 .. Len(s) : Append(s, v)[i] = s[i]
  OBVIOUS
<1>3. 1 .. Len(s) + 1 = (1 .. Len(s)) \cup {Len(s) + 1}
  OBVIOUS
<1>4. QED
  BY <1>1, <1>2, <1>3

\* Sending to c gives c the payload, and takes from others nothing they wait for.
LEMMA SendDelivers ==
  ASSUME IInv, NEW t \in Threads, NEW c \in Clients, Send(t, c), NEW d \in Clients,
         conn'[d] = "open"
  PROVE  depth' \in Received(d)' \/ \E u \in Threads : Brings(u, d)'
<1>1. conn[d] = "open" /\ depth' = depth
  BY DEF Send
<1>2. inbox[d] \in Seq(Nat) /\ payload[t] \in Nat
  BY DEF IInv, TypeOK
<1>3. CASE depth \in Received(d)
  <2>1. CASE d = c
    <3>1. inbox'[d] = Append(inbox[d], payload[t])
      BY <1>1, <2>1 DEF Send, IInv, TypeOK
    <3>2. QED
      BY <1>1, <1>2, <1>3, <3>1, AppendKeeps DEF Received
  <2>2. CASE d # c
    BY <1>1, <1>3, <2>2 DEF Send, Received, IInv, TypeOK
  <2>3. QED
    BY <2>1, <2>2
<1>4. ASSUME NEW u \in Threads, Brings(u, d)
      PROVE  depth' \in Received(d)' \/ \E w \in Threads : Brings(w, d)'
  <2>1. CASE u # t
    BY <1>1, <1>4, <2>1 DEF Send, Return, Brings, IInv, TypeOK
  <2>2. CASE u = t /\ d = c
    <3>1. inbox'[d] = Append(inbox[d], payload[t]) /\ payload[t] = depth
      BY <1>1, <1>4, <2>2 DEF Send, Brings, IInv, TypeOK
    <3>2. QED
      BY <1>1, <1>2, <3>1, AppendKeeps DEF Received
  <2>3. CASE u = t /\ d # c
    <3>1. targets[t] # {c} /\ d \in targets[t] \ {c} /\ payload[t] = depth
      BY <1>4, <2>3 DEF Send, Brings
    <3>2. Brings(t, d)'
      BY <1>1, <3>1 DEF Send, Brings, IInv, TypeOK
    <3>3. QED
      BY <3>2
  <2>4. QED
    BY <2>1, <2>2, <2>3
<1>5. QED
  BY <1>1, <1>3, <1>4 DEF IInv, NoUpdateLost

LEMMA NoUpdateLostStep == IInv /\ [Next]_vars => NoUpdateLost'
<1> SUFFICES ASSUME IInv, [Next]_vars, NEW c \in Clients, conn'[c] = "open"
             PROVE  depth' \in Received(c)' \/ \E u \in Threads : Brings(u, c)'
  BY DEF NoUpdateLost
<1> USE DEF IInv
<1> DEFINE Goal == depth' \in Received(c)' \/ \E u \in Threads : Brings(u, c)'
<1>1. ASSUME NEW t \in Threads, ChangeBook(t) PROVE Goal
  <2>1. Brings(t, c)'
    BY <1>1 DEF ChangeBook, Brings, TypeOK
  <2>2. QED
    BY <2>1
<1>2. ASSUME NEW t \in Threads, NEW d \in Clients, Connect(t, d) PROVE Goal
  <2>1. Brings(t, c)'
    BY <1>2 DEF Connect, Brings, TypeOK
  <2>2. QED
    BY <2>1
<1>3. ASSUME NEW t \in Threads, Snapshot(t) PROVE Goal
  <2>1. Brings(t, c)'
    BY <1>3 DEF Snapshot, Brings, TypeOK
  <2>2. QED
    BY <2>1
<1>4. ASSUME NEW t \in Threads, CopyTargets(t) PROVE Goal
  <2>1. conn[c] = "open" /\ c \in subs /\ Received(c)' = Received(c) /\ depth' = depth
    BY <1>4 DEF CopyTargets, OpenIsSubscribed, Received
  <2>2. ASSUME NEW u \in Threads, Brings(u, c) PROVE Brings(u, c)'
    BY <1>4, <2>1, <2>2 DEF CopyTargets, Brings, TypeOK
  <2>3. QED
    BY <2>1, <2>2 DEF NoUpdateLost
<1>5. ASSUME NEW t \in Threads, NEW d \in Clients, Send(t, d) PROVE Goal
  BY <1>5, SendDelivers
<1>6. ASSUME NEW d \in Clients, Drop(d) \/ Forget(d) PROVE Goal
  <2>1. conn[c] = "open" /\ UNCHANGED <<depth, inbox, pc, payload, targets>>
    BY <1>6 DEF Drop, Forget, TypeOK
  <2>2. QED
    BY <2>1 DEF NoUpdateLost, Received, Brings
<1>7. CASE UNCHANGED vars
  BY <1>7 DEF vars, NoUpdateLost, Received, Brings
<1>8. QED
  BY <1>1, <1>2, <1>3, <1>4, <1>5, <1>6, <1>7 DEF Next, Broadcast

\* The subscribers, connections, messages and broadcasts in flight have their
\* types in every reachable state.
THEOREM TypeCorrect == Spec => []TypeOK
  BY TypeInit, TypeStep, PTL DEF Spec

\* Whenever a client is open it was sent the book's present depth, or some
\* broadcast under way will bring it: reading the depth before the subscribers
\* (lob_server.cpp:120-155) and subscribing before the first broadcast
\* (lob_server.cpp:182-185) loses nothing.
THEOREM UpdatesAreNeverLost == Spec => []NoUpdateLost
<1>1. Init => IInv
  BY TypeInit DEF Init, IInv, OpenIsSubscribed, NoUpdateLost
<1>2. IInv /\ [Next]_vars => IInv'
  BY TypeStep, SubscribedStep, NoUpdateLostStep DEF IInv
<1>3. IInv => NoUpdateLost
  BY DEF IInv
<1>4. QED
  BY <1>1, <1>2, <1>3, PTL DEF Spec

=============================================================================
