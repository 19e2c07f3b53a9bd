---------------------------- MODULE DepthStream -----------------------------
(***************************************************************************)
(* The WebSocket depth stream of one symbol in module1_lob/lob_server.cpp: *)
(* ws_subscribe, ws_unsubscribe, broadcast_depth and the two callbacks of  *)
(* DepthStreamController.                                                  *)
(*                                                                         *)
(* broadcast_depth reads the book under the symbol's lock, copies the      *)
(* subscribers under ws_sub_mutex and sends with neither lock held, so the *)
(* broadcasts of different threads overlap.  A top-5 depth is represented  *)
(* by the number of book changes before it.  The handlers that change the  *)
(* book are LobServer's; here they are one action.                         *)
(***************************************************************************)
EXTENDS Integers, Sequences, SequencesExt

CONSTANTS
  Threads,    \* the worker threads, which also run the WebSocket callbacks
  Clients,    \* the WebSocket connections that are made in a run
  NoClient,
  MaxChanges  \* bound: the changes of the book in a run

ASSUME NoClientAssumption == NoClient \notin Clients

ASSUME ChangesAssumption == MaxChanges \in Nat

VARIABLES
  depth,    \* the depth of the book now
  subs,     \* ws_subscribers[sym]
  conn,     \* the state of each connection
  inbox,    \* the depths each client was sent, in order
  pc,       \* where each thread is in broadcast_depth
  payload,  \* the depth it read
  targets,  \* the connections it still has to send to
  serving   \* the connection whose handleNewConnection it runs

vars == <<depth, subs, conn, inbox, pc, payload, targets, serving>>

\* A connection is made, then open, then dropped by the peer, then forgotten
\* by handleConnectionClosed.
Stages == {"none", "open", "dropped", "gone"}

Init ==
  /\ depth = 0 /\ subs = {}
  /\ conn = [c \in Clients |-> "none"]
  /\ inbox = [c \in Clients |-> <<>>]
  /\ pc = [t \in Threads |-> "idle"]
  /\ payload = [t \in Threads |-> 0]
  /\ targets = [t \in Threads |-> {}]
  /\ serving = [t \in Threads |-> NoClient]

\* Mutant: the depth to broadcast is read before the book is changed.
ChangeBookAfterRead(t) ==
  /\ pc[t] = "idle" /\ depth < MaxChanges
  /\ depth' = depth + 1
  /\ payload' = [payload EXCEPT ![t] = depth]
  /\ pc' = [pc EXCEPT ![t] = "targets"]
  /\ UNCHANGED <<subs, conn, inbox, targets, serving>>

\* A handler has changed the book under the symbol's lock and released it.
ChangeBook(t) ==
  /\ pc[t] = "idle" /\ depth < MaxChanges
  /\ depth' = depth + 1
  /\ pc' = [pc EXCEPT ![t] = "snap"]
  /\ UNCHANGED <<subs, conn, inbox, payload, targets, serving>>

\* handleNewConnection: ws_subscribe, then broadcast_depth.
Connect(t, c) ==
  /\ pc[t] = "idle" /\ conn[c] = "none"
  /\ conn' = [conn EXCEPT ![c] = "open"]
  /\ subs' = subs \cup {c}
  /\ serving' = [serving EXCEPT ![t] = c]
  /\ pc' = [pc EXCEPT ![t] = "snap"]
  /\ UNCHANGED <<depth, inbox, payload, targets>>

\* The peer goes away.  The connection's events are handled one after another,
\* so not before handleNewConnection has returned.
Drop(c) ==
  /\ conn[c] = "open" /\ \A t \in Threads : serving[t] # c
  /\ conn' = [conn EXCEPT ![c] = "dropped"]
  /\ UNCHANGED <<depth, subs, inbox, pc, payload, targets, serving>>

\* handleConnectionClosed: ws_unsubscribe.
Forget(c) ==
  /\ conn[c] = "dropped"
  /\ conn' = [conn EXCEPT ![c] = "gone"]
  /\ subs' = subs \ {c}
  /\ UNCHANGED <<depth, inbox, pc, payload, targets, serving>>

\* The depth is read under the symbol's lock.
Snapshot(t) ==
  /\ pc[t] = "snap"
  /\ payload' = [payload EXCEPT ![t] = depth]
  /\ pc' = [pc EXCEPT ![t] = "targets"]
  /\ UNCHANGED <<depth, subs, conn, inbox, targets, serving>>

\* broadcast_depth returns, and the handler or callback that called it.
Return(t) ==
  /\ pc' = [pc EXCEPT ![t] = "idle"]
  /\ payload' = [payload EXCEPT ![t] = 0]
  /\ serving' = [serving EXCEPT ![t] = NoClient]

\* Mutant: no early return when nobody subscribes.
CopyTargetsAlways(t) ==
  /\ pc[t] = "targets"
  /\ targets' = [targets EXCEPT ![t] = subs]
  /\ pc' = [pc EXCEPT ![t] = "send"]
  /\ UNCHANGED <<depth, subs, conn, inbox, payload, serving>>

\* The subscribers are copied under ws_sub_mutex; without any, the broadcast is over.
CopyTargets(t) ==
  /\ pc[t] = "targets"
  /\ targets' = [targets EXCEPT ![t] = subs]
  /\ IF subs = {}
     THEN Return(t)
     ELSE /\ pc' = [pc EXCEPT ![t] = "send"]
          /\ UNCHANGED <<payload, serving>>
  /\ UNCHANGED <<depth, subs, conn, inbox>>

\* Mutant: the loop over the targets ends after the first of them.
SendFirst(t, c) ==
  /\ pc[t] = "send" /\ c \in targets[t]
  /\ inbox' = [inbox EXCEPT ![c] = IF conn[c] = "open" THEN Append(@, payload[t]) ELSE @]
  /\ targets' = [targets EXCEPT ![t] = {}]
  /\ Return(t)
  /\ UNCHANGED <<depth, subs, conn>>

\* One connection is sent the payload if it is still connected.
Send(t, c) ==
  /\ pc[t] = "send" /\ c \in targets[t]
  /\ inbox' = [inbox EXCEPT ![c] = IF conn[c] = "open" THEN Append(@, payload[t]) ELSE @]
  /\ targets' = [targets EXCEPT ![t] = @ \ {c}]
  /\ IF targets[t] = {c} THEN Return(t) ELSE UNCHANGED <<pc, payload, serving>>
  /\ UNCHANGED <<depth, subs, conn>>

Broadcast(t) == Snapshot(t) \/ CopyTargets(t) \/ \E c \in Clients : Send(t, c)

Next ==
  \/ \E t \in Threads : ChangeBook(t) \/ Broadcast(t)
  \/ \E t \in Threads, c \in Clients : Connect(t, c)
  \/ \E c \in Clients : Drop(c) \/ Forget(c)

Spec == Init /\ [][Next]_vars

\* A thread that is inside broadcast_depth goes on.
FairSpec == Spec /\ \A t \in Threads : WF_vars(Broadcast(t))

-----------------------------------------------------------------------------
(* Properties.                                                             *)

\* Every variable has its type; a thread has targets exactly while it sends,
\* and serves a connection only inside broadcast_depth.
TypeOK ==
  /\ depth \in Nat
  /\ subs \subseteq Clients
  /\ conn \in [Clients -> Stages]
  /\ inbox \in [Clients -> Seq(Nat)]
  /\ pc \in [Threads -> {"idle", "snap", "targets", "send"}]
  /\ payload \in [Threads -> Nat]
  /\ targets \in [Threads -> SUBSET Clients]
  /\ serving \in [Threads -> Clients \cup {NoClient}]
  /\ \A t \in Threads : /\ pc[t] = "send" <=> targets[t] # {}
                        /\ pc[t] = "idle" => serving[t] = NoClient

\* A thread that will still send client c the depth of the book as it is now.
Brings(t, c) ==
  \/ pc[t] = "snap"
  \/ pc[t] = "targets" /\ payload[t] = depth
  \/ pc[t] = "send" /\ payload[t] = depth /\ c \in targets[t]

Received(c) == {inbox[c][i] : i \in 1 .. Len(inbox[c])}

\* No update is lost: an open client was sent the depth of the book as it is
\* now, or some thread's broadcast will still bring it, even if the client
\* subscribed or the book changed between the steps of other broadcasts.
NoUpdateLost ==
  \A c \in Clients :
    conn[c] = "open" => depth \in Received(c) \/ \E t \in Threads : Brings(t, c)

\* Every depth the book takes while a client is connected, or a later one, is
\* sent to it in the end, unless it goes away.
EveryChangeArrives ==
  \A c \in Clients : \A v \in 0 .. MaxChanges :
    (conn[c] = "open" /\ depth = v)
      ~> (conn[c] # "open" \/ \E w \in Received(c) : w >= v)

=============================================================================
