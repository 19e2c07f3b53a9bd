------------------------------ MODULE LobCalls ------------------------------
(***************************************************************************)
(* HTTP calls that place orders in the LOB (httpx), as the Kraken feeder   *)
(* and the security proxy make them: each on a connection of its own, and  *)
(* given up after a time.  A call that was sent can be executed long after *)
(* its caller has stopped waiting for it.                                  *)
(***************************************************************************)
EXTENDS Integers, FiniteSets, SequencesExt

CONSTANTS
  Orders,    \* the calls, one for each order to place
  MaxFaults  \* bound: crashes, restarts and connections that break

ASSUME FaultAssumption == MaxFaults \in Nat

VARIABLES
  lob_up,  \* whether the LOB accepts connections
  way,     \* how far each call has come
  faults   \* history: the faults so far

calls == <<lob_up, way, faults>>

Ways == {"none", "sent", "executed", "gone"}

CallsTypeOK ==
  lob_up \in BOOLEAN /\ way \in [Orders -> Ways] /\ faults \in 0 .. MaxFaults

CallsInit ==
  lob_up = TRUE /\ way = [o \in Orders |-> "none"] /\ faults = 0

Fault == faults < MaxFaults /\ faults' = faults + 1

\* The connection is made and the call sent.
Send(o) == lob_up /\ way[o] = "none" /\ way' = [way EXCEPT ![o] = "sent"]

\* The LOB places the order.
Execute(o) ==
  /\ lob_up /\ way[o] = "sent"
  /\ way' = [way EXCEPT ![o] = "executed"]
  /\ UNCHANGED <<lob_up, faults>>

\* The LOB dies with the calls that have reached it; their connections break.
LobCrash ==
  /\ lob_up /\ Fault
  /\ lob_up' = FALSE
  /\ way' = [o \in Orders |-> IF way[o] = "sent" THEN "gone" ELSE way[o]]

LobStart == ~lob_up /\ lob_up' = TRUE /\ UNCHANGED <<way, faults>>
=============================================================================
