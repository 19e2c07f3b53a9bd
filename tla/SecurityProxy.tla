---------------------------- MODULE SecurityProxy ---------------------------
(***************************************************************************)
(* module5_security/main.py and sql_firewall.py: a request passes the      *)
(* filter, then the rate limiter, and is forwarded to the LOB.  What the   *)
(* limiter decides is open here: RateLimiter models it.                    *)
(*                                                                         *)
(* The clients place one order each, and try again only when the answer    *)
(* says that it was not placed: 429 or 502.                                *)
(***************************************************************************)
EXTENDS LobCalls

CONSTANTS
  Requests,    \* the clients' orders
  Suspicious,  \* those the filter refuses
  MaxAttempts  \* bound: the attempts of a client

ASSUME RequestAssumption ==
  /\ Suspicious \subseteq Requests /\ MaxAttempts \in Nat
  /\ Requests \X (1 .. MaxAttempts) \subseteq Orders

VARIABLES
  pc,       \* where the proxy is with each request
  attempt,  \* the attempts of each client: they may be used up from the beginning
  answer    \* the last status each client got; 0: none

px == <<pc, attempt, answer>>

ProxyOrders == Requests \X (1 .. MaxAttempts)
InProxy == {"filter", "log", "limit", "forward", "wait"}
Statuses == {0, 201, 403, 429, 500, 502, 504}
NotPlaced == {429, 502}

ProxyTypeOK ==
  /\ pc \in [Requests -> InProxy \cup {"client"}]
  /\ attempt \in [Requests -> 0 .. MaxAttempts]
  /\ answer \in [Requests -> Statuses]

ProxyInit ==
  /\ pc = [r \in Requests |-> "client"]
  /\ attempt \in [Requests -> {0, MaxAttempts}]
  /\ answer = [r \in Requests |-> 0]

Goto(r, step) == pc' = [pc EXCEPT ![r] = step]
Answer(r, status) == Goto(r, "client") /\ answer' = [answer EXCEPT ![r] = status]
Call(r) == <<r, attempt[r]>>

\* The first attempt, or another one after an answer that invites it.
Request(r) ==
  /\ pc[r] = "client" /\ attempt[r] < MaxAttempts
  /\ attempt[r] = 0 \/ answer[r] \in NotPlaced
  /\ attempt' = [attempt EXCEPT ![r] = @ + 1]
  /\ Goto(r, "filter")
  /\ UNCHANGED <<answer, calls>>

\* sql_firewall, registered last, runs first.
SqlFirewall(r) ==
  /\ pc[r] = "filter"
  /\ Goto(r, IF r \in Suspicious THEN "log" ELSE "limit")
  /\ UNCHANGED <<attempt, answer, calls>>

\* The event is written to the database, or not; the request is refused.  The
\* statement has no time-out: that the database answers is assumed.
LogSecurityEvent(r) ==
  /\ pc[r] = "log" /\ Answer(r, 403)
  /\ UNCHANGED <<attempt, calls>>

RateLimit(r) ==
  /\ pc[r] = "limit"
  /\ (Goto(r, "forward") /\ UNCHANGED answer) \/ Answer(r, 429)
  /\ UNCHANGED <<attempt, calls>>

Forward(r) ==
  /\ pc[r] = "forward" /\ Send(Call(r))
  /\ Goto(r, "wait")
  /\ UNCHANGED <<lob_up, faults, attempt, answer>>

\* ConnectError.
Unavailable(r) ==
  /\ pc[r] = "forward" /\ ~lob_up
  /\ Answer(r, 502)
  /\ UNCHANGED <<attempt, calls>>

\* The orders are valid: what the LOB refuses with a 4xx, and the proxy passes
\* on, is left out.
UpstreamAnswers(r) ==
  /\ pc[r] = "wait" /\ way[Call(r)] = "executed"
  /\ Answer(r, 201)
  /\ UNCHANGED <<attempt, calls>>

\* Mutant: one handler for all errors of httpx.
UpstreamTimeout502(r) ==
  /\ pc[r] \in {"forward", "wait"} /\ Answer(r, 502)
  /\ UNCHANGED <<attempt, calls>>

\* TimeoutException: after 10 seconds, while connecting or while waiting.
UpstreamTimeout(r) ==
  /\ pc[r] \in {"forward", "wait"} /\ Answer(r, 504)
  /\ UNCHANGED <<attempt, calls>>

\* The connection breaks: an error that _proxy does not catch.
ConnectionBreaks(r) ==
  /\ pc[r] = "wait" /\ Answer(r, 500)
  /\ IF way[Call(r)] = "gone" THEN UNCHANGED faults ELSE Fault
  /\ UNCHANGED <<lob_up, way, attempt>>

\* The proxy dies: its clients get no answer.
ProxyRestart ==
  /\ \E r \in Requests : pc[r] \in InProxy
  /\ Fault
  /\ pc' = [r \in Requests |-> "client"]
  /\ answer' = [r \in Requests |-> IF pc[r] \in InProxy THEN 0 ELSE answer[r]]
  /\ UNCHANGED <<lob_up, way, attempt>>

ProxyStep(r) ==
  \/ SqlFirewall(r) \/ LogSecurityEvent(r) \/ RateLimit(r)
  \/ Forward(r) \/ Unavailable(r) \/ UpstreamAnswers(r) \/ UpstreamTimeout(r)

ProxyNext ==
  \/ \E r \in Requests : Request(r) \/ ProxyStep(r) \/ ConnectionBreaks(r)
  \/ ProxyRestart
=============================================================================
