---------------------------- MODULE RateLimiter -----------------------------
(***************************************************************************)
(* module5_security/rate_limiter.py: a counter per client in Redis, begun  *)
(* by INCR and given its life by a separate EXPIRE, and a sliding window   *)
(* in the proxy's memory for when a call to Redis fails.                   *)
(*                                                                         *)
(* Time is counted in ticks.  A call that is answered is answered in the   *)
(* tick Redis executes it; a call is under way for at most Timeout ticks   *)
(* (socket_timeout), and one that fails may or may not have been executed. *)
(***************************************************************************)
EXTENDS Integers, FiniteSets, Sequences

CONSTANTS
  Clients,     \* IP addresses
  Requests,    \* bound: the requests handled at the same time
  Limit,       \* RATE_LIMIT: 1000 in the code
  Window,      \* WINDOW_SECONDS, in ticks
  Timeout,     \* socket_timeout, in ticks
  MaxTime,     \* bound: the ticks of a run
  MaxArrivals, \* bound: the requests of a client
  MaxFaults    \* bound: calls that fail and processes that restart

ASSUME LimitAssumption == Limit \in Nat \ {0} /\ Window \in Nat \ {0} /\ Timeout \in Nat

ASSUME RequestAssumption == Clients # {} /\ IsFiniteSet(Requests)

ASSUME BoundAssumption == MaxTime \in Nat /\ MaxArrivals \in Nat /\ MaxFaults \in Nat

Ticks == 0 .. MaxTime
Never == MaxTime + Window + 1   \* the expiry of a key without one

VARIABLES
  client,  \* whether the proxy has a Redis client at all
  keys,    \* the clients Redis has a key for
  count,   \* the value of each key
  expires, \* the tick at which each key expires
  window,  \* _local_windows: the ticks of the requests let through
  pc,      \* what each request waits for: "expire" or "local"
  from,    \* the client of each request
  due,     \* when its call times out at the latest
  now,     \* the tick
  asked,   \* history: the requests of each client up to each tick
  served,  \* history: those let through by each of the two checks, up to each tick
  refused, \* history: those answered with 429 in each tick
  faults   \* history: failed calls, Redis restarts, proxy restarts

redis == <<keys, count, expires>>
request == <<pc, from, due>>
vars == <<client, redis, window, request, now, asked, served, refused, faults>>

Checks == {"redis", "local"}
FaultKinds == {"call", "redis", "proxy"}

Zero == [c \in Clients |-> [t \in Ticks |-> 0]]

Init ==
  /\ client \in BOOLEAN
  /\ keys = {}
  /\ count = [c \in Clients |-> 0] /\ expires = [c \in Clients |-> Never]
  /\ window = [c \in Clients |-> <<>>]
  /\ pc = [r \in Requests |-> "idle"]
  /\ from = [r \in Requests |-> CHOOSE c \in Clients : TRUE]
  /\ due = [r \in Requests |-> 0]
  /\ now = 0 /\ asked = Zero /\ refused = Zero
  /\ served = [k \in Checks |-> Zero]
  /\ faults = [k \in FaultKinds |-> 0]

Faulty == faults["call"] + faults["redis"] + faults["proxy"]

Fault(k) == Faulty < MaxFaults /\ faults' = [faults EXCEPT ![k] = @ + 1]

\* What a history that counts up to each tick says of the ticks t .. u.
Between(h, c, t, u) == h[c][u] - (IF t > 0 THEN h[c][t - 1] ELSE 0)

\* The request is let through, or answered with 429.
Serve(k, c) ==
  served' = [served EXCEPT ![k][c][now] = @ + 1] /\ UNCHANGED refused

Refuse(c) ==
  refused' = [refused EXCEPT ![c][now] = @ + 1] /\ UNCHANGED served

\* A request of c arrives and waits for step next, or is answered at once.
Arrive(r, c, next) ==
  /\ pc[r] = "idle" /\ asked[c][now] < MaxArrivals
  /\ asked' = [asked EXCEPT ![c][now] = @ + 1]
  /\ pc' = [pc EXCEPT ![r] = next]
  /\ from' = [from EXCEPT ![r] = c]
  /\ due' = [due EXCEPT ![r] = now + Timeout]

Done(r) == pc' = [pc EXCEPT ![r] = "idle"] /\ UNCHANGED <<from, due>>

Value(c) == IF c \in keys THEN count[c] + 1 ELSE 1

\* Redis executes INCR; a key that is made has no expiry.
ExecuteIncr(c) ==
  /\ keys' = keys \cup {c}
  /\ count' = [count EXCEPT ![c] = Value(c)]
  /\ expires' = IF c \in keys THEN expires ELSE [expires EXCEPT ![c] = Never]

\* Mutant: the life of a key is too long.
ExecuteExpireLate(c) ==
  /\ expires' = IF c \in keys THEN [expires EXCEPT ![c] = now + 2 * Window] ELSE expires
  /\ UNCHANGED <<keys, count>>

\* EXPIRE on a key that is gone does nothing.
ExecuteExpire(c) ==
  /\ expires' = IF c \in keys THEN [expires EXCEPT ![c] = now + Window] ELSE expires
  /\ UNCHANGED <<keys, count>>

\* The key has been counted up: the first request goes on to set its expiry,
\* a later one is let through up to the limit.
Incr(r, c) ==
  /\ client /\ ExecuteIncr(c)
  /\ Arrive(r, c, IF Value(c) = 1 THEN "expire" ELSE "idle")
  /\ CASE Value(c) = 1     -> UNCHANGED <<served, refused>>
       [] Value(c) \in 2 .. Limit -> Serve("redis", c)
       [] OTHER            -> Refuse(c)
  /\ UNCHANGED <<client, window, now, faults>>

\* The answer to INCR does not come, whether Redis executed it or not.
IncrFails(r, c) ==
  /\ client /\ Fault("call")
  /\ ExecuteIncr(c) \/ UNCHANGED redis
  /\ Arrive(r, c, "local")
  /\ UNCHANGED <<client, window, now, served, refused>>

\* Without a Redis client the local window decides.
Bypass(r, c) ==
  /\ ~client /\ Arrive(r, c, "local")
  /\ UNCHANGED <<client, redis, window, now, served, refused, faults>>

Expire(r) ==
  /\ pc[r] = "expire" /\ ExecuteExpire(from[r])
  /\ Serve("redis", from[r]) /\ Done(r)
  /\ UNCHANGED <<client, window, now, asked, faults>>

ExpireFails(r) ==
  /\ pc[r] = "expire" /\ Fault("call")
  /\ ExecuteExpire(from[r]) \/ UNCHANGED redis
  /\ pc' = [pc EXCEPT ![r] = "local"]
  /\ UNCHANGED <<client, window, from, due, now, asked, served, refused>>

\* popleft(), as long as the first entry is before the cutoff.
Evict(entries, cutoff) ==
  LET n == CHOOSE n \in 0 .. Len(entries) :
             /\ \A i \in 1 .. n : entries[i] < cutoff
             /\ n < Len(entries) => entries[n + 1] >= cutoff
  IN  SubSeq(entries, n + 1, Len(entries))

\* Mutant: entries are evicted early.
LocalCheckEarly(r) ==
  LET c == from[r]
      recent == Evict(window[c], now - Window + 2)
  IN /\ pc[r] = "local" /\ Done(r)
     /\ IF Len(recent) >= Limit
        THEN window' = [window EXCEPT ![c] = recent] /\ Refuse(c)
        ELSE window' = [window EXCEPT ![c] = Append(recent, now)] /\ Serve("local", c)
     /\ UNCHANGED <<client, redis, now, asked, faults>>

\* _local_check: entries before the window are evicted, then there is room or
\* there is not.
LocalCheck(r) ==
  LET c == from[r]
      recent == Evict(window[c], now - Window)
  IN /\ pc[r] = "local" /\ Done(r)
     /\ IF Len(recent) >= Limit
        THEN window' = [window EXCEPT ![c] = recent] /\ Refuse(c)
        ELSE window' = [window EXCEPT ![c] = Append(recent, now)] /\ Serve("local", c)
     /\ UNCHANGED <<client, redis, now, asked, faults>>

\* A history in the next tick, in which nothing has happened yet.
Carried(h) == [c \in Clients |-> [h[c] EXCEPT ![now + 1] = h[c][now]]]

\* Time passes: keys expire, and no call is under way for longer than Timeout.
Tick ==
  /\ now < MaxTime /\ \A r \in Requests : pc[r] # "idle" => now < due[r]
  /\ now' = now + 1
  /\ keys' = {c \in keys : expires[c] > now'}
  /\ asked' = Carried(asked) /\ served' = [k \in Checks |-> Carried(served[k])]
  /\ UNCHANGED <<client, count, expires, window, request, refused, faults>>

\* Redis loses its keys.
RedisRestart ==
  /\ keys # {} /\ Fault("redis")
  /\ keys' = {}
  /\ UNCHANGED <<client, count, expires, window, request, now, asked, served, refused>>

\* The proxy loses its windows and the requests it is handling.
ProxyRestart ==
  /\ Fault("proxy")
  /\ window' = [c \in Clients |-> <<>>]
  /\ pc' = [r \in Requests |-> "idle"]
  /\ UNCHANGED <<client, redis, from, due, now, asked, served, refused>>

Next ==
  \/ \E r \in Requests :
       \/ \E c \in Clients : Incr(r, c) \/ IncrFails(r, c) \/ Bypass(r, c)
       \/ Expire(r) \/ ExpireFails(r) \/ LocalCheck(r)
  \/ Tick \/ RedisRestart \/ ProxyRestart

Spec == Init /\ [][Next]_vars

-----------------------------------------------------------------------------
(* Properties.                                                             *)

\* A key lives for a window at least, so any window meets two lives of it, and
\* one more for each time Redis lost it: the counter lets at most as many
\* limits through, whatever calls fail and however late EXPIRE comes.
CounterBounds ==
  \A c \in Clients, t \in 0 .. now :
    Between(served["redis"], c, t - Window + 1, t) <= (2 + faults["redis"]) * Limit

\* The fallback is a true sliding window, whenever it is consulted; a restart of
\* the proxy forgets it.
FallbackSlides ==
  \A c \in Clients, t \in 0 .. now :
    Between(served["local"], c, t - Window, t) <= (1 + faults["proxy"]) * Limit

\* What passes in a window is bounded, whichever of the two counts it.
WindowsAreBounded == CounterBounds /\ FallbackSlides

\* A client is refused only if it made more than Limit requests of its own in
\* the longest life a key has: its window, and the time EXPIRE may take.
RefusedOnlyIfBusy ==
  \A c \in Clients, t \in 0 .. now :
    refused[c][t] > 0 =>
      Between(asked, c, t - Window - Timeout, t) > Limit

\* Refusals are fair as long as no call fails and the proxy does not restart: a
\* Redis that loses its keys, even between INCR and EXPIRE, does no harm.
RefusalsAreFair == faults["call"] + faults["proxy"] = 0 => RefusedOnlyIfBusy

=============================================================================
