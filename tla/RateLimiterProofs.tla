-------------------------- MODULE RateLimiterProofs -------------------------
(***************************************************************************)
(* For any limit, window and timeout, any clients, and however often calls *)
(* fail and processes restart: what passes within a window is bounded, and *)
(* refusals are fair.                                                      *)
(***************************************************************************)
EXTENDS RateLimiter, FiniteSetTheorems, SequenceTheorems, WellFoundedInduction, TLAPS

TypeOK ==
  /\ client \in BOOLEAN /\ keys \subseteq Clients
  /\ count \in [Clients -> Nat] /\ expires \in [Clients -> Nat]
  /\ window \in [Clients -> Seq(Ticks)]
  /\ pc \in [Requests -> {"idle", "expire", "local"}]
  /\ from \in [Requests -> Clients] /\ due \in [Requests -> Nat]
  /\ now \in Ticks
  /\ asked \in [Clients -> [Ticks -> Nat]] /\ refused \in [Clients -> [Ticks -> Nat]]
  /\ served \in [Checks -> [Clients -> [Ticks -> Nat]]]
  /\ faults \in [FaultKinds -> Nat]

\* The requests of a client that wait for a step.
Waiting(c, step) == {r \in Requests : pc[r] = step /\ from[r] = c}

\* What a history counts from a tick on.
Since(h, c, s) == Between(h, c, s, now)

\* A request is answered before its call times out.
InTime == \A r \in Requests : pc[r] # "idle" => now <= due[r] /\ due[r] <= now + Timeout

-----------------------------------------------------------------------------
(* Lives of a key.                                                         *)

Expiring(c) == Cardinality(Waiting(c, "expire"))

\* What the restarts of a process may have let through.
Lost(kind) == faults[kind] * Limit

\* The requests that the present life of a key may still let through, apart
\* from its first one.
Left(c) == IF c \in keys /\ count[c] < Limit THEN Limit - count[c] ELSE 0

KeyLives(c) ==
  c \in keys => /\ count[c] > 0 /\ now < expires[c]
                /\ expires[c] = Never \/ expires[c] <= now + Window

\* A key dies only after a request has set its expiry: others still wait to
\* do so only if Redis has lost their keys.
ExpiriesWait(c) ==
  /\ Expiring(c) <= 1 + Lost("redis")
  /\ c \notin keys \/ expires[c] # Never => Expiring(c) <= Lost("redis")

\* A window meets two lives, or one if the key is gone, or if the present life
\* began before the window: then it will be gone before another one can begin.
LivesBounded(c) ==
  \A s \in Int : now - Window < s /\ s <= now =>
    LET most == Since(served["redis"], c, s) + Expiring(c) + Left(c)
    IN /\ most <= 2 * Limit + Lost("redis")
       /\ c \notin keys \/ expires[c] < s + Window => most <= Limit + Lost("redis")

KeyInv(c) == KeyLives(c) /\ ExpiriesWait(c) /\ LivesBounded(c)

CounterInv == (\A c \in Clients : KeyInv(c)) /\ CounterBounds

-----------------------------------------------------------------------------
(* The local windows.                                                      *)

WindowSorted(c) ==
  /\ Len(window[c]) <= Limit
  /\ \A i \in DOMAIN window[c] : window[c][i] <= now
  /\ \A i, j \in DOMAIN window[c] : i <= j => window[c][i] <= window[c][j]

\* What was let through since s and is forgotten was forgotten by restarts.
WindowRemembers(c) ==
  \A s \in Int, k \in Nat :
    /\ now - Window <= s /\ s <= now
    /\ k <= Len(window[c]) /\ \A i \in 1 .. k : window[c][i] < s
    => Since(served["local"], c, s) <= Len(window[c]) - k + Lost("proxy")

WindowInv == (\A c \in Clients : WindowSorted(c) /\ WindowRemembers(c)) /\ FallbackSlides

-----------------------------------------------------------------------------
(* Refusals.                                                               *)

AskedCountsUp ==
  \A c \in Clients, t, u \in Ticks : t <= u /\ u <= now => asked[c][t] <= asked[c][u]

NothingAhead == \A c \in Clients, t \in Ticks : now < t => refused[c][t] = 0

Fair == faults["call"] + faults["proxy"] = 0

\* The present life of a key counts requests since some tick b, and will have
\* ended soon after it.
KeyAsked(c) ==
  c \in keys => \E b \in 0 .. now :
    /\ count[c] <= Since(asked, c, b)
    /\ \A r \in Waiting(c, "expire") : due[r] <= b + Timeout
    /\ IF expires[c] = Never THEN Waiting(c, "expire") # {}
                             ELSE expires[c] <= b + Window + Timeout

\* The requests of a client that were made at tick a or later, and wait for the
\* local check, as their deadlines tell.
Late(c, a) == {r \in Waiting(c, "local") : a + Timeout <= due[r]}

\* An entry was asked for at most Timeout ticks before it was made.
EntriesAsked(c) ==
  \A a \in Int, k \in Nat :
    /\ a <= now /\ k <= Len(window[c])
    /\ \A i \in 1 .. Len(window[c]) : k < i => a + Timeout <= window[c][i]
    => Len(window[c]) - k + Cardinality(Late(c, a)) <= Since(asked, c, a)

RefusalInv ==
  /\ AskedCountsUp /\ NothingAhead
  /\ Fair => (\A c \in Clients : KeyAsked(c) /\ EntriesAsked(c)) /\ RefusedOnlyIfBusy

IInv == TypeOK /\ InTime /\ CounterInv /\ WindowInv /\ RefusalInv

-----------------------------------------------------------------------------
(* The histories.                                                          *)

Hist == [Clients -> [Ticks -> Nat]]

LEMMA ConstantTypes ==
  /\ Limit \in Int /\ Limit > 0 /\ Limit \in Nat /\ Window \in Int /\ Window > 0 /\ Timeout \in Nat
  /\ MaxTime \in Nat /\ Never \in Int /\ Never = MaxTime + Window + 1 /\ IsFiniteSet(Requests)
  BY LimitAssumption, BoundAssumption, RequestAssumption DEF Never

LEMMA BetweenTyped ==
  ASSUME NEW h \in Hist, NEW c \in Clients, NEW s \in Int, NEW t \in Ticks, s <= t
  PROVE  /\ Between(h, c, s, t) \in Int
         /\ s > 0 => s - 1 \in Ticks
PROOF
<1>1. t \in Int /\ 0 <= t /\ t <= MaxTime
  BY BoundAssumption DEF Ticks
<1>2. s > 0 => s - 1 \in Ticks
  BY <1>1, BoundAssumption DEF Ticks
<1>3. h[c][t] \in Nat /\ (s > 0 => h[c][s - 1] \in Nat)
  BY <1>2 DEF Hist
<1>. QED
  BY <1>2, <1>3 DEF Between

\* One more at a tick is one more of what is counted up to it, and not before.
LEMMA CountedUp ==
  ASSUME NEW h \in Hist, NEW c \in Clients, NEW u \in Ticks
  PROVE  /\ [h EXCEPT ![c][u] = @ + 1] \in Hist
         /\ \A d \in Clients, s \in Int : s <= u =>
              Between([h EXCEPT ![c][u] = @ + 1], d, s, u)
                = Between(h, d, s, u) + (IF d = c THEN 1 ELSE 0)
         /\ \A d \in Clients, s \in Int, t \in Ticks : s <= t /\ t < u =>
              Between([h EXCEPT ![c][u] = @ + 1], d, s, t) = Between(h, d, s, t)
PROOF
<1>. DEFINE g == [h EXCEPT ![c][u] = @ + 1]
<1>1. \A d \in Clients, t \in Ticks :
        g[d][t] = IF d = c /\ t = u THEN h[d][t] + 1 ELSE h[d][t]
  BY DEF Hist
<1>2. g \in Hist
  <2>1. [h[c] EXCEPT ![u] = @ + 1] \in [Ticks -> Nat]
    BY DEF Hist
  <2>. QED
    BY <2>1 DEF Hist
<1>3. \A d \in Clients, t \in Ticks : h[d][t] \in Int
  BY DEF Hist
<1>. HIDE DEF g
<1>4. \A t \in Ticks : t \in Int
  BY BoundAssumption DEF Ticks
<1>5. ASSUME NEW d \in Clients, NEW s \in Int, s <= u
      PROVE  Between(g, d, s, u) = Between(h, d, s, u) + (IF d = c THEN 1 ELSE 0)
  <2>1. s > 0 => s - 1 \in Ticks
    BY <1>5, BetweenTyped
  <2>2. s > 0 => g[d][s - 1] = h[d][s - 1] /\ h[d][s - 1] \in Int
    <3>1. u \in Int
      BY <1>4
    <3>2. s - 1 # u
      BY <3>1, <1>5
    <3>. QED
      BY <2>1, <1>1, <1>3, <3>2
  <2>3. g[d][u] = h[d][u] + (IF d = c THEN 1 ELSE 0) /\ h[d][u] \in Int
    BY <1>1, <1>3
  <2>. QED
    BY <2>2, <2>3 DEF Between
<1>6. ASSUME NEW d \in Clients, NEW s \in Int, NEW t \in Ticks, s <= t, t < u
      PROVE  Between(g, d, s, t) = Between(h, d, s, t)
  <2>1. s > 0 => s - 1 \in Ticks
    BY <1>6, BetweenTyped
  <2>2. u \in Int /\ t \in Int /\ t # u /\ s - 1 # u
    BY <1>4, <1>6
  <2>. QED
    BY <2>1, <2>2, <1>1 DEF Between
<1>. QED
  BY <1>2, <1>5, <1>6 DEF g

\* Nothing has happened yet in the next tick.
LEMMA CarriedOn ==
  ASSUME NEW h \in Hist, now \in Ticks, now + 1 \in Ticks
  PROVE  /\ Carried(h) \in Hist
         /\ \A d \in Clients, s \in Int : s <= now =>
              Between(Carried(h), d, s, now + 1) = Between(h, d, s, now)
         /\ \A d \in Clients : Between(Carried(h), d, now + 1, now + 1) = 0
         /\ \A d \in Clients, s \in Int, t \in Ticks : s <= t /\ t <= now =>
              Between(Carried(h), d, s, t) = Between(h, d, s, t)
PROOF
<1>. DEFINE g == Carried(h)
<1>0. now \in Int /\ 0 <= now /\ \A t \in Ticks : t \in Int
  BY BoundAssumption DEF Ticks
<1>1. \A d \in Clients, t \in Ticks : g[d][t] = IF t = now + 1 THEN h[d][now] ELSE h[d][t]
  BY DEF Hist, Carried
<1>2. g \in Hist
  <2>1. \A d \in Clients : [h[d] EXCEPT ![now + 1] = h[d][now]] \in [Ticks -> Nat]
    BY DEF Hist
  <2>. QED
    BY <2>1 DEF Hist, Carried
<1>3. \A d \in Clients, t \in Ticks : h[d][t] \in Int
  BY DEF Hist
<1>. HIDE DEF g
<1>4. ASSUME NEW d \in Clients, NEW s \in Int, s <= now
      PROVE  Between(g, d, s, now + 1) = Between(h, d, s, now)
  <2>1. s > 0 => s - 1 \in Ticks
    BY <1>4, BetweenTyped
  <2>2. s - 1 # now + 1
    BY <1>0, <1>4
  <2>. QED
    BY <2>1, <2>2, <1>1 DEF Between
<1>5. ASSUME NEW d \in Clients
      PROVE  Between(g, d, now + 1, now + 1) = 0
  <2>1. now + 1 > 0 /\ now + 1 - 1 = now /\ now # now + 1
    BY <1>0
  <2>2. g[d][now] = h[d][now] /\ g[d][now + 1] = h[d][now] /\ h[d][now] \in Int
    BY <1>1, <1>3, <2>1
  <2>3. \A u \in Int : u > 0 /\ u - 1 = now => Between(g, d, u, u) = g[d][u] - g[d][now]
    BY DEF Between
  <2>4. Between(g, d, now + 1, now + 1) = g[d][now + 1] - g[d][now]
    BY <2>1, <2>3, <1>0
  <2>. QED
    BY <2>2, <2>4
<1>6. ASSUME NEW d \in Clients, NEW s \in Int, NEW t \in Ticks, s <= t, t <= now
      PROVE  Between(g, d, s, t) = Between(h, d, s, t)
  <2>1. s > 0 => s - 1 \in Ticks
    BY <1>6, BetweenTyped
  <2>2. t # now + 1 /\ s - 1 # now + 1
    BY <1>0, <1>6
  <2>. QED
    BY <2>1, <2>2, <1>1 DEF Between
<1>. QED
  BY <1>2, <1>4, <1>5, <1>6 DEF g

-----------------------------------------------------------------------------
(* The eviction of the oldest entries.                                     *)

LEMMA LeastMember ==
  ASSUME NEW S, S \subseteq Nat, S # {}
  PROVE  \E x \in S : \A y \in S : x <= y
PROOF
<1>1. \E x \in S : \A y \in S : <<y, x>> \notin OpToRel(<, Nat)
  BY NatLessThanWellFounded, WFMin, Zenon
<1>2. PICK x \in S : \A y \in S : <<y, x>> \notin OpToRel(<, Nat)
  BY <1>1, Zenon
<1>3. ASSUME NEW y \in S PROVE x <= y
  <2>1. <<y, x>> \in Nat \X Nat /\ ~(y < x)
    BY <1>2 DEF OpToRel
  <2>. QED
    BY <2>1
<1>. QED
  BY <1>3

\* What is left is the window without its first n entries, which are all before
\* the cutoff, and the next one is not.
LEMMA EvictOldest ==
  ASSUME NEW q \in Seq(Ticks), NEW cutoff \in Int
  PROVE  \E n \in 0 .. Len(q) :
           /\ \A i \in 1 .. n : q[i] < cutoff
           /\ n < Len(q) => q[n + 1] >= cutoff
           /\ Evict(q, cutoff) \in Seq(Ticks)
           /\ Len(Evict(q, cutoff)) = Len(q) - n
           /\ \A i \in 1 .. Len(q) - n : Evict(q, cutoff)[i] = q[n + i]
PROOF
<1>. DEFINE Kept == {i \in DOMAIN q : q[i] >= cutoff}
            IsFirst(n) == /\ \A i \in 1 .. n : q[i] < cutoff
                          /\ n < Len(q) => q[n + 1] >= cutoff
<1>1. Len(q) \in Nat /\ DOMAIN q = 1 .. Len(q) /\ \A i \in DOMAIN q : q[i] \in Int
  BY BoundAssumption DEF Ticks
<1>2. \E n \in 0 .. Len(q) : IsFirst(n)
  <2>1. CASE Kept = {}
    <3>1. \A i \in 1 .. Len(q) : q[i] < cutoff
      BY <1>1, <2>1
    <3>2. IsFirst(Len(q)) /\ Len(q) \in 0 .. Len(q)
      BY <3>1, <1>1
    <3>. QED
      BY <3>2
  <2>2. CASE Kept # {}
    <3>1. Kept \subseteq Nat
      BY <1>1
    <3>2. PICK m \in Kept : \A i \in Kept : m <= i
      BY <3>1, <2>2, LeastMember
    <3>. DEFINE n == m - 1
    <3>3. n \in 0 .. Len(q) /\ n + 1 = m
      BY <1>1
    <3>4. \A i \in 1 .. n : q[i] < cutoff
      BY <1>1, <3>2
    <3>5. q[n + 1] >= cutoff
      BY <3>3
    <3>. QED
      BY <3>3, <3>4, <3>5
  <2>. QED
    BY <2>1, <2>2
<1>3. PICK n \in 0 .. Len(q) : IsFirst(n) /\ Evict(q, cutoff) = SubSeq(q, n + 1, Len(q))
  <2>. DEFINE k == CHOOSE n \in 0 .. Len(q) : IsFirst(n)
  <2>1. k \in 0 .. Len(q) /\ IsFirst(k)
    BY <1>2, Zenon
  <2>2. Evict(q, cutoff) = SubSeq(q, k + 1, Len(q))
    BY Zenon DEF Evict
  <2>. QED
    BY <2>1, <2>2, Zenon
<1>4. n \in Int /\ n >= 0 /\ n <= Len(q)
  BY <1>1
<1>5. \A i \in n + 1 .. Len(q) : q[i] \in Ticks
  BY <1>1, <1>4
<1>6. /\ SubSeq(q, n + 1, Len(q)) \in Seq(Ticks)
      /\ Len(SubSeq(q, n + 1, Len(q))) = IF n + 1 <= Len(q) THEN Len(q) - (n + 1) + 1 ELSE 0
      /\ \A i \in 1 .. Len(q) - (n + 1) + 1 : SubSeq(q, n + 1, Len(q))[i] = q[(n + 1) + i - 1]
  BY <1>1, <1>4, <1>5, SubSeqProperties
<1>7. Len(Evict(q, cutoff)) = Len(q) - n
  <2>. DEFINE m == Len(Evict(q, cutoff))
              l == Len(q)
  <2>1. m = IF n + 1 <= l THEN l - (n + 1) + 1 ELSE 0
    BY <1>3, <1>6, Zenon
  <2>2. n \in Int /\ l \in Int /\ n <= l
    BY <1>1, <1>4
  <2>. HIDE DEF m, l
  <2>3. m = l - n
    BY <2>1, <2>2
  <2>. QED
    BY <2>3 DEF m, l
<1>8. ASSUME NEW i \in 1 .. Len(q) - n PROVE Evict(q, cutoff)[i] = q[n + i]
  <2>1. Len(q) - (n + 1) + 1 = Len(q) - n /\ (n + 1) + i - 1 = n + i
    BY <1>1, <1>4
  <2>. QED
    BY <2>1, <1>3, <1>6
<1>9. Evict(q, cutoff) \in Seq(Ticks)
  BY <1>3, <1>6
<1>. QED
  BY <1>3, <1>7, <1>8, <1>9

-----------------------------------------------------------------------------
(* Types.                                                                  *)

LEMMA TypeInit == Init => TypeOK
PROOF
<1>1. Zero \in Hist
  BY DEF Zero, Hist
<1>2. \A k \in FaultKinds : 0 \in Nat
  OBVIOUS
<1>3. (CHOOSE c \in Clients : TRUE) \in Clients
  BY RequestAssumption
<1>4. 0 \in Ticks /\ Never \in Nat
  BY LimitAssumption, BoundAssumption DEF Ticks, Never
<1>5. <<>> \in Seq(Ticks)
  OBVIOUS
<1>. QED
  BY <1>1, <1>3, <1>4, <1>5 DEF Init, TypeOK, Hist

LEMMA ArriveTyped ==
  ASSUME TypeOK, NEW r \in Requests, NEW c \in Clients, NEW next \in {"idle", "expire", "local"},
         Arrive(r, c, next)
  PROVE  /\ asked' \in Hist /\ pc' \in [Requests -> {"idle", "expire", "local"}]
         /\ from' \in [Requests -> Clients] /\ due' \in [Requests -> Nat]
PROOF
<1>1. asked' \in Hist
  BY CountedUp DEF TypeOK, Arrive, Hist
<1>2. now + Timeout \in Nat
  BY LimitAssumption, BoundAssumption DEF TypeOK, Ticks
<1>. QED
  BY <1>1, <1>2 DEF TypeOK, Arrive

LEMMA AnswerTyped ==
  ASSUME TypeOK, NEW c \in Clients
  PROVE  /\ \A k \in Checks : Serve(k, c) =>
              served' \in [Checks -> Hist] /\ refused' \in Hist
         /\ Refuse(c) => served' \in [Checks -> Hist] /\ refused' \in Hist
PROOF
<1>1. ASSUME NEW k \in Checks, Serve(k, c)
      PROVE  served' \in [Checks -> Hist] /\ refused' \in Hist
  <2>1. [served[k] EXCEPT ![c][now] = @ + 1] \in Hist
    BY CountedUp DEF TypeOK, Hist
  <2>2. served' = [served EXCEPT ![k] = [served[k] EXCEPT ![c][now] = @ + 1]]
    BY <1>1 DEF Serve
  <2>. QED
    BY <2>1, <2>2, <1>1 DEF TypeOK, Hist, Serve
<1>2. Refuse(c) => served' \in [Checks -> Hist] /\ refused' \in Hist
  BY CountedUp DEF Refuse, TypeOK, Hist
<1>. QED
  BY <1>1, <1>2

LEMMA RedisTyped ==
  ASSUME TypeOK, NEW c \in Clients, ExecuteIncr(c) \/ ExecuteExpire(c) \/ UNCHANGED redis
  PROVE  keys' \subseteq Clients /\ count' \in [Clients -> Nat] /\ expires' \in [Clients -> Nat]
PROOF
<1>1. Value(c) \in Nat /\ Never \in Nat /\ now + Window \in Nat
  BY LimitAssumption, BoundAssumption DEF TypeOK, Value, Never, Ticks
<1>2. CASE ExecuteIncr(c)
  BY <1>1, <1>2 DEF ExecuteIncr, TypeOK
<1>3. CASE ExecuteExpire(c)
  BY <1>1, <1>3 DEF ExecuteExpire, TypeOK
<1>4. CASE UNCHANGED redis
  BY <1>4 DEF redis, TypeOK
<1>. QED
  BY <1>2, <1>3, <1>4

LEMMA FaultTyped ==
  ASSUME TypeOK, NEW k \in FaultKinds, Fault(k)
  PROVE  faults' \in [FaultKinds -> Nat]
  BY DEF Fault, TypeOK

LEMMA TypeStep == TypeOK /\ [Next]_vars => TypeOK'
PROOF
<1>. SUFFICES ASSUME TypeOK, [Next]_vars PROVE TypeOK'
  OBVIOUS
<1>. USE DEF Hist
<1>1. ASSUME NEW r \in Requests, NEW c \in Clients, Incr(r, c) PROVE TypeOK'
  <2>1. keys' \subseteq Clients /\ count' \in [Clients -> Nat] /\ expires' \in [Clients -> Nat]
    BY <1>1, RedisTyped DEF Incr
  <2>2. /\ asked' \in Hist /\ pc' \in [Requests -> {"idle", "expire", "local"}]
        /\ from' \in [Requests -> Clients] /\ due' \in [Requests -> Nat]
    BY <1>1, ArriveTyped DEF Incr
  <2>3. served' \in [Checks -> Hist] /\ refused' \in Hist
    BY <1>1, AnswerTyped DEF Incr, TypeOK, Checks
  <2>. QED
    BY <1>1, <2>1, <2>2, <2>3 DEF Incr, TypeOK
<1>2. ASSUME NEW r \in Requests, NEW c \in Clients, IncrFails(r, c) PROVE TypeOK'
  <2>1. keys' \subseteq Clients /\ count' \in [Clients -> Nat] /\ expires' \in [Clients -> Nat]
    BY <1>2, RedisTyped DEF IncrFails
  <2>2. /\ asked' \in Hist /\ pc' \in [Requests -> {"idle", "expire", "local"}]
        /\ from' \in [Requests -> Clients] /\ due' \in [Requests -> Nat]
    BY <1>2, ArriveTyped DEF IncrFails
  <2>3. faults' \in [FaultKinds -> Nat]
    BY <1>2, FaultTyped DEF IncrFails, FaultKinds
  <2>. QED
    BY <1>2, <2>1, <2>2, <2>3 DEF IncrFails, TypeOK
<1>3. ASSUME NEW r \in Requests, NEW c \in Clients, Bypass(r, c) PROVE TypeOK'
  <2>2. /\ asked' \in Hist /\ pc' \in [Requests -> {"idle", "expire", "local"}]
        /\ from' \in [Requests -> Clients] /\ due' \in [Requests -> Nat]
    BY <1>3, ArriveTyped DEF Bypass
  <2>. QED
    BY <1>3, <2>2 DEF Bypass, TypeOK, redis
<1>4. ASSUME NEW r \in Requests, Expire(r) PROVE TypeOK'
  <2>0. from[r] \in Clients
    BY DEF TypeOK
  <2>1. keys' \subseteq Clients /\ count' \in [Clients -> Nat] /\ expires' \in [Clients -> Nat]
    BY <1>4, <2>0, RedisTyped DEF Expire
  <2>2. served' \in [Checks -> Hist] /\ refused' \in Hist
    BY <1>4, <2>0, AnswerTyped DEF Expire, Checks
  <2>. QED
    BY <1>4, <2>1, <2>2 DEF Expire, Done, TypeOK
<1>5. ASSUME NEW r \in Requests, ExpireFails(r) PROVE TypeOK'
  <2>0. from[r] \in Clients
    BY DEF TypeOK
  <2>1. keys' \subseteq Clients /\ count' \in [Clients -> Nat] /\ expires' \in [Clients -> Nat]
    BY <1>5, <2>0, RedisTyped DEF ExpireFails
  <2>2. faults' \in [FaultKinds -> Nat]
    BY <1>5, FaultTyped DEF ExpireFails, FaultKinds
  <2>. QED
    BY <1>5, <2>1, <2>2 DEF ExpireFails, TypeOK
<1>6. ASSUME NEW r \in Requests, LocalCheck(r) PROVE TypeOK'
  <2>. DEFINE c == from[r]
              recent == Evict(window[c], now - Window)
  <2>0. c \in Clients /\ window[c] \in Seq(Ticks) /\ now - Window \in Int
    BY LimitAssumption, BoundAssumption DEF TypeOK, Ticks
  <2>1. recent \in Seq(Ticks)
    BY <2>0, EvictOldest, Zenon
  <2>2. Append(recent, now) \in Seq(Ticks)
    BY <2>1 DEF TypeOK
  <2>3. served' \in [Checks -> Hist] /\ refused' \in Hist
    BY <1>6, <2>0, AnswerTyped DEF LocalCheck, Checks
  <2>4. window' \in [Clients -> Seq(Ticks)]
    <3>1. window' = [window EXCEPT ![c] = recent] \/ window' = [window EXCEPT ![c] = Append(recent, now)]
      BY <1>6, Zenon DEF LocalCheck
    <3>. QED
      BY <3>1, <2>1, <2>2 DEF TypeOK
  <2>. QED
    BY <1>6, <2>3, <2>4 DEF LocalCheck, Done, TypeOK, redis
<1>7. CASE Tick
  <2>1. now \in Ticks /\ now + 1 \in Ticks
    BY <1>7, BoundAssumption DEF Tick, TypeOK, Ticks
  <2>2. asked' \in Hist
    BY <1>7, <2>1, CarriedOn DEF Tick, TypeOK
  <2>3. served' \in [Checks -> Hist]
    BY <1>7, <2>1, CarriedOn DEF Tick, TypeOK
  <2>. QED
    BY <1>7, <2>1, <2>2, <2>3 DEF Tick, TypeOK, request
<1>8. CASE RedisRestart
  <2>1. faults' \in [FaultKinds -> Nat]
    BY <1>8, FaultTyped DEF RedisRestart, FaultKinds
  <2>. QED
    BY <1>8, <2>1 DEF RedisRestart, TypeOK, request
<1>9. CASE ProxyRestart
  <2>1. faults' \in [FaultKinds -> Nat]
    BY <1>9, FaultTyped DEF ProxyRestart, FaultKinds
  <2>2. <<>> \in Seq(Ticks)
    OBVIOUS
  <2>. QED
    BY <1>9, <2>1, <2>2 DEF ProxyRestart, TypeOK, redis
<1>10. CASE UNCHANGED vars
  BY <1>10 DEF vars, redis, request, TypeOK
<1>. QED
  BY <1>1, <1>2, <1>3, <1>4, <1>5, <1>6, <1>7, <1>8, <1>9, <1>10 DEF Next

-----------------------------------------------------------------------------
(* Requests that wait, and the past.                                       *)

LEMMA InTimeStep == TypeOK /\ InTime /\ [Next]_vars => InTime'
PROOF
<1>. SUFFICES ASSUME TypeOK, InTime, [Next]_vars PROVE InTime'
  OBVIOUS
<1>0. now \in Int /\ Timeout \in Int /\ Timeout >= 0 /\ \A r \in Requests : due[r] \in Int
  BY LimitAssumption, BoundAssumption DEF TypeOK, Ticks
<1>1. ASSUME NEW r \in Requests, NEW c \in Clients, NEW next, Arrive(r, c, next), now' = now
      PROVE  InTime'
  <2>1. \A q \in Requests : q # r => pc'[q] = pc[q] /\ due'[q] = due[q]
    BY <1>1 DEF Arrive, TypeOK
  <2>2. due'[r] = now + Timeout
    BY <1>1 DEF Arrive, TypeOK
  <2>3. now <= due'[r] /\ due'[r] <= now + Timeout
    BY <2>2, <1>0
  <2>. QED
    BY <2>1, <2>3, <1>1 DEF InTime
<1>2. ASSUME NEW r \in Requests, pc' = [pc EXCEPT ![r] = "idle"] \/ (pc[r] # "idle" /\ pc' = [pc EXCEPT ![r] = "local"]),
             UNCHANGED <<due, now>>
      PROVE  InTime'
  BY <1>0, <1>2 DEF InTime, TypeOK
<1>3. CASE Tick
  BY <1>0, <1>3 DEF InTime, Tick, request
<1>4. CASE RedisRestart
  BY <1>4 DEF InTime, RedisRestart, request
<1>5. CASE ProxyRestart
  BY <1>5 DEF InTime, ProxyRestart
<1>6. CASE UNCHANGED vars
  BY <1>6 DEF InTime, vars, request
<1>7. ASSUME NEW r \in Requests, NEW c \in Clients, Incr(r, c) \/ IncrFails(r, c) \/ Bypass(r, c)
      PROVE  InTime'
  BY <1>1, <1>7 DEF Incr, IncrFails, Bypass
<1>8. ASSUME NEW r \in Requests, Expire(r) \/ ExpireFails(r) \/ LocalCheck(r)
      PROVE  InTime'
  <2>1. UNCHANGED <<due, now>>
    BY <1>8 DEF Expire, ExpireFails, LocalCheck, Done
  <2>2. pc' = [pc EXCEPT ![r] = "idle"] \/ (pc[r] # "idle" /\ pc' = [pc EXCEPT ![r] = "local"])
    <3>1. CASE ExpireFails(r)
      BY <3>1 DEF ExpireFails
    <3>2. CASE Expire(r)
      BY <3>2 DEF Expire, Done
    <3>3. CASE LocalCheck(r)
      BY <3>3 DEF LocalCheck, Done
    <3>. QED
      BY <1>8, <3>1, <3>2, <3>3
  <2>. QED
    BY <1>2, <2>1, <2>2
<1>. QED
  BY <1>3, <1>4, <1>5, <1>6, <1>7, <1>8 DEF Next

LEMMA WaitingFinite ==
  ASSUME NEW c, NEW step
  PROVE  IsFiniteSet(Waiting(c, step)) /\ Cardinality(Waiting(c, step)) \in Nat
PROOF
<1>1. Waiting(c, step) \subseteq Requests
  BY DEF Waiting
<1>. QED
  BY <1>1, RequestAssumption, FS_Subset, FS_CardinalityType

LEMMA ArriveWaits ==
  ASSUME TypeOK, NEW r \in Requests, NEW c \in Clients, NEW next, Arrive(r, c, next),
         NEW d \in Clients, NEW step \in {"expire", "local"}
  PROVE  /\ r \notin Waiting(d, step)
         /\ Waiting(d, step)' =
              IF d = c /\ step = next THEN Waiting(d, step) \cup {r} ELSE Waiting(d, step)
  BY DEF TypeOK, Arrive, Waiting

LEMMA ArriveCounts ==
  ASSUME TypeOK, NEW r \in Requests, NEW c \in Clients, NEW next, Arrive(r, c, next), NEW d \in Clients
  PROVE  Expiring(d)' = Expiring(d) + (IF d = c /\ next = "expire" THEN 1 ELSE 0)
PROOF
<1>1. r \notin Waiting(d, "expire")
  BY ArriveWaits
<1>2. Waiting(d, "expire")' = IF d = c /\ "expire" = next THEN Waiting(d, "expire") \cup {r}
                                                        ELSE Waiting(d, "expire")
  BY ArriveWaits
<1>3. Cardinality(Waiting(d, "expire") \cup {r}) = Cardinality(Waiting(d, "expire")) + 1
  BY <1>1, WaitingFinite, FS_AddElement
<1>4. Cardinality(Waiting(d, "expire")) \in Nat
  BY WaitingFinite
<1>. QED
  <2>1. CASE d = c /\ next = "expire"
    BY <2>1, <1>2, <1>3, <1>4 DEF Expiring
  <2>2. CASE ~(d = c /\ next = "expire")
    BY <2>2, <1>2, <1>4 DEF Expiring
  <2>. QED
    BY <2>1, <2>2

\* A request leaves the step it waits for.
LEMMA LeaveWaits ==
  ASSUME TypeOK, NEW r \in Requests, NEW next, pc' = [pc EXCEPT ![r] = next], from' = from,
         NEW d \in Clients, NEW step \in {"expire", "local"}
  PROVE  Waiting(d, step)' =
           IF step = next THEN IF d = from[r] THEN Waiting(d, step) \cup {r} ELSE Waiting(d, step)
                          ELSE Waiting(d, step) \ {r}
  BY DEF TypeOK, Waiting

LEMMA LeaveCounts ==
  ASSUME TypeOK, NEW r \in Requests, NEW next, pc' = [pc EXCEPT ![r] = next], from' = from,
         next # "expire", NEW d \in Clients
  PROVE  Expiring(d)' = Expiring(d) - (IF d = from[r] /\ pc[r] = "expire" THEN 1 ELSE 0)
PROOF
<1>1. Waiting(d, "expire")' = Waiting(d, "expire") \ {r}
  BY LeaveWaits
<1>2. r \in Waiting(d, "expire") <=> d = from[r] /\ pc[r] = "expire"
  BY DEF Waiting
<1>3. Cardinality(Waiting(d, "expire") \ {r})
        = IF r \in Waiting(d, "expire") THEN Cardinality(Waiting(d, "expire")) - 1
                                        ELSE Cardinality(Waiting(d, "expire"))
  BY WaitingFinite, FS_RemoveElement
<1>4. Cardinality(Waiting(d, "expire")) \in Nat
  BY WaitingFinite
<1>. QED
  BY <1>1, <1>2, <1>3, <1>4 DEF Expiring

\* What a history says of the ticks before this one stays as it is.
PastKept(h) ==
  \A c \in Clients, s \in Int, t \in Ticks : s <= t /\ t < now' =>
    t <= now /\ Between(h', c, s, t) = Between(h, c, s, t)

PastRefused ==
  \A c \in Clients, t \in Ticks : t # now => refused'[c][t] = refused[c][t]

LEMMA FaultsCount ==
  ASSUME TypeOK, NEW k \in FaultKinds, Fault(k), NEW l \in FaultKinds
  PROVE  faults'[l] = faults[l] + (IF l = k THEN 1 ELSE 0)
  BY DEF TypeOK, Fault

LEMMA PastStays ==
  ASSUME TypeOK, [Next]_vars
  PROVE  /\ PastKept(served["redis"]) /\ PastKept(served["local"]) /\ PastKept(asked)
         /\ PastRefused
         /\ \A k \in FaultKinds : faults'[k] \in Nat /\ faults'[k] >= faults[k]
         /\ now' \in Ticks /\ (now' = now \/ now' = now + 1)
PROOF
<1>0. /\ now \in Int /\ now \in Ticks /\ now < now + 1 /\ \A t \in Ticks : t \in Int
      /\ served["redis"] \in Hist /\ served["local"] \in Hist /\ asked \in Hist
      /\ \A k \in FaultKinds : faults[k] \in Nat
  BY BoundAssumption, SMTT(20) DEF TypeOK, Ticks, Hist, Checks
<1>a. ASSUME NEW h \in Hist, NEW g \in Hist, NEW c \in Clients, now' = now,
             g = h \/ g = [h EXCEPT ![c][now] = @ + 1]
      PROVE  \A d \in Clients, s \in Int, t \in Ticks : s <= t /\ t < now' =>
               t <= now /\ Between(g, d, s, t) = Between(h, d, s, t)
  BY <1>0, <1>a, CountedUp, SMTT(20)
<1>b. ASSUME NEW c \in Clients, now' = now, served' = served \/ Serve("redis", c) \/ Serve("local", c)
      PROVE  PastKept(served["redis"]) /\ PastKept(served["local"])
  <2>1. ASSUME NEW k \in Checks
        PROVE  served'[k] = served[k] \/ served'[k] = [served[k] EXCEPT ![c][now] = @ + 1]
    BY <1>b DEF TypeOK, Serve, Checks
  <2>2. ASSUME NEW k \in Checks
        PROVE  PastKept(served[k])
    <3>1. served[k] \in Hist
      BY DEF TypeOK, Hist
    <3>2. served'[k] \in Hist
      <4>1. [served[k] EXCEPT ![c][now] = @ + 1] \in Hist
        BY <3>1, <1>0, CountedUp
      <4>. QED
        BY <4>1, <3>1, <2>1
    <3>. QED
      BY <3>1, <3>2, <2>1, <1>a, <1>b DEF PastKept
  <2>. QED
    BY <2>2 DEF Checks, PastKept
<1>c. ASSUME NEW c \in Clients, refused' = refused \/ Refuse(c)
      PROVE  PastRefused
  <2>1. ASSUME Refuse(c), NEW d \in Clients, NEW t \in Ticks, t # now
        PROVE  refused'[d][t] = refused[d][t]
    BY <2>1 DEF Refuse, TypeOK
  <2>. QED
    BY <1>c, <2>1 DEF PastRefused
<1>d. ASSUME NEW r \in Requests, NEW c \in Clients, NEW next, Arrive(r, c, next), now' = now
      PROVE  PastKept(asked)
  <2>1. asked' = [asked EXCEPT ![c][now] = @ + 1]
    BY <1>d DEF Arrive
  <2>2. asked' \in Hist
    BY <2>1, <1>0, CountedUp
  <2>. QED
    BY <2>1, <2>2, <1>0, <1>a, <1>d DEF PastKept
<1>e. ASSUME asked' = asked, now' = now PROVE PastKept(asked)
  BY <1>0, <1>e DEF PastKept
<1>f. ASSUME faults' = faults \/ \E k \in FaultKinds : Fault(k)
      PROVE  \A k \in FaultKinds : faults'[k] \in Nat /\ faults'[k] >= faults[k]
  <2>1. ASSUME NEW k \in FaultKinds, Fault(k), NEW l \in FaultKinds
        PROVE  faults'[l] \in Nat /\ faults'[l] >= faults[l]
    BY <2>1, <1>0, FaultsCount
  <2>. QED
    BY <1>0, <1>f, <2>1
<1>g. \E c \in Clients : TRUE
  BY RequestAssumption
<1>1. ASSUME NEW r \in Requests, NEW c \in Clients, Incr(r, c) \/ IncrFails(r, c) \/ Bypass(r, c)
      PROVE  /\ PastKept(served["redis"]) /\ PastKept(served["local"]) /\ PastKept(asked)
             /\ PastRefused
             /\ \A k \in FaultKinds : faults'[k] \in Nat /\ faults'[k] >= faults[k]
             /\ now' = now
  <2>1. now' = now
    BY <1>1 DEF Incr, IncrFails, Bypass
  <2>2. served' = served \/ Serve("redis", c)
    BY <1>1, Zenon DEF Incr, IncrFails, Bypass, Refuse
  <2>3. refused' = refused \/ Refuse(c)
    BY <1>1, Zenon DEF Incr, IncrFails, Bypass, Serve
  <2>4. faults' = faults \/ \E k \in FaultKinds : Fault(k)
    BY <1>1 DEF Incr, IncrFails, Bypass, FaultKinds
  <2>5. \E next : Arrive(r, c, next)
    BY <1>1, Zenon DEF Incr, IncrFails, Bypass
  <2>. QED
    BY <2>1, <2>2, <2>3, <2>4, <2>5, <1>b, <1>c, <1>d, <1>f
<1>2. ASSUME NEW r \in Requests, Expire(r) \/ ExpireFails(r) \/ LocalCheck(r)
      PROVE  /\ PastKept(served["redis"]) /\ PastKept(served["local"]) /\ PastKept(asked)
             /\ PastRefused
             /\ \A k \in FaultKinds : faults'[k] \in Nat /\ faults'[k] >= faults[k]
             /\ now' = now
  <2>0. from[r] \in Clients
    BY DEF TypeOK
  <2>1. now' = now /\ asked' = asked
    BY <1>2 DEF Expire, ExpireFails, LocalCheck
  <2>2. served' = served \/ Serve("redis", from[r]) \/ Serve("local", from[r])
    BY <1>2, Zenon DEF Expire, ExpireFails, LocalCheck, Refuse
  <2>3. refused' = refused \/ Refuse(from[r])
    BY <1>2, Zenon DEF Expire, ExpireFails, LocalCheck, Serve
  <2>4. faults' = faults \/ \E k \in FaultKinds : Fault(k)
    BY <1>2 DEF Expire, ExpireFails, LocalCheck, FaultKinds
  <2>. QED
    BY <2>0, <2>1, <2>2, <2>3, <2>4, <1>b, <1>c, <1>e, <1>f
<1>3. ASSUME UNCHANGED <<now, asked, served, refused>>, faults' = faults \/ \E k \in FaultKinds : Fault(k)
      PROVE  /\ PastKept(served["redis"]) /\ PastKept(served["local"]) /\ PastKept(asked)
             /\ PastRefused
             /\ \A k \in FaultKinds : faults'[k] \in Nat /\ faults'[k] >= faults[k]
             /\ now' = now
  <2>1. PastRefused
    BY <1>3, <1>g, <1>c
  <2>. QED
    BY <1>3, <2>1, <1>0, <1>g, <1>b, <1>e, <1>f
<1>4. ASSUME Tick
      PROVE  /\ PastKept(served["redis"]) /\ PastKept(served["local"]) /\ PastKept(asked)
             /\ PastRefused
             /\ \A k \in FaultKinds : faults'[k] \in Nat /\ faults'[k] >= faults[k]
             /\ now' \in Ticks /\ now' = now + 1
  <2>1. now' \in Ticks /\ now' = now + 1 /\ now + 1 \in Ticks
    BY <1>4, <1>0, BoundAssumption DEF Tick, Ticks
  <2>2. \A t \in Ticks : t < now' => t <= now
    BY <2>1, <1>0
  <2>3. asked' = Carried(asked) /\ served' = [k \in Checks |-> Carried(served[k])]
    BY <1>4 DEF Tick
  <2>3a. served'["redis"] = Carried(served["redis"]) /\ served'["local"] = Carried(served["local"])
    BY <2>3 DEF Checks
  <2>4. PastKept(asked) /\ PastKept(served["redis"]) /\ PastKept(served["local"])
    <3>1. ASSUME NEW h \in Hist, NEW c \in Clients, NEW s \in Int, NEW t \in Ticks, s <= t, t < now'
          PROVE  t <= now /\ Between(Carried(h), c, s, t) = Between(h, c, s, t)
      BY <3>1, <2>1, <2>2, <1>0, CarriedOn
    <3>. QED
      BY <3>1, <2>3, <2>3a, <1>0 DEF PastKept
  <2>5. refused' = refused /\ faults' = faults
    BY <1>4 DEF Tick
  <2>. QED
    BY <2>1, <2>4, <2>5, <1>0 DEF PastRefused
<1>5. CASE RedisRestart
  BY <1>0, <1>3, <1>5 DEF RedisRestart, FaultKinds
<1>6. CASE ProxyRestart
  BY <1>0, <1>3, <1>6 DEF ProxyRestart, FaultKinds
<1>7. CASE UNCHANGED vars
  BY <1>0, <1>3, <1>7 DEF vars
<1>. QED
  BY <1>0, <1>1, <1>2, <1>4, <1>5, <1>6, <1>7 DEF Next

-----------------------------------------------------------------------------
(* Redis's counters.                                                       *)

LEMMA LimitTimes ==
  ASSUME NEW f \in Nat, NEW g \in Nat, f <= g
  PROVE  /\ f * Limit \in Nat /\ g * Limit \in Nat /\ f * Limit <= g * Limit
         /\ (f + 1) * Limit = f * Limit + Limit
         /\ (1 + f) * Limit = Limit + f * Limit /\ (2 + f) * Limit = 2 * Limit + f * Limit
PROOF
<1>1. Limit \in Nat
  BY ConstantTypes
<1>2. f * Limit \in Nat /\ g * Limit \in Nat
  BY <1>1
<1>3. (f + 1) * Limit = f * Limit + Limit /\ (1 + f) * Limit = Limit + f * Limit
  BY <1>1
<1>4. (2 + f) * Limit = 2 * Limit + f * Limit
  BY <1>1
<1>5. f * Limit <= g * Limit
  <2>1. PICK e \in Nat : g = f + e
    <3>1. g - f \in Nat /\ g = f + (g - f)
      OBVIOUS
    <3>. QED
      BY <3>1
  <2>2. g * Limit = f * Limit + e * Limit /\ e * Limit \in Nat
    BY <2>1, <1>1
  <2>. QED
    BY <2>2, <1>2
<1>. QED
  BY <1>2, <1>3, <1>4, <1>5

LEMMA LostGrows ==
  ASSUME TypeOK, [Next]_vars, NEW k \in FaultKinds
  PROVE  Lost(k) \in Nat /\ Lost(k)' \in Nat /\ Lost(k) <= Lost(k)'
  BY PastStays, LimitTimes DEF TypeOK, Lost

LEMMA MeasuresTyped ==
  ASSUME TypeOK, NEW d \in Clients
  PROVE  /\ Expiring(d) \in Nat /\ Left(d) \in Nat
         /\ count[d] \in Nat /\ expires[d] \in Nat /\ now \in Nat /\ now <= MaxTime
         /\ \A k \in Checks, s \in Int : s <= now => Since(served[k], d, s) \in Int
PROOF
<1>1. Expiring(d) \in Nat
  BY WaitingFinite DEF Expiring
<1>2. count[d] \in Nat /\ expires[d] \in Nat /\ now \in Nat /\ now \in Ticks /\ now <= MaxTime
  BY BoundAssumption DEF TypeOK, Ticks
<1>3. Left(d) \in Nat
  BY <1>2, ConstantTypes DEF Left
<1>4. \A k \in Checks : served[k] \in Hist
  BY DEF TypeOK, Hist
<1>. QED
  BY <1>1, <1>2, <1>3, <1>4, BetweenTyped DEF Since

\* Nothing that concerns the key of a client has happened, except that requests
\* do not wait any more.
LEMMA KeyKept ==
  ASSUME TypeOK, [Next]_vars, NEW d \in Clients, KeyInv(d), now' = now,
         d \in keys' <=> d \in keys, count'[d] = count[d], expires'[d] = expires[d],
         Expiring(d)' \in Nat, Expiring(d)' <= Expiring(d),
         \A s \in Int : s <= now => Since(served["redis"], d, s)' = Since(served["redis"], d, s)
  PROVE  KeyInv(d)'
PROOF
<1>1. Lost("redis") \in Nat /\ Lost("redis")' \in Nat /\ Lost("redis") <= Lost("redis")'
  BY LostGrows DEF FaultKinds
<1>2. Expiring(d) \in Nat /\ Left(d) \in Nat
      /\ \A s \in Int : s <= now => Since(served["redis"], d, s) \in Int
  BY MeasuresTyped DEF Checks
<1>3. Left(d)' = Left(d)
  BY DEF Left
<1>4. KeyLives(d)'
  BY DEF KeyInv, KeyLives
<1>5. ExpiriesWait(d)'
  BY <1>1, <1>2 DEF KeyInv, ExpiriesWait
<1>6. LivesBounded(d)'
  <2>. SUFFICES ASSUME NEW s \in Int, now' - Window < s, s <= now'
                PROVE  LET most == Since(served["redis"], d, s)' + Expiring(d)' + Left(d)'
                       IN /\ most <= 2 * Limit + Lost("redis")'
                          /\ d \notin keys' \/ expires'[d] < s + Window => most <= Limit + Lost("redis")'
    BY DEF LivesBounded
  <2>. DEFINE b == Since(served["redis"], d, s)
              p == Expiring(d)
              l == Left(d)
              f == Lost("redis")
  <2>1. Since(served["redis"], d, s)' = b /\ b \in Int
    BY <1>2
  <2>2. /\ b + p + l <= 2 * Limit + f
        /\ d \notin keys \/ expires[d] < s + Window => b + p + l <= Limit + f
    BY DEF KeyInv, LivesBounded
  <2>3. b + Expiring(d)' + l <= b + p + l
    BY <1>2, <2>1
  <2>4. b + p + l \in Int /\ b + Expiring(d)' + l \in Int
    BY <1>2, <2>1
  <2>. HIDE DEF b, p, l, f
  <2>. QED
    BY <1>1, <1>3, <2>1, <2>2, <2>3, <2>4, ConstantTypes DEF b, l, f
<1>. QED
  BY <1>4, <1>5, <1>6 DEF KeyInv

\* INCR: a key is made, whose life lets Limit requests through, or the life of
\* the key has one request less to let through, which b says whether it did.
LEMMA KeyCounted ==
  ASSUME TypeOK, [Next]_vars, NEW c \in Clients, KeyInv(c), now' = now, ExecuteIncr(c),
         NEW e \in {0, 1}, Expiring(c)' = Expiring(c) + e, e = 1 => c \notin keys,
         NEW b \in {0, 1}, b = 1 => c \in keys /\ count[c] < Limit,
         \A s \in Int : s <= now => Since(served["redis"], c, s)' = Since(served["redis"], c, s) + b
  PROVE  KeyInv(c)'
PROOF
<1>1. Lost("redis") \in Nat /\ Lost("redis")' \in Nat /\ Lost("redis") <= Lost("redis")'
  BY LostGrows DEF FaultKinds
<1>2. /\ Expiring(c) \in Nat /\ Left(c) \in Nat /\ count[c] \in Nat /\ expires[c] \in Nat
      /\ now \in Nat /\ now <= MaxTime
      /\ \A s \in Int : s <= now => Since(served["redis"], c, s) \in Int
  BY MeasuresTyped DEF Checks
<1>3. c \in keys' /\ count'[c] = (IF c \in keys THEN count[c] + 1 ELSE 1)
      /\ expires'[c] = (IF c \in keys THEN expires[c] ELSE Never)
  BY DEF ExecuteIncr, Value, TypeOK
<1>4. KeyLives(c)'
  BY <1>2, <1>3, ConstantTypes DEF KeyInv, KeyLives
<1>5. ExpiriesWait(c)'
  BY <1>1, <1>2, <1>3, ConstantTypes DEF KeyInv, ExpiriesWait
<1>6. Left(c)' \in Nat /\ (c \notin keys => Left(c) = 0 /\ Left(c)' <= Limit - 1)
      /\ (c \in keys => b + Left(c)' <= Left(c))
  BY <1>2, <1>3, ConstantTypes DEF Left
<1>7. LivesBounded(c)'
  <2>. SUFFICES ASSUME NEW s \in Int, now' - Window < s, s <= now'
                PROVE  LET most == Since(served["redis"], c, s)' + Expiring(c)' + Left(c)'
                       IN /\ most <= 2 * Limit + Lost("redis")'
                          /\ c \notin keys' \/ expires'[c] < s + Window => most <= Limit + Lost("redis")'
    BY DEF LivesBounded
  <2>. DEFINE a == Since(served["redis"], c, s)
              p == Expiring(c)
              l == Left(c)
              m == Left(c)'
              f == Lost("redis")
              g == Lost("redis")'
  <2>1. Since(served["redis"], c, s)' = a + b /\ a \in Int /\ Expiring(c)' = p + e
        /\ p \in Nat /\ l \in Nat /\ m \in Nat /\ f \in Nat /\ g \in Nat /\ f <= g
    BY <1>1, <1>2, <1>6
  <2>2. /\ a + p + l <= 2 * Limit + f
        /\ c \notin keys \/ expires[c] < s + Window => a + p + l <= Limit + f
    BY DEF KeyInv, LivesBounded
  <2>3. (c \notin keys => l = 0 /\ m <= Limit - 1) /\ (c \in keys => b + m <= l)
    BY <1>6
  <2>. HIDE DEF a, p, l, m, f, g
  <2>4. Limit \in Int /\ b \in Int /\ e \in Int /\ b <= 1 /\ e <= 1
    BY ConstantTypes
  <2>5. CASE c \in keys
    <3>1. e = 0 /\ expires'[c] = expires[c]
      BY <2>5, <1>3, <1>2
    <3>2. (a + b) + (p + e) + m <= a + p + l
      BY <2>1, <2>3, <2>4, <2>5, <3>1
    <3>3. (a + b) + (p + e) + m \in Int /\ a + p + l \in Int
      BY <2>1, <2>4
    <3>4. (a + b) + (p + e) + m <= 2 * Limit + g
      BY <3>2, <3>3, <2>1, <2>2, <2>4
    <3>5. expires[c] < s + Window => (a + b) + (p + e) + m <= Limit + g
      BY <3>2, <3>3, <2>1, <2>2, <2>4
    <3>. QED
      BY <3>1, <3>4, <3>5, <2>1, <2>5, <1>3 DEF m, g
  <2>6. CASE c \notin keys
    <3>1. b = 0 /\ expires'[c] = Never
      BY <2>6, <1>3
    <3>2. ~(Never < s + Window)
      BY <1>2, ConstantTypes
    <3>3. (a + b) + (p + e) + m <= 2 * Limit + g
      BY <2>1, <2>2, <2>3, <2>4, <2>6, <3>1
    <3>. QED
      BY <3>1, <3>2, <3>3, <2>1, <1>3 DEF m, g
  <2>. QED
    BY <2>5, <2>6
<1>. QED
  BY <1>4, <1>5, <1>7 DEF KeyInv

\* EXPIRE: a request that waited to set the expiry has done so.
LEMMA KeyExpires ==
  ASSUME TypeOK, [Next]_vars, NEW c \in Clients, KeyInv(c), now' = now, ExecuteExpire(c),
         Expiring(c)' = Expiring(c) - 1, Expiring(c)' \in Nat,
         NEW b \in {0, 1},
         \A s \in Int : s <= now => Since(served["redis"], c, s)' = Since(served["redis"], c, s) + b
  PROVE  KeyInv(c)'
PROOF
<1>1. Lost("redis") \in Nat /\ Lost("redis")' \in Nat /\ Lost("redis") <= Lost("redis")'
  BY LostGrows DEF FaultKinds
<1>2. /\ Expiring(c) \in Nat /\ Left(c) \in Nat /\ count[c] \in Nat /\ expires[c] \in Nat
      /\ now \in Nat /\ now <= MaxTime
      /\ \A s \in Int : s <= now => Since(served["redis"], c, s) \in Int
  BY MeasuresTyped DEF Checks
<1>3. (c \in keys' <=> c \in keys) /\ count' = count
      /\ (c \in keys => expires'[c] = now + Window)
  BY DEF ExecuteExpire, TypeOK
<1>4. KeyLives(c)'
  BY <1>2, <1>3, ConstantTypes DEF KeyInv, KeyLives
<1>5. ExpiriesWait(c)'
  BY <1>1, <1>2, <1>3, ConstantTypes DEF KeyInv, ExpiriesWait
<1>6. Left(c)' = Left(c)
  BY <1>3 DEF Left
<1>7. LivesBounded(c)'
  <2>. SUFFICES ASSUME NEW s \in Int, now' - Window < s, s <= now'
                PROVE  LET most == Since(served["redis"], c, s)' + Expiring(c)' + Left(c)'
                       IN /\ most <= 2 * Limit + Lost("redis")'
                          /\ c \notin keys' \/ expires'[c] < s + Window => most <= Limit + Lost("redis")'
    BY DEF LivesBounded
  <2>. DEFINE a == Since(served["redis"], c, s)
              p == Expiring(c)
              l == Left(c)
              f == Lost("redis")
              g == Lost("redis")'
  <2>1. Since(served["redis"], c, s)' = a + b /\ a \in Int /\ Expiring(c)' = p - 1
        /\ p \in Nat /\ l \in Nat /\ f \in Nat /\ g \in Nat /\ f <= g /\ Left(c)' = l
    BY <1>1, <1>2, <1>6
  <2>2. /\ a + p + l <= 2 * Limit + f
        /\ c \notin keys => a + p + l <= Limit + f
    BY DEF KeyInv, LivesBounded
  <2>. HIDE DEF a, p, l, f, g
  <2>3. Limit \in Int /\ b \in Int /\ b <= 1
    BY ConstantTypes
  <2>4. (a + b) + (p - 1) + l <= 2 * Limit + g
    BY <2>1, <2>2, <2>3
  <2>5. c \notin keys => (a + b) + (p - 1) + l <= Limit + g
    BY <2>1, <2>2, <2>3
  <2>6. c \in keys => ~(expires'[c] < s + Window)
    BY <1>2, <1>3, ConstantTypes
  <2>. QED
    BY <2>1, <2>4, <2>5, <2>6, <1>3 DEF g
<1>. QED
  BY <1>4, <1>5, <1>7 DEF KeyInv

\* Redis loses the key, and a life of it has ended early.
LEMMA KeyLost ==
  ASSUME TypeOK, [Next]_vars, NEW c \in Clients, KeyInv(c), RedisRestart
  PROVE  KeyInv(c)'
PROOF
<1>1. Lost("redis") \in Nat /\ Lost("redis")' = Lost("redis") + Limit
  <2>1. faults'["redis"] = faults["redis"] + 1 /\ faults["redis"] \in Nat
    BY FaultsCount DEF RedisRestart, FaultKinds, TypeOK
  <2>. QED
    BY <2>1, LimitTimes DEF Lost
<1>2. /\ Expiring(c) \in Nat /\ Left(c) \in Nat
      /\ \A s \in Int : s <= now => Since(served["redis"], c, s) \in Int
  BY MeasuresTyped DEF Checks
<1>3. keys' = {} /\ Waiting(c, "expire")' = Waiting(c, "expire") /\ now' = now /\ served' = served
  BY DEF RedisRestart, request, Waiting
<1>4. Expiring(c)' = Expiring(c) /\ Left(c)' = 0
  BY <1>3 DEF Expiring, Left
<1>5. \A s \in Int : Since(served["redis"], c, s)' = Since(served["redis"], c, s)
  BY <1>3 DEF Since, Between
<1>6. KeyLives(c)' /\ ExpiriesWait(c)'
  BY <1>1, <1>2, <1>3, <1>4, ConstantTypes DEF KeyInv, KeyLives, ExpiriesWait
<1>7. LivesBounded(c)'
  <2>. SUFFICES ASSUME NEW s \in Int, now' - Window < s, s <= now'
                PROVE  Since(served["redis"], c, s)' + Expiring(c)' + Left(c)' <= Limit + Lost("redis")'
    BY <1>1, <1>2, <1>3, <1>4, <1>5, ConstantTypes DEF LivesBounded
  <2>1. Since(served["redis"], c, s) + Expiring(c) + Left(c) <= 2 * Limit + Lost("redis")
    BY <1>3 DEF KeyInv, LivesBounded
  <2>. QED
    BY <2>1, <1>1, <1>2, <1>3, <1>4, <1>5, ConstantTypes
<1>. QED
  BY <1>6, <1>7 DEF KeyInv

\* A key that dies was given its expiry, so it began to count before any window
\* that is still open then.
LEMMA KeyAges ==
  ASSUME TypeOK, [Next]_vars, NEW c \in Clients, KeyInv(c), Tick
  PROVE  KeyInv(c)'
PROOF
<1>1. Lost("redis") \in Nat /\ Lost("redis")' = Lost("redis")
  BY LostGrows DEF FaultKinds, Tick, Lost
<1>2. /\ Expiring(c) \in Nat /\ Left(c) \in Nat /\ count[c] \in Nat /\ expires[c] \in Nat
      /\ now \in Nat /\ now < MaxTime
      /\ \A s \in Int : s <= now => Since(served["redis"], c, s) \in Int
  BY MeasuresTyped DEF Checks, Tick
<1>3. /\ now' = now + 1 /\ count' = count /\ expires' = expires
      /\ c \in keys' <=> c \in keys /\ expires[c] > now + 1
      /\ Waiting(c, "expire")' = Waiting(c, "expire")
  BY DEF Tick, request, Waiting
<1>4. /\ Expiring(c)' = Expiring(c) /\ Left(c)' \in Nat /\ Left(c)' <= Left(c)
      /\ c \in keys' => Left(c)' <= Limit - 1
      /\ c \notin keys' => Left(c)' = 0
  BY <1>2, <1>3, ConstantTypes DEF Expiring, Left, KeyInv, KeyLives
<1>5. /\ \A s \in Int : s <= now => Since(served["redis"], c, s)' = Since(served["redis"], c, s)
      /\ \A s \in Int : s = now + 1 => Since(served["redis"], c, s)' = 0
  <2>1. now \in Ticks /\ now + 1 \in Ticks
    BY <1>2, BoundAssumption DEF Ticks
  <2>2. served["redis"] \in Hist /\ served'["redis"] = Carried(served["redis"])
    BY DEF Tick, Checks, TypeOK, Hist
  <2>. QED
    BY <2>1, <2>2, <1>3, CarriedOn DEF Since
<1>6. KeyLives(c)'
  BY <1>2, <1>3, ConstantTypes DEF KeyInv, KeyLives
<1>7. ExpiriesWait(c)'
  BY <1>1, <1>2, <1>3, <1>4, ConstantTypes DEF KeyInv, ExpiriesWait
<1>8. LivesBounded(c)'
  <2>. SUFFICES ASSUME NEW s \in Int, now' - Window < s, s <= now'
                PROVE  LET most == Since(served["redis"], c, s)' + Expiring(c)' + Left(c)'
                       IN /\ most <= 2 * Limit + Lost("redis")
                          /\ c \notin keys' \/ expires'[c] < s + Window => most <= Limit + Lost("redis")
    BY <1>1 DEF LivesBounded
  <2>. DEFINE p == Expiring(c)
              l == Left(c)
              m == Left(c)'
              f == Lost("redis")
  <2>0. p \in Nat /\ l \in Nat /\ m \in Nat /\ f \in Nat /\ m <= l /\ Expiring(c)' = p
        /\ Limit \in Int /\ Limit > 0
    BY <1>1, <1>2, <1>4, ConstantTypes
  <2>1. CASE s = now + 1
    <3>1. Since(served["redis"], c, s)' = 0
      BY <2>1, <1>5
    <3>2. p <= 1 + f /\ (c \notin keys \/ expires[c] # Never => p <= f)
      BY DEF KeyInv, ExpiriesWait
    <3>3. expires[c] < s + Window => expires[c] # Never
      BY <2>1, <1>2, ConstantTypes
    <3>4. c \notin keys' => m = 0
      BY <1>4
    <3>5. c \in keys' => m <= Limit - 1
      BY <1>4
    <3>. HIDE DEF p, l, m, f
    <3>6. 0 + p + m <= 2 * Limit + f
      BY <2>0, <3>2, <3>4, <3>5
    <3>7. c \notin keys' \/ expires[c] < s + Window => 0 + p + m <= Limit + f
      BY <2>0, <3>2, <3>3, <3>4, <3>5, <1>3
    <3>. QED
      BY <3>1, <3>6, <3>7, <2>0, <1>3 DEF m, f
  <2>2. CASE s <= now
    <3>. DEFINE a == Since(served["redis"], c, s)
    <3>1. Since(served["redis"], c, s)' = a /\ a \in Int
      BY <2>2, <1>2, <1>5
    <3>2. now - Window < s
      BY <1>2, <1>3, ConstantTypes
    <3>3. /\ a + p + l <= 2 * Limit + f
          /\ c \notin keys \/ expires[c] < s + Window => a + p + l <= Limit + f
      BY <2>2, <3>2 DEF KeyInv, LivesBounded
    <3>4. c \notin keys' => c \notin keys \/ expires[c] < s + Window
      BY <1>2, <1>3, ConstantTypes
    <3>. HIDE DEF p, l, m, f, a
    <3>5. a + p + m <= 2 * Limit + f
      BY <2>0, <3>1, <3>3
    <3>6. c \notin keys' \/ expires[c] < s + Window => a + p + m <= Limit + f
      BY <2>0, <3>1, <3>3, <3>4
    <3>. QED
      BY <3>1, <3>5, <3>6, <2>0, <1>3 DEF m, f
  <2>. QED
    BY <2>1, <2>2, <1>2, <1>3
<1>. QED
  BY <1>6, <1>7, <1>8 DEF KeyInv

LEMMA ExpiringTyped ==
  ASSUME NEW d \in Clients
  PROVE  Expiring(d) \in Nat /\ Expiring(d)' \in Nat
PROOF
<1>1. Waiting(d, "expire") \subseteq Requests /\ Waiting(d, "expire")' \subseteq Requests
  BY DEF Waiting
<1>. QED
  BY <1>1, RequestAssumption, FS_Subset, FS_CardinalityType DEF Expiring

LEMMA CounterBoundsStep ==
  ASSUME TypeOK, TypeOK', [Next]_vars, CounterBounds, NEW c \in Clients, KeyInv(c)', NEW t \in 0 .. now'
  PROVE  Between(served'["redis"], c, t - Window + 1, t) <= (2 + faults'["redis"]) * Limit
PROOF
<1>1. /\ now' \in Nat /\ now' <= MaxTime /\ now' \in Ticks /\ now \in Int /\ t \in Int /\ t \in Ticks
      /\ t - Window + 1 \in Int /\ t - Window + 1 <= t
  BY ConstantTypes DEF TypeOK, Ticks
<1>2. /\ faults["redis"] \in Nat /\ faults'["redis"] \in Nat /\ faults["redis"] <= faults'["redis"]
  BY PastStays DEF TypeOK, FaultKinds
<1>3. /\ (2 + faults["redis"]) * Limit = 2 * Limit + Lost("redis")
      /\ (2 + faults'["redis"]) * Limit = 2 * Limit + Lost("redis")'
      /\ Lost("redis") \in Nat /\ Lost("redis")' \in Nat /\ Lost("redis") <= Lost("redis")'
  <2>1. ASSUME NEW f \in Nat, NEW g \in Nat, f <= g
        PROVE  /\ (2 + f) * Limit = 2 * Limit + f * Limit /\ (2 + g) * Limit = 2 * Limit + g * Limit
               /\ f * Limit \in Nat /\ g * Limit \in Nat /\ f * Limit <= g * Limit
    <3>1. g <= g
      OBVIOUS
    <3>2. (2 + g) * Limit = 2 * Limit + g * Limit
      BY <3>1, LimitTimes
    <3>. QED
      BY <2>1, <3>2, LimitTimes
  <2>. QED
    BY <2>1, <1>2 DEF Lost
<1>4. served["redis"] \in Hist /\ served'["redis"] \in Hist
  BY DEF TypeOK, Hist, Checks
<1>5. CASE t < now'
  <2>1. t <= now
        /\ Between(served'["redis"], c, t - Window + 1, t) = Between(served["redis"], c, t - Window + 1, t)
    BY <1>1, <1>5, PastStays DEF PastKept
  <2>2. Between(served["redis"], c, t - Window + 1, t) <= (2 + faults["redis"]) * Limit
    BY <1>1, <2>1 DEF CounterBounds
  <2>3. Between(served["redis"], c, t - Window + 1, t) \in Int
    BY <1>1, <1>4, BetweenTyped
  <2>. QED
    BY <2>1, <2>2, <2>3, <1>3, ConstantTypes
<1>6. CASE t = now'
  <2>1. KeyInv(c)'
    OBVIOUS
  <2>2. now' - Window < t - Window + 1
    <3>1. t - Window < t - Window + 1
      BY <1>1, ConstantTypes
    <3>. QED
      BY <3>1, <1>6
  <2>3. Since(served["redis"], c, t - Window + 1)' + Expiring(c)' + Left(c)' <= 2 * Limit + Lost("redis")'
    <3>. DEFINE s == t - Window + 1
    <3>1. s \in Int /\ now' - Window < s /\ s <= now'
      BY <1>1, <1>6, <2>2
    <3>. HIDE DEF s
    <3>2. Since(served["redis"], c, s)' + Expiring(c)' + Left(c)' <= 2 * Limit + Lost("redis")'
      BY <3>1, <2>1 DEF KeyInv, LivesBounded
    <3>. QED
      BY <3>2 DEF s
  <2>4. Since(served["redis"], c, t - Window + 1)' = Between(served'["redis"], c, t - Window + 1, t)
    BY <1>6 DEF Since
  <2>5. Expiring(c)' \in Nat /\ Left(c)' \in Nat
    <3>1. Expiring(c)' \in Nat
      BY ExpiringTyped
    <3>2. count'[c] \in Nat
      BY DEF TypeOK
    <3>. QED
      BY <3>1, <3>2, ConstantTypes DEF Left
  <2>6. Between(served'["redis"], c, t - Window + 1, t) \in Int
    BY <1>1, <1>4, BetweenTyped
  <2>. QED
    BY <2>3, <2>4, <2>5, <2>6, <1>3, ConstantTypes
<1>. QED
  BY <1>1, <1>5, <1>6

LEMMA CounterInit == Init => CounterInv
PROOF
<1>. SUFFICES ASSUME Init PROVE CounterInv
  OBVIOUS
<1>1. TypeOK /\ now = 0 /\ now \in Ticks
  BY TypeInit DEF Init, TypeOK
<1>2. \A k \in Checks, c \in Clients, t \in Ticks : served[k][c][t] = 0
  BY DEF Init, Zero
<1>3. \A c \in Clients, s \in Int, t \in Ticks : s <= t => Between(served["redis"], c, s, t) = 0
  <2>. SUFFICES ASSUME NEW c \in Clients, NEW s \in Int, NEW t \in Ticks, s <= t
                PROVE  Between(served["redis"], c, s, t) = 0
    OBVIOUS
  <2>1. s > 0 => s - 1 \in Ticks
    BY BetweenTyped, <1>1 DEF TypeOK, Hist, Checks
  <2>. QED
    BY <2>1, <1>2 DEF Between, Checks
<1>4. Lost("redis") \in Nat /\ (2 + faults["redis"]) * Limit \in Nat
  BY LimitTimes DEF Init, Lost, FaultKinds
<1>5. ASSUME NEW c \in Clients PROVE KeyInv(c)
  <2>1. Waiting(c, "expire") = {}
    BY DEF Init, Waiting
  <2>2. Expiring(c) = 0
    BY <2>1, FS_EmptySet DEF Expiring
  <2>3. keys = {} /\ Left(c) = 0
    BY DEF Init, Left
  <2>4. \A s \in Int : s <= now => Since(served["redis"], c, s) = 0
    BY <1>1, <1>3 DEF Since
  <2>. QED
    BY <2>2, <2>3, <2>4, <1>4, ConstantTypes DEF KeyInv, KeyLives, ExpiriesWait, LivesBounded
<1>6. CounterBounds
  <2>. SUFFICES ASSUME NEW c \in Clients, NEW t \in 0 .. now
                PROVE  Between(served["redis"], c, t - Window + 1, t) <= (2 + faults["redis"]) * Limit
    BY DEF CounterBounds
  <2>1. t \in Ticks /\ t - Window + 1 \in Int /\ t - Window + 1 <= t
    BY <1>1, ConstantTypes DEF Ticks
  <2>. QED
    BY <2>1, <1>3, <1>4
<1>. QED
  BY <1>5, <1>6 DEF CounterInv

\* A request that is let through by the other check, or by none, is not counted.
LEMMA RedisServes ==
  ASSUME TypeOK, NEW c \in Clients, now' = now, NEW d \in Clients
  PROVE  /\ served' = served \/ Serve("local", c) =>
              \A s \in Int : s <= now => Since(served["redis"], d, s)' = Since(served["redis"], d, s)
         /\ Serve("redis", c) =>
              \A s \in Int : s <= now =>
                Since(served["redis"], d, s)' = Since(served["redis"], d, s) + (IF d = c THEN 1 ELSE 0)
PROOF
<1>1. ASSUME served' = served \/ Serve("local", c)
      PROVE  \A s \in Int : Since(served["redis"], d, s)' = Since(served["redis"], d, s)
  <2>1. served'["redis"] = served["redis"]
    BY <1>1 DEF TypeOK, Serve, Checks
  <2>. QED
    BY <2>1 DEF Since
<1>2. ASSUME Serve("redis", c), NEW s \in Int, s <= now
      PROVE  Since(served["redis"], d, s)' = Since(served["redis"], d, s) + (IF d = c THEN 1 ELSE 0)
  <2>1. served'["redis"] = [served["redis"] EXCEPT ![c][now] = @ + 1]
    BY <1>2 DEF TypeOK, Serve, Checks
  <2>2. served["redis"] \in Hist /\ now \in Ticks
    BY DEF TypeOK, Hist, Checks
  <2>. QED
    BY <2>1, <2>2, <1>2, CountedUp, SMTT(20) DEF Since
<1>. QED
  BY <1>1, <1>2

LEMMA KeyStep ==
  ASSUME TypeOK, [Next]_vars, NEW d \in Clients, KeyInv(d)
  PROVE  KeyInv(d)'
PROOF
<1>0. Expiring(d) \in Nat /\ Expiring(d)' \in Nat /\ 0 \in {0, 1} /\ 1 \in {0, 1}
  BY ExpiringTyped
<1>t. /\ \A s \in Int : s <= now => Since(served["redis"], d, s) \in Int
      /\ d \in keys => count[d] \in Nat /\ count[d] > 0
  BY MeasuresTyped DEF Checks, KeyInv, KeyLives
\* What a step does that makes or counts up the key of c.
<1>a. ASSUME NEW r \in Requests, NEW c \in Clients, NEW next, Arrive(r, c, next), now' = now,
             ExecuteIncr(c), d # c,
             \A s \in Int : s <= now => Since(served["redis"], d, s)' = Since(served["redis"], d, s)
      PROVE  KeyInv(d)'
  <2>1. (d \in keys' <=> d \in keys) /\ count'[d] = count[d] /\ expires'[d] = expires[d]
    BY <1>a DEF ExecuteIncr, TypeOK
  <2>2. Expiring(d)' = Expiring(d)
    BY <1>a, <1>0, ArriveCounts
  <2>. QED
    BY <2>1, <2>2, <1>a, <1>0, KeyKept
\* What a step does that leaves Redis alone.
<1>b. ASSUME UNCHANGED redis, now' = now, Expiring(d)' <= Expiring(d),
             \A s \in Int : s <= now => Since(served["redis"], d, s)' = Since(served["redis"], d, s)
      PROVE  KeyInv(d)'
  BY <1>b, <1>0, KeyKept DEF redis
<1>1. ASSUME NEW r \in Requests, NEW c \in Clients, Incr(r, c) PROVE KeyInv(d)'
  <2>1. now' = now /\ ExecuteIncr(c) /\ Arrive(r, c, IF Value(c) = 1 THEN "expire" ELSE "idle")
    BY <1>1 DEF Incr
  <2>2. CASE d # c
    <3>1. served' = served \/ Serve("redis", c)
      BY <1>1, Zenon DEF Incr, Refuse
    <3>2. \A s \in Int : s <= now => Since(served["redis"], d, s)' = Since(served["redis"], d, s)
      BY <3>1, <2>1, <2>2, <1>t, RedisServes
    <3>. QED
      BY <2>1, <2>2, <3>2, <1>a
  <2>3. CASE d = c /\ c \notin keys
    <3>1. Value(c) = 1
      BY <2>3 DEF Value
    <3>2. Expiring(d)' = Expiring(d) + 1
      BY <2>1, <2>3, <3>1, ArriveCounts
    <3>3. served' = served
      BY <1>1, <3>1 DEF Incr
    <3>4. \A s \in Int : s <= now => Since(served["redis"], d, s)' = Since(served["redis"], d, s) + 0
      BY <3>3, <2>1, <1>t, RedisServes
    <3>. QED
      BY <2>1, <2>3, <3>2, <3>4, <1>0, KeyCounted
  <2>4. CASE d = c /\ c \in keys
    <3>1. Value(c) = count[c] + 1 /\ Value(c) # 1 /\ Value(c) >= 2 /\ Value(c) \in Nat
      BY <2>4, <1>t DEF Value
    <3>2. Expiring(d)' = Expiring(d) + 0
      <4>1. (IF Value(c) = 1 THEN "expire" ELSE "idle") # "expire"
        BY <3>1
      <4>. QED
        BY <4>1, <2>1, <1>0, ArriveCounts
    <3>3. CASE Value(c) \in 2 .. Limit
      <4>1. Serve("redis", c)
        BY <1>1, <3>1, <3>3, Zenon DEF Incr
      <4>2. \A s \in Int : s <= now => Since(served["redis"], d, s)' = Since(served["redis"], d, s) + 1
        BY <4>1, <2>1, <2>4, RedisServes
      <4>3. count[c] < Limit
        BY <3>1, <3>3, <2>4, <1>t, ConstantTypes
      <4>. QED
        BY <2>1, <2>4, <3>2, <4>2, <4>3, <1>0, KeyCounted
    <3>4. CASE Value(c) \notin 2 .. Limit
      <4>1. Refuse(c)
        BY <1>1, <3>1, <3>4, Zenon DEF Incr
      <4>2. served' = served
        BY <4>1 DEF Refuse
      <4>3. \A s \in Int : s <= now => Since(served["redis"], d, s)' = Since(served["redis"], d, s) + 0
        BY <4>2, <2>1, <1>t, RedisServes
      <4>. QED
        BY <2>1, <2>4, <3>2, <4>3, <1>0, KeyCounted
    <3>. QED
      BY <3>3, <3>4
  <2>. QED
    BY <2>2, <2>3, <2>4
<1>2. ASSUME NEW r \in Requests, NEW c \in Clients, IncrFails(r, c) PROVE KeyInv(d)'
  <2>1. now' = now /\ served' = served /\ Arrive(r, c, "local")
    BY <1>2 DEF IncrFails
  <2>2. Expiring(d)' = Expiring(d) /\ Expiring(d)' = Expiring(d) + 0
    BY <2>1, <1>0, ArriveCounts
  <2>3. \A s \in Int : s <= now => /\ Since(served["redis"], d, s)' = Since(served["redis"], d, s)
                                   /\ Since(served["redis"], d, s)' = Since(served["redis"], d, s) + 0
    BY <2>1, <1>t, RedisServes
  <2>4. CASE UNCHANGED redis
    BY <2>1, <2>2, <2>3, <2>4, <1>0, <1>b
  <2>5. CASE ExecuteIncr(c) /\ d # c
    BY <2>1, <2>3, <2>5, <1>a
  <2>6. CASE ExecuteIncr(c) /\ d = c
    BY <2>1, <2>2, <2>3, <2>6, <1>0, KeyCounted
  <2>. QED
    BY <1>2, <2>4, <2>5, <2>6 DEF IncrFails
<1>3. ASSUME NEW r \in Requests, NEW c \in Clients, Bypass(r, c) PROVE KeyInv(d)'
  <2>1. now' = now /\ served' = served /\ Arrive(r, c, "local") /\ UNCHANGED redis
    BY <1>3 DEF Bypass
  <2>2. Expiring(d)' = Expiring(d)
    BY <2>1, <1>0, ArriveCounts
  <2>3. \A s \in Int : s <= now => Since(served["redis"], d, s)' = Since(served["redis"], d, s)
    BY <2>1, RedisServes
  <2>. QED
    BY <2>1, <2>2, <2>3, <1>0, <1>b
<1>4. ASSUME NEW r \in Requests, Expire(r) \/ ExpireFails(r) PROVE KeyInv(d)'
  <2>. DEFINE c == from[r]
  <2>0. c \in Clients
    BY DEF TypeOK
  <2>1. now' = now /\ pc[r] = "expire" /\ from' = from
        /\ \E next : next # "expire" /\ pc' = [pc EXCEPT ![r] = next]
    BY <1>4 DEF Expire, ExpireFails, Done
  <2>2. Expiring(d)' = Expiring(d) - (IF d = c THEN 1 ELSE 0)
    BY <2>1, LeaveCounts
  <2>3. \E b \in {0, 1} : \A s \in Int : s <= now =>
          Since(served["redis"], d, s)' = Since(served["redis"], d, s) + (IF d = c THEN b ELSE 0)
    <3>1. CASE Serve("redis", c)
      BY <3>1, <2>0, <2>1, <1>0, RedisServes
    <3>2. CASE served' = served
      <4>1. \A s \in Int : s <= now =>
              Since(served["redis"], d, s)' = Since(served["redis"], d, s) + (IF d = c THEN 0 ELSE 0)
        BY <3>2, <2>0, <2>1, <1>t, RedisServes
      <4>. QED
        BY <4>1, <1>0
    <3>. QED
      BY <1>4, <3>1, <3>2 DEF Expire, ExpireFails
  <2>4. ExecuteExpire(c) \/ UNCHANGED redis
    BY <1>4 DEF Expire, ExpireFails
  <2>5. CASE d # c
    <3>1. (d \in keys' <=> d \in keys) /\ count'[d] = count[d] /\ expires'[d] = expires[d]
      BY <2>4, <2>5 DEF ExecuteExpire, TypeOK, redis
    <3>2. \A s \in Int : s <= now => Since(served["redis"], d, s)' = Since(served["redis"], d, s)
      BY <2>3, <2>5, <1>t
    <3>. QED
      BY <2>1, <2>2, <2>5, <3>1, <3>2, <1>0, KeyKept
  <2>6. CASE d = c /\ ExecuteExpire(c)
    <3>1. PICK b \in {0, 1} : \A s \in Int : s <= now =>
            Since(served["redis"], d, s)' = Since(served["redis"], d, s) + b
      BY <2>3, <2>6
    <3>2. Expiring(d)' = Expiring(d) - 1 /\ ExecuteExpire(d)
      BY <2>2, <2>6
    <3>. QED
      BY <2>1, <3>1, <3>2, <1>0, KeyExpires
  <2>7. CASE d = c /\ UNCHANGED redis
    <3>1. served' = served \/ ExecuteExpire(c)
      BY <1>4 DEF Expire, ExpireFails
    <3>2. CASE served' = served
      <4>1. \A s \in Int : s <= now => Since(served["redis"], d, s)' = Since(served["redis"], d, s)
        BY <3>2, <2>1, RedisServes
      <4>. QED
        BY <4>1, <2>1, <2>2, <2>7, <1>0, <1>b
    <3>. QED
      BY <2>6, <2>7, <3>1, <3>2
  <2>. QED
    BY <2>4, <2>5, <2>6, <2>7
<1>5. ASSUME NEW r \in Requests, LocalCheck(r) PROVE KeyInv(d)'
  <2>1. /\ now' = now /\ pc[r] = "local" /\ from' = from /\ UNCHANGED redis
        /\ pc' = [pc EXCEPT ![r] = "idle"]
    BY <1>5 DEF LocalCheck, Done
  <2>2. Expiring(d)' = Expiring(d)
    <3>1. Expiring(d)' = Expiring(d) - (IF d = from[r] /\ pc[r] = "expire" THEN 1 ELSE 0)
      BY <2>1, LeaveCounts
    <3>. QED
      BY <3>1, <2>1, <1>0
  <2>3. served' = served \/ Serve("local", from[r])
    BY <1>5, Zenon DEF LocalCheck, Refuse
  <2>4. from[r] \in Clients
    BY DEF TypeOK
  <2>5. \A s \in Int : s <= now => Since(served["redis"], d, s)' = Since(served["redis"], d, s)
    BY <2>1, <2>3, <2>4, RedisServes
  <2>. QED
    BY <2>1, <2>2, <2>5, <1>0, <1>b
<1>6. CASE Tick
  BY <1>6, KeyAges
<1>7. CASE RedisRestart
  BY <1>7, KeyLost
<1>8. CASE ProxyRestart
  <2>1. now' = now /\ served' = served /\ UNCHANGED redis
    BY <1>8 DEF ProxyRestart
  <2>2. Waiting(d, "expire")' = {}
    BY <1>8 DEF ProxyRestart, Waiting
  <2>3. Expiring(d)' = 0
    BY <2>2, FS_EmptySet DEF Expiring
  <2>4. \A s \in Int : s <= now => Since(served["redis"], d, s)' = Since(served["redis"], d, s)
    BY <2>1, RedisServes
  <2>. QED
    BY <2>1, <2>3, <2>4, <1>0, <1>b
<1>9. CASE UNCHANGED vars
  <2>1. now' = now /\ served' = served /\ UNCHANGED redis
    BY <1>9 DEF vars
  <2>2. Expiring(d)' = Expiring(d)
    BY <1>9 DEF vars, request, Expiring, Waiting
  <2>4. \A s \in Int : s <= now => Since(served["redis"], d, s)' = Since(served["redis"], d, s)
    BY <2>1, RedisServes
  <2>. QED
    BY <2>1, <2>2, <2>4, <1>0, <1>b
<1>. QED
  BY <1>1, <1>2, <1>3, <1>4, <1>5, <1>6, <1>7, <1>8, <1>9 DEF Next

LEMMA CounterStep == TypeOK /\ TypeOK' /\ CounterInv /\ [Next]_vars => CounterInv'
PROOF
<1>. SUFFICES ASSUME TypeOK, TypeOK', CounterInv, [Next]_vars PROVE CounterInv'
  OBVIOUS
<1>1. \A c \in Clients : KeyInv(c)'
  BY KeyStep DEF CounterInv
<1>2. CounterBounds'
  <2>1. ASSUME NEW c \in Clients, NEW t \in 0 .. now'
        PROVE  Between(served'["redis"], c, t - Window + 1, t) <= (2 + faults'["redis"]) * Limit
    <3>1. KeyInv(c)'
      BY KeyStep DEF CounterInv
    <3>. QED
      BY <3>1, CounterBoundsStep DEF CounterInv
  <2>. QED
    BY <2>1 DEF CounterBounds
<1>. QED
  BY <1>1, <1>2 DEF CounterInv

-----------------------------------------------------------------------------
(* The local windows.                                                      *)

LEMMA WindowTyped ==
  ASSUME TypeOK, NEW d \in Clients
  PROVE  /\ window[d] \in Seq(Ticks) /\ Len(window[d]) \in Nat /\ DOMAIN window[d] = 1 .. Len(window[d])
         /\ \A i \in 1 .. Len(window[d]) : window[d][i] \in Int
         /\ now \in Int /\ now \in Ticks
         /\ \A k \in Checks, s \in Int : s <= now => Since(served[k], d, s) \in Int
PROOF
<1>1. window[d] \in Seq(Ticks) /\ \A t \in Ticks : t \in Int
  BY BoundAssumption DEF TypeOK, Ticks
<1>2. now \in Ticks /\ \A k \in Checks : served[k] \in Hist
  BY DEF TypeOK, Hist
<1>. QED
  BY <1>1, <1>2, BetweenTyped DEF Since

LEMMA WindowKept ==
  ASSUME TypeOK, [Next]_vars, NEW d \in Clients, WindowSorted(d), WindowRemembers(d),
         now' = now, window'[d] = window[d],
         \A s \in Int : s <= now => Since(served["local"], d, s)' = Since(served["local"], d, s)
  PROVE  WindowSorted(d)' /\ WindowRemembers(d)'
PROOF
<1>1. Lost("proxy") \in Nat /\ Lost("proxy")' \in Nat /\ Lost("proxy") <= Lost("proxy")'
  BY LostGrows DEF FaultKinds
<1>2. Len(window[d]) \in Nat /\ \A s \in Int : s <= now => Since(served["local"], d, s) \in Int
  BY WindowTyped DEF Checks
<1>3. WindowSorted(d)'
  BY DEF WindowSorted
<1>4. WindowRemembers(d)'
  <2>. SUFFICES ASSUME NEW s \in Int, NEW k \in Nat, now - Window <= s, s <= now,
                       k <= Len(window[d]), \A i \in 1 .. k : window[d][i] < s
                PROVE  Since(served["local"], d, s) <= Len(window[d]) - k + Lost("proxy")'
    BY DEF WindowRemembers
  <2>1. Since(served["local"], d, s) <= Len(window[d]) - k + Lost("proxy")
    BY DEF WindowRemembers
  <2>. QED
    BY <2>1, <1>1, <1>2
<1>. QED
  BY <1>3, <1>4

\* The first n entries go, and the entry of the request that is let through
\* comes: then the window is as long as it was before, less n, and one longer.
LEMMA WindowChecked ==
  ASSUME TypeOK, [Next]_vars, NEW c \in Clients, WindowSorted(c), WindowRemembers(c), now' = now,
         NEW b \in {0, 1},
         LET recent == Evict(window[c], now - Window)
         IN  IF b = 1 THEN Len(recent) < Limit /\ window'[c] = Append(recent, now)
                      ELSE window'[c] = recent,
         \A s \in Int : s <= now => Since(served["local"], c, s)' = Since(served["local"], c, s) + b
  PROVE  WindowSorted(c)' /\ WindowRemembers(c)'
PROOF
<1>. DEFINE q == window[c]
            w == Evict(q, now - Window)
            v == window'[c]
<1>1. Lost("proxy") \in Nat /\ Lost("proxy")' \in Nat /\ Lost("proxy") <= Lost("proxy")'
  BY LostGrows DEF FaultKinds
<1>2. /\ q \in Seq(Ticks) /\ Len(q) \in Nat /\ DOMAIN q = 1 .. Len(q)
      /\ \A i \in 1 .. Len(q) : q[i] \in Int
      /\ now \in Int /\ now \in Ticks
      /\ \A s \in Int : s <= now => Since(served["local"], c, s) \in Int
  BY WindowTyped DEF Checks
<1>3. PICK n \in 0 .. Len(q) :
        /\ \A i \in 1 .. n : q[i] < now - Window
        /\ w \in Seq(Ticks) /\ Len(w) = Len(q) - n
        /\ \A i \in 1 .. Len(q) - n : w[i] = q[n + i]
  <2>1. now - Window \in Int
    BY <1>2, ConstantTypes
  <2>. QED
    BY <2>1, <1>2, EvictOldest
<1>4. /\ Len(q) <= Limit
      /\ \A i \in 1 .. Len(q) : q[i] <= now
      /\ \A i, j \in 1 .. Len(q) : i <= j => q[i] <= q[j]
  BY <1>2 DEF WindowSorted
<1>. HIDE DEF q
<1>5. n \in Int /\ n >= 0 /\ n <= Len(q)
  BY <1>2
<1>6. /\ Len(w) \in Nat /\ Len(w) <= Limit
      /\ \A i \in 1 .. Len(w) : n + i \in 1 .. Len(q) /\ w[i] = q[n + i] /\ w[i] <= now
      /\ \A i, j \in 1 .. Len(w) : i <= j => w[i] <= w[j]
  <2>1. \A i \in 1 .. Len(w) : n + i \in 1 .. Len(q) /\ w[i] = q[n + i]
    BY <1>2, <1>3, <1>5
  <2>2. Len(w) \in Nat /\ Len(w) <= Limit
    BY <1>2, <1>3, <1>4, <1>5, ConstantTypes, SMTT(20)
  <2>3. \A i \in 1 .. Len(w) : w[i] <= now
    BY <2>1, <1>4
  <2>4. ASSUME NEW i \in 1 .. Len(w), NEW j \in 1 .. Len(w), i <= j PROVE w[i] <= w[j]
    <3>1. n + i \in 1 .. Len(q) /\ n + j \in 1 .. Len(q) /\ n + i <= n + j
      BY <2>1, <2>2, <2>4, <1>5
    <3>2. q[n + i] <= q[n + j]
      BY <3>1, <1>4
    <3>. QED
      BY <3>2, <2>1
  <2>. QED
    BY <2>1, <2>2, <2>3, <2>4
<1>. HIDE DEF w
<1>7. /\ Len(v) = Len(w) + b /\ DOMAIN v = 1 .. Len(w) + b
      /\ \A i \in 1 .. Len(w) : v[i] = w[i]
      /\ b = 1 => v[Len(w) + 1] = now /\ Len(w) < Limit
  <2>0. w \in Seq(Ticks) /\ now \in Ticks
    BY <1>2, <1>3
  <2>1. CASE b = 1
    <3>1. v = Append(w, now) /\ Len(w) < Limit
      BY <2>1 DEF q, w
    <3>2. Len(v) = Len(w) + 1 /\ DOMAIN v = 1 .. Len(w) + 1 /\ v[Len(w) + 1] = now
      BY <3>1, <2>0
    <3>3. \A i \in 1 .. Len(w) : v[i] = w[i]
      BY <3>1, <2>0
    <3>. QED
      BY <3>1, <3>2, <3>3, <2>1
  <2>2. CASE b = 0
    <3>1. v = w
      BY <2>2 DEF q, w
    <3>2. DOMAIN w = 1 .. Len(w)
      BY <2>0
    <3>. QED
      BY <3>1, <3>2, <2>2, <1>6
  <2>. QED
    BY <2>1, <2>2
<1>. HIDE DEF v
<1>7a. b \in Int /\ 0 <= b /\ b <= 1 /\ \A i \in 1 .. Len(w) + b : i \in 1 .. Len(w) \/ (b = 1 /\ i = Len(w) + 1)
  BY <1>6
<1>7b. \A i \in 1 .. Len(w) : w[i] \in Int
  BY <1>2, <1>6
<1>8. WindowSorted(c)'
  <2>1. \A i \in 1 .. Len(w) + b : v[i] <= now
    <3>1. ASSUME NEW i \in 1 .. Len(w) + b PROVE v[i] <= now
      <4>1. CASE i \in 1 .. Len(w)
        BY <4>1, <1>6, <1>7
      <4>2. CASE b = 1 /\ i = Len(w) + 1
        BY <4>2, <1>2, <1>7
      <4>. QED
        BY <4>1, <4>2, <1>7a
    <3>. QED
      BY <3>1
  <2>2. ASSUME NEW i \in 1 .. Len(w) + b, NEW j \in 1 .. Len(w) + b, i <= j PROVE v[i] <= v[j]
    <3>1. CASE j \in 1 .. Len(w)
      <4>1. i \in 1 .. Len(w)
        BY <3>1, <2>2, <1>6, <1>7a
      <4>2. v[i] = w[i] /\ v[j] = w[j]
        BY <3>1, <4>1, <1>7
      <4>. QED
        BY <3>1, <4>1, <4>2, <2>2, <1>6
    <3>2. CASE j \notin 1 .. Len(w)
      <4>1. v[j] = now
        BY <3>2, <1>7, <1>7a
      <4>. QED
        BY <4>1, <2>1
    <3>. QED
      BY <3>1, <3>2
  <2>3. Len(v) <= Limit
    BY <1>6, <1>7, ConstantTypes
  <2>. QED
    BY <2>1, <2>2, <2>3, <1>7 DEF WindowSorted, v
<1>9. WindowRemembers(c)'
  <2>. SUFFICES ASSUME NEW s \in Int, NEW k \in Nat, now - Window <= s, s <= now,
                       k <= Len(v), \A i \in 1 .. k : v[i] < s
                PROVE  Since(served["local"], c, s) + b <= Len(v) - k + Lost("proxy")'
    BY DEF WindowRemembers, v
  <2>1. k <= Len(w)
    <3>1. SUFFICES ASSUME ~(k <= Len(w)) PROVE FALSE
      OBVIOUS
    <3>2. b = 1 /\ Len(w) + 1 \in 1 .. k
      BY <3>1, <1>6, <1>7
    <3>3. now < s
      BY <3>2, <1>7
    <3>. QED
      BY <3>3, <1>2
  <2>2. n + k \in Nat /\ n + k <= Len(q)
    BY <2>1, <1>2, <1>3, <1>5, <1>6
  <2>3. ASSUME NEW i \in 1 .. n + k PROVE q[i] < s
    <3>1. CASE i <= n
      <4>1. i \in 1 .. n /\ i \in 1 .. Len(q)
        BY <3>1, <1>2, <1>5
      <4>2. q[i] < now - Window /\ q[i] \in Int
        BY <4>1, <1>2, <1>3 DEF q
      <4>. QED
        BY <4>2, <1>2, ConstantTypes, SMTT(20)
    <3>2. CASE n < i
      <4>. DEFINE j == i - n
      <4>1. j \in 1 .. k /\ j \in 1 .. Len(w) /\ n + j = i
        BY <3>2, <2>1, <1>5, <1>6
      <4>. HIDE DEF j
      <4>2. v[j] < s /\ v[j] = w[j] /\ w[j] = q[n + j]
        BY <4>1, <1>6, <1>7
      <4>. QED
        BY <4>1, <4>2
    <3>. QED
      BY <3>1, <3>2, <1>5
  <2>4. Since(served["local"], c, s) <= Len(q) - (n + k) + Lost("proxy")
    BY <2>2, <2>3 DEF WindowRemembers, q
  <2>5. Since(served["local"], c, s) \in Int
    BY <1>2
  <2>. DEFINE a == Since(served["local"], c, s)
              f == Lost("proxy")
              l == Len(q)
              m == Len(w)
  <2>6. a \in Int /\ f \in Int /\ l \in Int /\ m = l - n /\ a <= l - (n + k) + f /\ Len(v) = m + b
    BY <2>4, <2>5, <1>1, <1>2, <1>3, <1>7
  <2>. HIDE DEF a, f, l, m
  <2>7. a + b <= m + b - k + f
    BY <2>6, <1>5, <1>7a
  <2>8. f <= Lost("proxy")' /\ Lost("proxy")' \in Int
    BY <1>1 DEF f
  <2>9. a + b <= Len(v) - k + Lost("proxy")'
    BY <2>6, <2>7, <2>8, <1>5, <1>7a
  <2>. QED
    BY <2>9 DEF a
<1>. QED
  BY <1>8, <1>9

LEMMA WindowAges ==
  ASSUME TypeOK, [Next]_vars, NEW c \in Clients, WindowSorted(c), WindowRemembers(c), Tick
  PROVE  WindowSorted(c)' /\ WindowRemembers(c)'
PROOF
<1>1. Lost("proxy") \in Nat /\ Lost("proxy")' = Lost("proxy")
  BY LostGrows DEF FaultKinds, Tick, Lost
<1>2. /\ Len(window[c]) \in Nat /\ DOMAIN window[c] = 1 .. Len(window[c]) /\ now \in Int
      /\ \A i \in 1 .. Len(window[c]) : window[c][i] \in Int
  BY WindowTyped
<1>3. now' = now + 1 /\ window' = window
  BY DEF Tick
<1>4. /\ \A s \in Int : s <= now => Since(served["local"], c, s)' = Since(served["local"], c, s)
      /\ \A s \in Int : s = now + 1 => Since(served["local"], c, s)' = 0
  <2>1. now \in Ticks /\ now + 1 \in Ticks
    BY BoundAssumption DEF Ticks, TypeOK, Tick
  <2>2. served["local"] \in Hist /\ served'["local"] = Carried(served["local"])
    BY DEF Tick, Checks, TypeOK, Hist
  <2>. QED
    BY <2>1, <2>2, <1>3, CarriedOn DEF Since
<1>5. WindowSorted(c)'
  <2>1. \A i \in DOMAIN window[c] : window[c][i] <= now + 1
    BY <1>2 DEF WindowSorted
  <2>2. window'[c] = window[c]
    BY <1>3
  <2>. QED
    BY <2>1, <2>2, <1>3 DEF WindowSorted
<1>6. WindowRemembers(c)'
  <2>. SUFFICES ASSUME NEW s \in Int, NEW k \in Nat, now' - Window <= s, s <= now',
                       k <= Len(window'[c]), \A i \in 1 .. k : window'[c][i] < s
                PROVE  Since(served["local"], c, s)' <= Len(window'[c]) - k + Lost("proxy")'
    BY DEF WindowRemembers
  <2>0. window'[c] = window[c] /\ Lost("proxy")' = Lost("proxy") /\ now + 1 - Window <= s /\ s <= now + 1
    <3>1. now' = now + 1 /\ window'[c] = window[c] /\ Lost("proxy")' = Lost("proxy")
      BY <1>1, <1>3
    <3>2. now' - Window <= s /\ s <= now'
      OBVIOUS
    <3>3. \A n, w, m \in Int : m = n + 1 /\ m - w <= s /\ s <= m => n + 1 - w <= s /\ s <= n + 1
      OBVIOUS
    <3>4. now \in Int /\ Window \in Int /\ now' \in Int
      BY <1>2, <3>1, ConstantTypes
    <3>5. now + 1 - Window <= s /\ s <= now + 1
      BY <3>1, <3>2, <3>3, <3>4
    <3>. QED
      BY <3>1, <3>5
  <2>1. CASE s <= now
    <3>1. now - Window <= s
      <4>1. \A n, w \in Int : n + 1 - w <= s => n - w <= s
        OBVIOUS
      <4>. QED
        BY <4>1, <2>0, <1>2, ConstantTypes
    <3>2. Since(served["local"], c, s) <= Len(window[c]) - k + Lost("proxy")
      BY <3>1, <2>0, <2>1 DEF WindowRemembers
    <3>. QED
      BY <3>2, <2>0, <2>1, <1>4
  <2>2. CASE s = now + 1
    BY <2>0, <2>2, <1>1, <1>2, <1>4
  <2>. QED
    BY <2>0, <2>1, <2>2, <1>2
<1>. QED
  BY <1>5, <1>6

\* What a window held is what a restart of the proxy forgets, and that is at most
\* one limit.
LEMMA WindowForgotten ==
  ASSUME TypeOK, [Next]_vars, NEW c \in Clients, WindowSorted(c), WindowRemembers(c), ProxyRestart
  PROVE  WindowSorted(c)' /\ WindowRemembers(c)'
PROOF
<1>1. Lost("proxy") \in Nat /\ Lost("proxy")' = Lost("proxy") + Limit
  <2>1. faults'["proxy"] = faults["proxy"] + 1 /\ faults["proxy"] \in Nat
    BY FaultsCount DEF ProxyRestart, FaultKinds, TypeOK
  <2>2. faults["proxy"] <= faults["proxy"]
    BY <2>1
  <2>. QED
    BY <2>1, <2>2, LimitTimes DEF Lost
<1>2. Len(window[c]) \in Nat /\ \A s \in Int : s <= now => Since(served["local"], c, s) \in Int
  BY WindowTyped DEF Checks
<1>3. window'[c] = <<>> /\ now' = now /\ served' = served
  BY DEF ProxyRestart
<1>4. Len(<<>>) = 0 /\ DOMAIN <<>> = {}
  OBVIOUS
<1>5. WindowSorted(c)'
  BY <1>3, <1>4, ConstantTypes DEF WindowSorted
<1>6. WindowRemembers(c)'
  <2>. SUFFICES ASSUME NEW s \in Int, NEW k \in Nat, now - Window <= s, s <= now, k <= 0
                PROVE  Since(served["local"], c, s) <= 0 - k + Lost("proxy")'
    BY <1>3, <1>4 DEF WindowRemembers, Since
  <2>1. k = 0
    OBVIOUS
  <2>2. 0 \in Nat /\ 0 <= Len(window[c]) /\ \A i \in 1 .. 0 : window[c][i] < s
    BY <1>2
  <2>3. Since(served["local"], c, s) <= Len(window[c]) - 0 + Lost("proxy")
    BY <2>2 DEF WindowRemembers
  <2>4. Len(window[c]) <= Limit
    BY DEF WindowSorted
  <2>. QED
    BY <2>1, <2>3, <2>4, <1>1, <1>2, ConstantTypes
<1>. QED
  BY <1>5, <1>6

LEMMA FallbackSlidesStep ==
  ASSUME TypeOK, TypeOK', [Next]_vars, FallbackSlides, NEW c \in Clients,
         WindowSorted(c)', WindowRemembers(c)', NEW t \in 0 .. now'
  PROVE  Between(served'["local"], c, t - Window, t) <= (1 + faults'["proxy"]) * Limit
PROOF
<1>1. /\ now' \in Nat /\ now' <= MaxTime /\ now' \in Ticks /\ now \in Int /\ t \in Int /\ t \in Ticks
      /\ t - Window \in Int /\ t - Window <= t
  BY ConstantTypes DEF TypeOK, Ticks
<1>2. /\ faults["proxy"] \in Nat /\ faults'["proxy"] \in Nat /\ faults["proxy"] <= faults'["proxy"]
  BY PastStays DEF TypeOK, FaultKinds
<1>3. /\ (1 + faults["proxy"]) * Limit = Limit + Lost("proxy")
      /\ (1 + faults'["proxy"]) * Limit = Limit + Lost("proxy")'
      /\ Lost("proxy") \in Nat /\ Lost("proxy")' \in Nat /\ Lost("proxy") <= Lost("proxy")'
  <2>1. ASSUME NEW f \in Nat, NEW g \in Nat, f <= g
        PROVE  /\ (1 + f) * Limit = Limit + f * Limit /\ (1 + g) * Limit = Limit + g * Limit
               /\ f * Limit \in Nat /\ g * Limit \in Nat /\ f * Limit <= g * Limit
    <3>1. g <= g
      OBVIOUS
    <3>2. (1 + g) * Limit = Limit + g * Limit
      BY <3>1, LimitTimes
    <3>. QED
      BY <2>1, <3>2, LimitTimes
  <2>. QED
    BY <2>1, <1>2 DEF Lost
<1>4. served["local"] \in Hist /\ served'["local"] \in Hist
  BY DEF TypeOK, Hist, Checks
<1>5. CASE t < now'
  <2>1. t <= now
        /\ Between(served'["local"], c, t - Window, t) = Between(served["local"], c, t - Window, t)
    BY <1>1, <1>5, PastStays DEF PastKept
  <2>2. Between(served["local"], c, t - Window, t) <= (1 + faults["proxy"]) * Limit
    BY <1>1, <2>1 DEF FallbackSlides
  <2>3. Between(served["local"], c, t - Window, t) \in Int
    BY <1>1, <1>4, BetweenTyped
  <2>. QED
    BY <2>1, <2>2, <2>3, <1>3, ConstantTypes
<1>6. CASE t = now'
  <2>1. Len(window'[c]) \in Nat /\ Len(window'[c]) <= Limit
    BY DEF TypeOK, WindowSorted
  <2>. DEFINE s == t - Window
              k == 0
  <2>2. s \in Int /\ now' - Window <= s /\ s <= now' /\ k \in Nat /\ k <= Len(window'[c])
        /\ \A i \in 1 .. k : window'[c][i] < s
    BY <1>1, <1>6, <2>1
  <2>. HIDE DEF s, k
  <2>3. Since(served["local"], c, s)' <= Len(window'[c]) - k + Lost("proxy")'
    BY <2>2 DEF WindowRemembers
  <2>4. Since(served["local"], c, s)' = Between(served'["local"], c, t - Window, t)
    BY <1>6 DEF Since, s
  <2>5. Between(served'["local"], c, t - Window, t) \in Int
    BY <1>1, <1>4, BetweenTyped
  <2>. QED
    BY <2>1, <2>3, <2>4, <2>5, <1>3, ConstantTypes DEF k
<1>. QED
  BY <1>1, <1>5, <1>6

LEMMA WindowInit == Init => WindowInv
PROOF
<1>. SUFFICES ASSUME Init PROVE WindowInv
  OBVIOUS
<1>1. TypeOK /\ now = 0 /\ now \in Ticks
  BY TypeInit DEF Init, TypeOK
<1>2. \A k \in Checks, c \in Clients, t \in Ticks : served[k][c][t] = 0
  BY DEF Init, Zero
<1>3. \A c \in Clients, s \in Int, t \in Ticks : s <= t => Between(served["local"], c, s, t) = 0
  <2>. SUFFICES ASSUME NEW c \in Clients, NEW s \in Int, NEW t \in Ticks, s <= t
                PROVE  Between(served["local"], c, s, t) = 0
    OBVIOUS
  <2>1. s > 0 => s - 1 \in Ticks
    BY BetweenTyped, <1>1 DEF TypeOK, Hist, Checks
  <2>. QED
    BY <2>1, <1>2 DEF Between, Checks
<1>4. Lost("proxy") \in Nat /\ (1 + faults["proxy"]) * Limit \in Nat
  BY ConstantTypes DEF Init, Lost, FaultKinds
<1>5. ASSUME NEW c \in Clients PROVE WindowSorted(c) /\ WindowRemembers(c)
  <2>1. window[c] = <<>> /\ Len(<<>>) = 0 /\ DOMAIN <<>> = {}
    BY DEF Init
  <2>2. \A s \in Int : s <= now => Since(served["local"], c, s) = 0
    BY <1>1, <1>3 DEF Since
  <2>3. WindowSorted(c)
    BY <2>1, ConstantTypes DEF WindowSorted
  <2>4. WindowRemembers(c)
    BY <2>1, <2>2, <1>4 DEF WindowRemembers
  <2>. QED
    BY <2>3, <2>4
<1>6. FallbackSlides
  <2>. SUFFICES ASSUME NEW c \in Clients, NEW t \in 0 .. now
                PROVE  Between(served["local"], c, t - Window, t) <= (1 + faults["proxy"]) * Limit
    BY DEF FallbackSlides
  <2>1. t \in Ticks /\ t - Window \in Int /\ t - Window <= t
    BY <1>1, ConstantTypes DEF Ticks
  <2>. QED
    BY <2>1, <1>3, <1>4
<1>. QED
  BY <1>5, <1>6 DEF WindowInv

LEMMA LocalServes ==
  ASSUME TypeOK, NEW c \in Clients, now' = now, NEW d \in Clients
  PROVE  /\ served' = served \/ Serve("redis", c) =>
              \A s \in Int : s <= now => Since(served["local"], d, s)' = Since(served["local"], d, s)
         /\ Serve("local", c) =>
              \A s \in Int : s <= now =>
                Since(served["local"], d, s)' = Since(served["local"], d, s) + (IF d = c THEN 1 ELSE 0)
PROOF
<1>1. ASSUME served' = served \/ Serve("redis", c)
      PROVE  \A s \in Int : Since(served["local"], d, s)' = Since(served["local"], d, s)
  <2>1. served'["local"] = served["local"]
    BY <1>1 DEF TypeOK, Serve, Checks
  <2>. QED
    BY <2>1 DEF Since
<1>2. ASSUME Serve("local", c), NEW s \in Int, s <= now
      PROVE  Since(served["local"], d, s)' = Since(served["local"], d, s) + (IF d = c THEN 1 ELSE 0)
  <2>1. served'["local"] = [served["local"] EXCEPT ![c][now] = @ + 1]
    BY <1>2 DEF TypeOK, Serve, Checks
  <2>2. served["local"] \in Hist /\ now \in Ticks
    BY DEF TypeOK, Hist, Checks
  <2>. QED
    BY <2>1, <2>2, <1>2, CountedUp DEF Since
<1>. QED
  BY <1>1, <1>2

LEMMA WindowStep ==
  ASSUME TypeOK, [Next]_vars, NEW d \in Clients, WindowSorted(d), WindowRemembers(d)
  PROVE  WindowSorted(d)' /\ WindowRemembers(d)'
PROOF
<1>1. ASSUME window' = window, now' = now,
             NEW c \in Clients, served' = served \/ Serve("redis", c)
      PROVE  WindowSorted(d)' /\ WindowRemembers(d)'
  <2>1. \A s \in Int : s <= now => Since(served["local"], d, s)' = Since(served["local"], d, s)
    BY <1>1, LocalServes
  <2>2. window'[d] = window[d]
    BY <1>1
  <2>. QED
    BY <1>1, <2>1, <2>2, WindowKept
<1>2. ASSUME NEW r \in Requests, NEW c \in Clients, Incr(r, c) \/ IncrFails(r, c) \/ Bypass(r, c)
      PROVE  WindowSorted(d)' /\ WindowRemembers(d)'
  <2>1. window' = window /\ now' = now
    BY <1>2 DEF Incr, IncrFails, Bypass
  <2>2. served' = served \/ Serve("redis", c)
    BY <1>2, Zenon DEF Incr, IncrFails, Bypass, Refuse
  <2>. QED
    BY <2>1, <2>2, <1>1
<1>3. ASSUME NEW r \in Requests, Expire(r) \/ ExpireFails(r)
      PROVE  WindowSorted(d)' /\ WindowRemembers(d)'
  <2>1. window' = window /\ now' = now /\ from[r] \in Clients
        /\ (served' = served \/ Serve("redis", from[r]))
    BY <1>3 DEF Expire, ExpireFails, TypeOK
  <2>. QED
    BY <2>1, <1>1
<1>4. ASSUME NEW r \in Requests, LocalCheck(r)
      PROVE  WindowSorted(d)' /\ WindowRemembers(d)'
  <2>. DEFINE c == from[r]
              recent == Evict(window[c], now - Window)
  <2>1. c \in Clients /\ now' = now /\ window \in [Clients -> Seq(Ticks)]
        /\ \A s \in Int : s <= now => Since(served["local"], d, s) \in Int
    BY <1>4, WindowTyped DEF TypeOK, LocalCheck, Checks
  <2>2. CASE Len(recent) >= Limit
    <3>1. window' = [window EXCEPT ![c] = recent] /\ served' = served
      BY <1>4, <2>2, Zenon DEF LocalCheck, Refuse
    <3>2. \A s \in Int : s <= now => Since(served["local"], d, s)' = Since(served["local"], d, s)
      BY <3>1, <2>1, LocalServes
    <3>3. CASE d = c
      <4>1. window'[d] = Evict(window[d], now - Window)
        BY <3>1, <3>3, <2>1
      <4>. DEFINE b == 0
      <4>2. \A s \in Int : s <= now => Since(served["local"], d, s)' = Since(served["local"], d, s) + b
        BY <3>2, <2>1
      <4>3. b \in {0, 1} /\ b # 1
        OBVIOUS
      <4>. HIDE DEF b
      <4>. QED
        BY <4>1, <4>2, <4>3, <2>1, WindowChecked
    <3>4. CASE d # c
      BY <3>1, <3>2, <3>4, <2>1, WindowKept
    <3>. QED
      BY <3>3, <3>4
  <2>3. CASE ~(Len(recent) >= Limit)
    <3>1. window' = [window EXCEPT ![c] = Append(recent, now)] /\ Serve("local", c)
      BY <1>4, <2>3, Zenon DEF LocalCheck
    <3>2. \A s \in Int : s <= now =>
            Since(served["local"], d, s)' = Since(served["local"], d, s) + (IF d = c THEN 1 ELSE 0)
      BY <3>1, <2>1, LocalServes
    <3>3. CASE d = c
      <4>1. window'[d] = Append(Evict(window[d], now - Window), now)
        BY <3>1, <3>3, <2>1
      <4>. DEFINE b == 1
      <4>2. \A s \in Int : s <= now => Since(served["local"], d, s)' = Since(served["local"], d, s) + b
        BY <3>2, <3>3
      <4>3. Len(Evict(window[d], now - Window)) < Limit
        <5>1. window[c] \in Seq(Ticks) /\ now - Window \in Int
          BY <2>1, WindowTyped, ConstantTypes
        <5>2. recent \in Seq(Ticks)
          BY <5>1, EvictOldest, Zenon
        <5>3. Len(recent) \in Nat
          BY <5>2
        <5>. QED
          BY <5>3, <2>3, <3>3, ConstantTypes
      <4>4. b \in {0, 1} /\ b = 1
        OBVIOUS
      <4>. HIDE DEF b
      <4>. QED
        BY <4>1, <4>2, <4>3, <4>4, <2>1, WindowChecked
    <3>4. CASE d # c
      <4>1. \A s \in Int : s <= now => Since(served["local"], d, s)' = Since(served["local"], d, s)
        BY <3>2, <3>4, <2>1
      <4>. QED
        BY <3>1, <4>1, <3>4, <2>1, WindowKept
    <3>. QED
      BY <3>3, <3>4
  <2>. QED
    BY <2>2, <2>3
<1>5. CASE Tick
  BY <1>5, WindowAges
<1>6. CASE RedisRestart
  BY <1>6, <1>1 DEF RedisRestart
<1>7. CASE ProxyRestart
  BY <1>7, WindowForgotten
<1>8. CASE UNCHANGED vars
  BY <1>8, <1>1 DEF vars
<1>. QED
  BY <1>2, <1>3, <1>4, <1>5, <1>6, <1>7, <1>8 DEF Next

LEMMA WindowInvStep == TypeOK /\ TypeOK' /\ WindowInv /\ [Next]_vars => WindowInv'
PROOF
<1>. SUFFICES ASSUME TypeOK, TypeOK', WindowInv, [Next]_vars PROVE WindowInv'
  OBVIOUS
<1>1. \A c \in Clients : WindowSorted(c)' /\ WindowRemembers(c)'
  BY WindowStep DEF WindowInv
<1>2. FallbackSlides'
  <2>1. ASSUME NEW c \in Clients, NEW t \in 0 .. now'
        PROVE  Between(served'["local"], c, t - Window, t) <= (1 + faults'["proxy"]) * Limit
    <3>1. WindowSorted(c)' /\ WindowRemembers(c)'
      BY WindowStep DEF WindowInv
    <3>. QED
      BY <3>1, FallbackSlidesStep DEF WindowInv
  <2>. QED
    BY <2>1 DEF FallbackSlides
<1>. QED
  BY <1>1, <1>2 DEF WindowInv

-----------------------------------------------------------------------------
(* Refusals.                                                               *)

LEMMA AskedTyped ==
  ASSUME TypeOK
  PROVE  /\ asked \in Hist /\ refused \in Hist /\ now \in Ticks /\ now \in Int /\ 0 <= now /\ now <= MaxTime
         /\ \A t \in Ticks : t \in Int
         /\ \A c \in Clients, t \in Ticks : asked[c][t] \in Nat
         /\ \A c \in Clients, s \in Int : s <= now => Since(asked, c, s) \in Int
PROOF
<1>1. asked \in Hist /\ refused \in Hist /\ now \in Ticks /\ now \in Int /\ 0 <= now /\ now <= MaxTime
      /\ \A t \in Ticks : t \in Int
  BY BoundAssumption DEF TypeOK, Hist, Ticks
<1>2. \A c \in Clients, t \in Ticks : asked[c][t] \in Nat
  BY <1>1 DEF Hist
<1>. QED
  BY <1>1, <1>2, BetweenTyped DEF Since

\* The requests of a client are asked for one after another.
AsksNext(c) == asked' = [asked EXCEPT ![c][now] = @ + 1] /\ now' = now

LEMMA AskedOrNot ==
  ASSUME TypeOK, [Next]_vars
  PROVE  \/ asked' = asked /\ now' = now
         \/ \E c \in Clients : AsksNext(c)
         \/ Tick
PROOF
<1>1. ASSUME NEW r \in Requests, NEW c \in Clients, Incr(r, c) \/ IncrFails(r, c) \/ Bypass(r, c)
      PROVE  AsksNext(c)
  BY <1>1 DEF Incr, IncrFails, Bypass, Arrive, AsksNext
<1>2. ASSUME NEW r \in Requests, Expire(r) \/ ExpireFails(r) \/ LocalCheck(r)
      PROVE  asked' = asked /\ now' = now
  BY <1>2 DEF Expire, ExpireFails, LocalCheck
<1>3. RedisRestart \/ ProxyRestart \/ UNCHANGED vars => asked' = asked /\ now' = now
  BY DEF RedisRestart, ProxyRestart, vars
<1>. QED
  BY <1>1, <1>2, <1>3 DEF Next

LEMMA AskedCountsUpStep ==
  ASSUME TypeOK, [Next]_vars, AskedCountsUp
  PROVE  AskedCountsUp'
PROOF
<1>0. asked \in Hist /\ now \in Int /\ (\A t \in Ticks : t \in Int) /\ (\A c \in Clients, t \in Ticks : asked[c][t] \in Nat)
  BY AskedTyped
<1>1. CASE asked' = asked /\ now' = now
  BY <1>1 DEF AskedCountsUp
<1>2. ASSUME NEW c \in Clients, AsksNext(c) PROVE AskedCountsUp'
  <2>1. \A d \in Clients, t \in Ticks :
          asked'[d][t] = IF d = c /\ t = now THEN asked[d][t] + 1 ELSE asked[d][t]
    BY <1>0, <1>2 DEF AsksNext, Hist
  <2>2. ASSUME NEW d \in Clients, NEW t \in Ticks, NEW u \in Ticks, t <= u, u <= now
        PROVE  asked'[d][t] <= asked'[d][u]
    <3>1. asked[d][t] <= asked[d][u] /\ asked[d][t] \in Nat /\ asked[d][u] \in Nat
      BY <2>2, <1>0 DEF AskedCountsUp
    <3>2. t = now => u = now
      <4>1. u \in Int
        BY <1>0
      <4>. QED
        BY <4>1, <2>2, <1>0
    <3>. QED
      BY <2>1, <3>1, <3>2
  <2>3. now' = now
    BY <1>2 DEF AsksNext
  <2>. QED
    BY <2>2, <2>3 DEF AskedCountsUp
<1>3. CASE Tick
  <2>1. now' = now + 1 /\ asked' = Carried(asked)
    BY <1>3 DEF Tick
  <2>2. \A d \in Clients, t \in Ticks : asked'[d][t] = IF t = now + 1 THEN asked[d][now] ELSE asked[d][t]
    BY <2>1, <1>0 DEF Carried, Hist
  <2>3. ASSUME NEW d \in Clients, NEW t \in Ticks, NEW u \in Ticks, t <= u, u <= now + 1
        PROVE  asked'[d][t] <= asked'[d][u]
    <3>1. now \in Ticks
      BY DEF TypeOK
    <3>2. CASE u = now + 1
      <4>1. asked'[d][u] = asked[d][now] /\ asked[d][now] \in Nat
        BY <2>2, <3>1, <3>2, <1>0
      <4>2. CASE t = now + 1
        BY <4>1, <4>2, <3>2
      <4>3. CASE t # now + 1
        <5>1. asked'[d][t] = asked[d][t] /\ t <= now
          BY <2>2, <2>3, <4>3, <1>0
        <5>. QED
          BY <5>1, <4>1, <3>1, <1>0 DEF AskedCountsUp
      <4>. QED
        BY <4>2, <4>3
    <3>3. CASE u # now + 1
      <4>1. u <= now /\ t # now + 1
        BY <2>3, <3>3, <1>0
      <4>. QED
        BY <4>1, <3>3, <2>2, <2>3 DEF AskedCountsUp
    <3>. QED
      BY <3>2, <3>3
  <2>. QED
    BY <2>1, <2>3 DEF AskedCountsUp
<1>. QED
  BY <1>1, <1>2, <1>3, AskedOrNot

LEMMA NothingAheadStep ==
  ASSUME TypeOK, [Next]_vars, NothingAhead
  PROVE  NothingAhead'
PROOF
<1>1. PastRefused /\ (now' = now \/ now' = now + 1)
  BY PastStays
<1>2. now \in Int /\ \A t \in Ticks : t \in Int
  BY AskedTyped
<1>3. ASSUME NEW t \in Ticks, now' < t PROVE now < t /\ t # now
  BY <1>1, <1>2, <1>3
<1>. QED
  BY <1>1, <1>3 DEF NothingAhead, PastRefused

\* The earlier the tick, the more was asked for since.
LEMMA SinceIsMore ==
  ASSUME TypeOK, AskedCountsUp, NEW c \in Clients, NEW s \in Int, NEW b \in Int, s <= b, b <= now
  PROVE  /\ Since(asked, c, b) <= Since(asked, c, s) /\ 0 <= Since(asked, c, b)
         /\ Since(asked, c, b) \in Int /\ Since(asked, c, s) \in Int
PROOF
<1>0. now \in Ticks /\ now \in Int /\ 0 <= now /\ now <= MaxTime /\ \A t \in Ticks : asked[c][t] \in Nat
  BY AskedTyped
<1>1. s <= now
  BY <1>0
<1>2. Since(asked, c, b) \in Int /\ Since(asked, c, s) \in Int
  BY <1>1, AskedTyped
<1>3. (b > 0 => b - 1 \in Ticks) /\ (s > 0 => s - 1 \in Ticks)
  BY <1>0, <1>1, BoundAssumption DEF Ticks
<1>4. b > 0 => asked[c][b - 1] <= asked[c][now] /\ asked[c][b - 1] \in Nat
  BY <1>0, <1>3 DEF AskedCountsUp
<1>5. s > 0 => b > 0 /\ asked[c][s - 1] <= asked[c][b - 1] /\ asked[c][s - 1] \in Nat
  <2>. SUFFICES ASSUME s > 0 PROVE b > 0 /\ asked[c][s - 1] <= asked[c][b - 1] /\ asked[c][s - 1] \in Nat
    OBVIOUS
  <2>1. b > 0 /\ s - 1 <= b - 1 /\ b - 1 <= now
    BY <1>0
  <2>2. s - 1 \in Ticks /\ b - 1 \in Ticks
    BY <1>3, <2>1
  <2>. QED
    BY <2>1, <2>2, <1>0 DEF AskedCountsUp
<1>6. asked[c][now] \in Nat
  BY <1>0
<1>. QED
  BY <1>2, <1>4, <1>5, <1>6 DEF Since, Between

\* What a step does to what was asked for since a tick.
LEMMA SinceAsked ==
  ASSUME TypeOK, NEW d \in Clients
  PROVE  /\ asked' = asked /\ now' = now =>
              \A s \in Int : Since(asked, d, s)' = Since(asked, d, s)
         /\ \A c \in Clients : AsksNext(c) =>
              \A s \in Int : s <= now =>
                Since(asked, d, s)' = Since(asked, d, s) + (IF d = c THEN 1 ELSE 0)
         /\ Tick => /\ \A s \in Int : s <= now => Since(asked, d, s)' = Since(asked, d, s)
                    /\ \A s \in Int : s = now + 1 => Since(asked, d, s)' = 0
PROOF
<1>0. asked \in Hist /\ now \in Ticks /\ now \in Int
  BY AskedTyped
<1>1. ASSUME asked' = asked, now' = now
      PROVE  \A s \in Int : Since(asked, d, s)' = Since(asked, d, s)
  BY <1>1 DEF Since
<1>2. ASSUME NEW c \in Clients, AsksNext(c), NEW s \in Int, s <= now
      PROVE  Since(asked, d, s)' = Since(asked, d, s) + (IF d = c THEN 1 ELSE 0)
  <2>1. Between([asked EXCEPT ![c][now] = @ + 1], d, s, now)
          = Between(asked, d, s, now) + (IF d = c THEN 1 ELSE 0)
    BY <1>0, <1>2, CountedUp
  <2>2. Since(asked, d, s)' = Between(asked', d, s, now)
    BY <1>2 DEF AsksNext, Since
  <2>. QED
    BY <2>1, <2>2, <1>2 DEF AsksNext, Since
<1>3. ASSUME Tick
      PROVE  /\ \A s \in Int : s <= now => Since(asked, d, s)' = Since(asked, d, s)
             /\ \A s \in Int : s = now + 1 => Since(asked, d, s)' = 0
  <2>1. now' = now + 1 /\ asked' = Carried(asked) /\ now + 1 \in Ticks
    BY <1>0, <1>3, BoundAssumption DEF Tick, Ticks
  <2>. QED
    BY <2>1, <1>0, CarriedOn DEF Since
<1>. QED
  BY <1>1, <1>2, <1>3

LEMMA SinceGrows ==
  ASSUME TypeOK, [Next]_vars, now' = now, NEW d \in Clients, NEW s \in Int, s <= now
  PROVE  /\ Since(asked, d, s) \in Int /\ Since(asked, d, s)' \in Int
         /\ Since(asked, d, s) <= Since(asked, d, s)'
PROOF
<1>0. Since(asked, d, s) \in Int /\ now \in Int
  BY AskedTyped
<1>1. CASE asked' = asked
  BY <1>0, <1>1, SinceAsked
<1>2. ASSUME NEW c \in Clients, AsksNext(c)
      PROVE  Since(asked, d, s)' = Since(asked, d, s) + (IF d = c THEN 1 ELSE 0)
  BY <1>2, SinceAsked
<1>3. ~Tick
  BY <1>0 DEF Tick
<1>. QED
  BY <1>0, <1>1, <1>2, <1>3, AskedOrNot

\* A step after which neither a call has failed nor the proxy has restarted.
LEMMA FairBefore ==
  ASSUME TypeOK, [Next]_vars, Fair'
  PROVE  /\ Fair /\ ~Fault("call") /\ ~Fault("proxy")
         /\ \A r \in Requests, c \in Clients : ~IncrFails(r, c)
         /\ \A r \in Requests : ~ExpireFails(r)
         /\ ~ProxyRestart
PROOF
<1>1. /\ faults["call"] \in Nat /\ faults["proxy"] \in Nat
      /\ faults'["call"] \in Nat /\ faults'["proxy"] \in Nat
      /\ faults["call"] <= faults'["call"] /\ faults["proxy"] <= faults'["proxy"]
  BY PastStays DEF TypeOK, FaultKinds
<1>2. Fair /\ faults'["call"] = 0 /\ faults'["proxy"] = 0
  BY <1>1 DEF Fair
<1>3. ~Fault("call") /\ ~Fault("proxy")
  BY <1>1, <1>2, FaultsCount DEF FaultKinds
<1>. QED
  BY <1>2, <1>3 DEF IncrFails, ExpireFails, ProxyRestart

LEMMA KeyAskedKept ==
  ASSUME TypeOK, [Next]_vars, NEW d \in Clients, KeyAsked(d), now' = now,
         d \in keys' <=> d \in keys, count'[d] = count[d], expires'[d] = expires[d],
         Waiting(d, "expire")' = Waiting(d, "expire"),
         \A r \in Waiting(d, "expire") : due'[r] = due[r]
  PROVE  KeyAsked(d)'
PROOF
<1>0. now \in Int /\ count[d] \in Nat
  BY AskedTyped DEF TypeOK
<1>. SUFFICES ASSUME d \in keys'
              PROVE  \E b \in 0 .. now' :
                       /\ count'[d] <= Since(asked, d, b)'
                       /\ \A r \in Waiting(d, "expire")' : due'[r] <= b + Timeout
                       /\ IF expires'[d] = Never THEN Waiting(d, "expire")' # {}
                                                 ELSE expires'[d] <= b + Window + Timeout
  BY DEF KeyAsked
<1>1. PICK b \in 0 .. now :
        /\ count[d] <= Since(asked, d, b)
        /\ \A r \in Waiting(d, "expire") : due[r] <= b + Timeout
        /\ IF expires[d] = Never THEN Waiting(d, "expire") # {}
                                 ELSE expires[d] <= b + Window + Timeout
  BY DEF KeyAsked
<1>2. b \in Int /\ b <= now
  BY <1>0
<1>3. count[d] <= Since(asked, d, b)'
  BY <1>0, <1>1, <1>2, SinceGrows
<1>. QED
  BY <1>1, <1>2, <1>3

LEMMA KeyAskedArrives ==
  ASSUME TypeOK, InTime, CounterInv, AskedCountsUp, [Next]_vars, NEW c \in Clients, NEW r \in Requests,
         KeyAsked(c), Incr(r, c)
  PROVE  KeyAsked(c)'
PROOF
<1>0. /\ now \in Int /\ 0 <= now /\ count[c] \in Nat /\ Timeout \in Nat
      /\ \A q \in Requests : due[q] \in Nat
      /\ c \in keys => count[c] > 0
  BY AskedTyped, ConstantTypes DEF TypeOK, CounterInv, KeyInv, KeyLives
<1>1. /\ now' = now /\ ExecuteIncr(c) /\ Arrive(r, c, IF Value(c) = 1 THEN "expire" ELSE "idle")
      /\ AsksNext(c)
  BY DEF Incr, Arrive, AsksNext
<1>2. c \in keys' /\ count'[c] = Value(c) /\ expires'[c] = (IF c \in keys THEN expires[c] ELSE Never)
  BY <1>1 DEF ExecuteIncr, TypeOK
<1>3. \A s \in Int : s <= now => Since(asked, c, s)' = Since(asked, c, s) + 1
  BY <1>1, SinceAsked
<1>4. r \notin Waiting(c, "expire") /\ \A q \in Requests : q # r => due'[q] = due[q]
  BY <1>1, ArriveWaits DEF Arrive, TypeOK
<1>5. Waiting(c, "expire")' = IF Value(c) = 1 THEN Waiting(c, "expire") \cup {r} ELSE Waiting(c, "expire")
  BY <1>1, ArriveWaits
<1>. SUFFICES \E b \in 0 .. now' :
                /\ count'[c] <= Since(asked, c, b)'
                /\ \A q \in Waiting(c, "expire")' : due'[q] <= b + Timeout
                /\ IF expires'[c] = Never THEN Waiting(c, "expire")' # {}
                                          ELSE expires'[c] <= b + Window + Timeout
  BY DEF KeyAsked
<1>6. CASE c \in keys
  <2>1. PICK b \in 0 .. now :
          /\ count[c] <= Since(asked, c, b)
          /\ \A q \in Waiting(c, "expire") : due[q] <= b + Timeout
          /\ IF expires[c] = Never THEN Waiting(c, "expire") # {}
                                   ELSE expires[c] <= b + Window + Timeout
    BY <1>6 DEF KeyAsked
  <2>2. Value(c) = count[c] + 1 /\ Value(c) # 1
    BY <1>0, <1>6 DEF Value
  <2>3. b \in Int /\ b <= now /\ Since(asked, c, b) \in Int
    BY <1>0, AskedTyped
  <2>4. count'[c] <= Since(asked, c, b)'
    BY <2>1, <2>2, <2>3, <1>0, <1>2, <1>3
  <2>5. Waiting(c, "expire")' = Waiting(c, "expire") /\ \A q \in Waiting(c, "expire") : due'[q] = due[q]
    BY <2>2, <1>4, <1>5 DEF Waiting
  <2>. QED
    BY <2>1, <2>4, <2>5, <1>1, <1>2, <1>6
<1>7. CASE c \notin keys
  <2>1. Value(c) = 1 /\ Waiting(c, "expire")' = Waiting(c, "expire") \cup {r}
    BY <1>5, <1>7 DEF Value
  <2>2. count'[c] <= Since(asked, c, now)'
    <3>1. 0 <= Since(asked, c, now) /\ Since(asked, c, now) \in Int
      BY <1>0, SinceIsMore
    <3>2. Since(asked, c, now)' = Since(asked, c, now) + 1
      <4>1. Between(asked', c, now, now') = Since(asked, c, now) + 1
        <5>1. \A s \in Int : s <= now => Between(asked', c, s, now') = Since(asked, c, s) + 1
          BY <1>3 DEF Since
        <5>. QED
          BY <5>1, <1>0
      <4>. QED
        BY <4>1, <1>1 DEF Since
    <3>. QED
      BY <3>1, <3>2, <2>1, <1>2
  <2>3. ASSUME NEW q \in Waiting(c, "expire")' PROVE due'[q] <= now + Timeout
    <3>1. CASE q = r
      BY <3>1, <1>0, <1>1 DEF Arrive, TypeOK
    <3>2. CASE q # r
      <4>1. q \in Waiting(c, "expire")
        BY <2>1, <3>2
      <4>2. due[q] <= now + Timeout /\ due'[q] = due[q]
        BY <4>1, <3>2, <1>4 DEF Waiting, InTime
      <4>. QED
        BY <4>2
    <3>. QED
      BY <3>1, <3>2
  <2>4. now \in 0 .. now'
    BY <1>0, <1>1
  <2>5. Waiting(c, "expire")' # {} /\ expires'[c] = Never
    BY <2>1, <1>2, <1>7
  <2>6. count'[c] <= Between(asked', c, now, now')
    BY <2>2, <1>1 DEF Since
  <2>. QED
    BY <2>3, <2>4, <2>5, <2>6 DEF Since
<1>. QED
  BY <1>6, <1>7

LEMMA KeyAskedExpires ==
  ASSUME TypeOK, InTime, [Next]_vars, NEW r \in Requests, NEW c \in Clients, from[r] = c,
         KeyAsked(c), Expire(r)
  PROVE  KeyAsked(c)'
PROOF
<1>0. c \in Clients /\ now \in Int /\ 0 <= now /\ now <= MaxTime /\ Timeout \in Nat /\ Window \in Int
      /\ Window > 0 /\ Never = MaxTime + Window + 1 /\ due[r] \in Int /\ MaxTime \in Int
  BY AskedTyped, ConstantTypes DEF TypeOK
<1>1. now' = now /\ from' = from /\ due' = due /\ asked' = asked /\ pc[r] = "expire" /\ ExecuteExpire(c)
      /\ pc' = [pc EXCEPT ![r] = "idle"]
  BY DEF Expire, Done
<1>2. keys' = keys /\ count' = count /\ (c \in keys => expires'[c] = now + Window)
  BY <1>0, <1>1 DEF ExecuteExpire, TypeOK
<1>3. Waiting(c, "expire")' = Waiting(c, "expire") \ {r} /\ r \in Waiting(c, "expire")
  BY <1>0, <1>1 DEF Waiting, TypeOK
<1>4. SUFFICES ASSUME c \in keys'
               PROVE  \E b \in 0 .. now' :
                        /\ count'[c] <= Since(asked, c, b)'
                        /\ \A q \in Waiting(c, "expire")' : due'[q] <= b + Timeout
                        /\ IF expires'[c] = Never THEN Waiting(c, "expire")' # {}
                                                  ELSE expires'[c] <= b + Window + Timeout
  BY DEF KeyAsked
<1>5. PICK b \in 0 .. now :
        /\ count[c] <= Since(asked, c, b)
        /\ \A q \in Waiting(c, "expire") : due[q] <= b + Timeout
  BY <1>2, <1>4 DEF KeyAsked
<1>6. expires'[c] = now + Window
  BY <1>2, <1>4
<1>7. expires'[c] # Never
  BY <1>0, <1>6
<1>8. expires'[c] <= b + Window + Timeout
  <2>1. now <= due[r] /\ due[r] <= b + Timeout
    BY <1>1, <1>3, <1>5 DEF InTime
  <2>2. b \in Int
    BY <1>0
  <2>. QED
    BY <2>1, <2>2, <1>0, <1>6
<1>9. count'[c] <= Since(asked, c, b)'
  BY <1>1, <1>2, <1>5 DEF Since
<1>10. \A q \in Waiting(c, "expire")' : due'[q] <= b + Timeout
  BY <1>1, <1>3, <1>5
<1>. QED
  BY <1>1, <1>7, <1>8, <1>9, <1>10

LEMMA KeyAskedStep ==
  ASSUME TypeOK, InTime, CounterInv, AskedCountsUp, [Next]_vars, Fair', NEW d \in Clients, KeyAsked(d)
  PROVE  KeyAsked(d)'
PROOF
<1>1. ASSUME NEW r \in Requests, NEW c \in Clients, Incr(r, c) PROVE KeyAsked(d)'
  <2>1. CASE d = c
    BY <1>1, <2>1, KeyAskedArrives
  <2>2. CASE d # c
    <3>1. now' = now /\ ExecuteIncr(c) /\ Arrive(r, c, IF Value(c) = 1 THEN "expire" ELSE "idle")
      BY <1>1 DEF Incr
    <3>2. (d \in keys' <=> d \in keys) /\ count'[d] = count[d] /\ expires'[d] = expires[d]
      BY <2>2, <3>1 DEF ExecuteIncr, TypeOK
    <3>3. Waiting(d, "expire")' = Waiting(d, "expire") /\ r \notin Waiting(d, "expire")
      BY <2>2, <3>1, ArriveWaits
    <3>4. \A q \in Waiting(d, "expire") : due'[q] = due[q]
      BY <3>1, <3>3 DEF Arrive, TypeOK, Waiting
    <3>. QED
      BY <3>1, <3>2, <3>3, <3>4, KeyAskedKept
  <2>. QED
    BY <2>1, <2>2
<1>2. ASSUME NEW r \in Requests, NEW c \in Clients, Bypass(r, c) PROVE KeyAsked(d)'
  <2>1. now' = now /\ UNCHANGED redis /\ Arrive(r, c, "local")
    BY <1>2 DEF Bypass
  <2>2. Waiting(d, "expire")' = Waiting(d, "expire") /\ r \notin Waiting(d, "expire")
    BY <2>1, ArriveWaits
  <2>3. \A q \in Waiting(d, "expire") : due'[q] = due[q]
    BY <2>1, <2>2 DEF Arrive, TypeOK, Waiting
  <2>. QED
    BY <2>1, <2>2, <2>3, KeyAskedKept DEF redis
<1>3. ASSUME NEW r \in Requests, Expire(r) PROVE KeyAsked(d)'
  <2>1. CASE from[r] = d
    BY <1>3, <2>1, KeyAskedExpires
  <2>2. CASE from[r] # d
    <3>1. now' = now /\ from' = from /\ due' = due /\ pc' = [pc EXCEPT ![r] = "idle"]
          /\ ExecuteExpire(from[r])
      BY <1>3 DEF Expire, Done
    <3>2. (d \in keys' <=> d \in keys) /\ count'[d] = count[d] /\ expires'[d] = expires[d]
      BY <2>2, <3>1 DEF ExecuteExpire, TypeOK
    <3>3. Waiting(d, "expire")' = Waiting(d, "expire")
      BY <2>2, <3>1 DEF Waiting, TypeOK
    <3>. QED
      BY <3>1, <3>2, <3>3, KeyAskedKept
  <2>. QED
    BY <2>1, <2>2
<1>4. ASSUME NEW r \in Requests, LocalCheck(r) PROVE KeyAsked(d)'
  <2>1. /\ now' = now /\ from' = from /\ due' = due /\ pc' = [pc EXCEPT ![r] = "idle"]
        /\ pc[r] = "local" /\ UNCHANGED redis
    BY <1>4 DEF LocalCheck, Done
  <2>2. Waiting(d, "expire")' = Waiting(d, "expire")
    BY <2>1 DEF Waiting, TypeOK
  <2>. QED
    BY <2>1, <2>2, KeyAskedKept DEF redis
<1>5. CASE Tick
  <2>0. now \in Int /\ 0 <= now
    BY AskedTyped
  <2>1. /\ now' = now + 1 /\ count' = count /\ expires' = expires /\ due' = due
        /\ keys' \subseteq keys /\ Waiting(d, "expire")' = Waiting(d, "expire")
    BY <1>5 DEF Tick, request, Waiting
  <2>. SUFFICES ASSUME d \in keys'
                PROVE  \E b \in 0 .. now' :
                         /\ count'[d] <= Since(asked, d, b)'
                         /\ \A r \in Waiting(d, "expire")' : due'[r] <= b + Timeout
                         /\ IF expires'[d] = Never THEN Waiting(d, "expire")' # {}
                                                   ELSE expires'[d] <= b + Window + Timeout
    BY DEF KeyAsked
  <2>2. PICK b \in 0 .. now :
          /\ count[d] <= Since(asked, d, b)
          /\ \A r \in Waiting(d, "expire") : due[r] <= b + Timeout
          /\ IF expires[d] = Never THEN Waiting(d, "expire") # {}
                                   ELSE expires[d] <= b + Window + Timeout
    BY <2>1 DEF KeyAsked
  <2>3. b \in Int /\ b <= now /\ b \in 0 .. now'
    BY <2>0, <2>1
  <2>4. Since(asked, d, b)' = Since(asked, d, b)
    BY <2>3, <1>5, SinceAsked
  <2>. QED
    BY <2>1, <2>2, <2>3, <2>4
<1>6. CASE RedisRestart
  BY <1>6 DEF RedisRestart, KeyAsked
<1>7. CASE UNCHANGED vars
  <2>1. now' = now /\ UNCHANGED redis /\ UNCHANGED request
    BY <1>7 DEF vars
  <2>2. Waiting(d, "expire")' = Waiting(d, "expire")
    BY <2>1 DEF Waiting, request
  <2>. QED
    BY <2>1, <2>2, KeyAskedKept DEF redis, request
<1>. QED
  BY <1>1, <1>2, <1>3, <1>4, <1>5, <1>6, <1>7, FairBefore DEF Next

-----------------------------------------------------------------------------

LEMMA LateFinite ==
  ASSUME NEW c, NEW a
  PROVE  /\ IsFiniteSet(Late(c, a)) /\ Cardinality(Late(c, a)) \in Nat
         /\ \A T \in SUBSET Late(c, a) :
              Cardinality(T) \in Nat /\ Cardinality(T) <= Cardinality(Late(c, a))
PROOF
<1>1. Late(c, a) \subseteq Requests
  BY DEF Late, Waiting
<1>2. IsFiniteSet(Late(c, a))
  BY <1>1, RequestAssumption, FS_Subset
<1>. QED
  BY <1>2, FS_Subset, FS_CardinalityType

LEMMA EntriesKept ==
  ASSUME TypeOK, [Next]_vars, NEW d \in Clients, EntriesAsked(d), now' = now, window'[d] = window[d],
         Waiting(d, "local")' \in SUBSET Waiting(d, "local"),
         \A r \in Waiting(d, "local") : due'[r] = due[r]
  PROVE  EntriesAsked(d)'
PROOF
<1>. SUFFICES ASSUME NEW a \in Int, NEW k \in Nat, a <= now, k <= Len(window[d]),
                     \A i \in 1 .. Len(window[d]) : k < i => a + Timeout <= window[d][i]
              PROVE  Len(window[d]) - k + Cardinality(Late(d, a)') <= Since(asked, d, a)'
  BY DEF EntriesAsked
<1>1. Len(window[d]) - k + Cardinality(Late(d, a)) <= Since(asked, d, a)
  BY DEF EntriesAsked
<1>2. Late(d, a)' \in SUBSET Late(d, a)
  BY DEF Late
<1>3. Cardinality(Late(d, a)') \in Nat /\ Cardinality(Late(d, a)) \in Nat
      /\ Cardinality(Late(d, a)') <= Cardinality(Late(d, a))
  BY <1>2, LateFinite
<1>4. Since(asked, d, a) \in Int /\ Since(asked, d, a)' \in Int
      /\ Since(asked, d, a) <= Since(asked, d, a)'
  BY SinceGrows
<1>5. Len(window[d]) \in Nat
  BY WindowTyped
<1>. QED
  BY <1>1, <1>3, <1>4, <1>5

LEMMA EntriesArrive ==
  ASSUME TypeOK, [Next]_vars, NEW c \in Clients, NEW r \in Requests, EntriesAsked(c), Bypass(r, c)
  PROVE  EntriesAsked(c)'
PROOF
<1>0. /\ now \in Int /\ Timeout \in Nat /\ Len(window[c]) \in Nat
      /\ \A s \in Int : s <= now => Since(asked, c, s) \in Int
  BY AskedTyped, ConstantTypes, WindowTyped
<1>1. now' = now /\ window' = window /\ Arrive(r, c, "local") /\ AsksNext(c)
  BY DEF Bypass, Arrive, AsksNext
<1>2. Waiting(c, "local")' = Waiting(c, "local") \cup {r} /\ r \notin Waiting(c, "local")
  BY <1>1, ArriveWaits
<1>3. due'[r] = now + Timeout /\ \A q \in Requests : q # r => due'[q] = due[q]
  BY <1>1 DEF Arrive, TypeOK
<1>. SUFFICES ASSUME NEW a \in Int, NEW k \in Nat, a <= now, k <= Len(window[c]),
                     \A i \in 1 .. Len(window[c]) : k < i => a + Timeout <= window[c][i]
              PROVE  Len(window[c]) - k + Cardinality(Late(c, a)') <= Since(asked, c, a)'
  BY <1>1 DEF EntriesAsked
<1>4. Len(window[c]) - k + Cardinality(Late(c, a)) <= Since(asked, c, a)
  BY DEF EntriesAsked
<1>5. Late(c, a)' = Late(c, a) \cup {r} /\ r \notin Late(c, a)
  <2>1. a + Timeout <= due'[r]
    BY <1>0, <1>3
  <2>2. \A q \in Waiting(c, "local") : due'[q] = due[q]
    BY <1>2, <1>3 DEF Waiting
  <2>. QED
    BY <2>1, <2>2, <1>2 DEF Late
<1>6. Cardinality(Late(c, a)') = Cardinality(Late(c, a)) + 1 /\ Cardinality(Late(c, a)) \in Nat
  BY <1>5, LateFinite, FS_AddElement
<1>7. Since(asked, c, a)' = Since(asked, c, a) + 1
  BY <1>1, SinceAsked
<1>. QED
  BY <1>0, <1>4, <1>6, <1>7

\* No request of the new tick waits yet, and no entry is of it.
LEMMA EntriesAge ==
  ASSUME TypeOK, InTime, [Next]_vars, NEW c \in Clients, WindowSorted(c), EntriesAsked(c), Tick
  PROVE  EntriesAsked(c)'
PROOF
<1>0. /\ now \in Int /\ Timeout \in Nat /\ Len(window[c]) \in Nat
      /\ \A i \in 1 .. Len(window[c]) : window[c][i] \in Int /\ window[c][i] <= now
      /\ \A q \in Requests : due[q] \in Int
  BY AskedTyped, ConstantTypes, WindowTyped, SMTT(20) DEF TypeOK, WindowSorted
<1>1. now' = now + 1 /\ window' = window /\ due' = due /\ Waiting(c, "local")' = Waiting(c, "local")
  BY DEF Tick, request, Waiting
<1>2. \A a \in Int : Late(c, a)' = Late(c, a)
  BY <1>1 DEF Late
<1>. SUFFICES ASSUME NEW a \in Int, NEW k \in Nat, a <= now + 1, k <= Len(window[c]),
                     \A i \in 1 .. Len(window[c]) : k < i => a + Timeout <= window[c][i]
              PROVE  Len(window[c]) - k + Cardinality(Late(c, a)) <= Since(asked, c, a)'
  BY <1>1, <1>2 DEF EntriesAsked
<1>3. CASE a <= now
  <2>1. Len(window[c]) - k + Cardinality(Late(c, a)) <= Since(asked, c, a)
    BY <1>3 DEF EntriesAsked
  <2>2. Since(asked, c, a)' = Since(asked, c, a)
    BY <1>3, SinceAsked
  <2>. QED
    BY <2>1, <2>2
<1>4. CASE a = now + 1
  <2>1. Since(asked, c, a)' = 0
    BY <1>4, SinceAsked
  <2>2. k = Len(window[c])
    <3>. SUFFICES ASSUME k # Len(window[c]) PROVE FALSE
      OBVIOUS
    <3>. DEFINE l == Len(window[c])
    <3>1. l \in 1 .. l /\ k < l
      BY <1>0
    <3>2. a + Timeout <= window[c][l] /\ window[c][l] <= now /\ window[c][l] \in Int
      BY <3>1, <1>0
    <3>. HIDE DEF l
    <3>. QED
      BY <3>2, <1>0, <1>4
  <2>3. Late(c, a) = {}
    <3>. SUFFICES ASSUME NEW q \in Late(c, a) PROVE FALSE
      OBVIOUS
    <3>1. q \in Requests /\ pc[q] = "local" /\ a + Timeout <= due[q]
      BY DEF Late, Waiting
    <3>2. due[q] <= now + Timeout /\ due[q] \in Int
      BY <3>1, <1>0 DEF InTime
    <3>. QED
      BY <3>1, <3>2, <1>0, <1>4
  <2>4. Cardinality(Late(c, a)) = 0
    BY <2>3, FS_EmptySet
  <2>. QED
    BY <2>1, <2>2, <2>4, <1>0
<1>. QED
  BY <1>0, <1>3, <1>4

\* A request is checked: it was late for no tick a after which the deadlines of
\* requests tell that they were made, so its entry takes its place.
LEMMA EntriesChecked ==
  ASSUME TypeOK, InTime, [Next]_vars, NEW c \in Clients, NEW r \in Requests, from[r] = c,
         EntriesAsked(c), LocalCheck(r)
  PROVE  EntriesAsked(c)'
PROOF
<1>. DEFINE q == window[c]
            w == Evict(q, now - Window)
<1>0. /\ now \in Int /\ now \in Ticks /\ Timeout \in Nat /\ q \in Seq(Ticks) /\ Len(q) \in Nat
      /\ \A i \in 1 .. Len(q) : q[i] \in Int
      /\ \A p \in Requests : due[p] \in Int
      /\ \A s \in Int : s <= now => Since(asked, c, s) \in Int
  <2>1. q \in Seq(Ticks) /\ Len(q) \in Nat /\ \A i \in 1 .. Len(q) : q[i] \in Int
    BY WindowTyped
  <2>2. \A p \in Requests : due[p] \in Int
    BY DEF TypeOK
  <2>. QED
    BY <2>1, <2>2, AskedTyped, ConstantTypes
<1>1. /\ now' = now /\ asked' = asked /\ from' = from /\ due' = due /\ pc[r] = "local"
      /\ pc' = [pc EXCEPT ![r] = "idle"]
      /\ window'[c] = w \/ window'[c] = Append(w, now)
  BY DEF LocalCheck, Done, TypeOK
<1>2. PICK n \in 0 .. Len(q) :
        /\ \A i \in 1 .. n : q[i] < now - Window
        /\ n < Len(q) => q[n + 1] >= now - Window
        /\ w \in Seq(Ticks) /\ Len(w) = Len(q) - n
        /\ \A i \in 1 .. Len(q) - n : w[i] = q[n + i]
  <2>1. now - Window \in Int /\ q \in Seq(Ticks)
    BY <1>0, ConstantTypes
  <2>. QED
    BY <2>1, EvictOldest
<1>. HIDE DEF q, w
<1>3. n \in Int /\ 0 <= n /\ n <= Len(q) /\ Len(w) \in Nat
  BY <1>0, <1>2
<1>. SUFFICES ASSUME NEW a \in Int, NEW k \in Nat, a <= now, k <= Len(window'[c]),
                     \A i \in 1 .. Len(window'[c]) : k < i => a + Timeout <= window'[c][i]
              PROVE  Len(window'[c]) - k + Cardinality(Late(c, a)') <= Since(asked, c, a)
  BY <1>1 DEF EntriesAsked, Since
<1>4. Late(c, a)' = Late(c, a) \ {r}
  BY <1>1 DEF Late, Waiting, TypeOK
<1>5. /\ Cardinality(Late(c, a)') \in Nat /\ Cardinality(Late(c, a)) \in Nat
      /\ Cardinality(Late(c, a)') <= Cardinality(Late(c, a))
      /\ r \in Late(c, a) => Cardinality(Late(c, a)') = Cardinality(Late(c, a)) - 1
  <2>1. Late(c, a)' \in SUBSET Late(c, a)
    BY <1>4
  <2>. QED
    BY <2>1, <1>4, LateFinite, FS_RemoveElement
<1>6. Since(asked, c, a) \in Int
  BY <1>0
<1>6a. \A l, j, x, y, z \in Int :
         l - j + x <= z => /\ y <= x => l - j + y <= z
                           /\ y = x - 1 => l + 1 - j + y <= z
  OBVIOUS
\* What the entries before the check and those after it have in common.
<1>7. ASSUME NEW j \in Nat, j <= Len(w), \A i \in 1 .. Len(w) : j < i => a + Timeout <= w[i]
      PROVE  Len(w) - j + Cardinality(Late(c, a)) <= Since(asked, c, a)
  <2>1. n + j \in Nat /\ n + j <= Len(q)
    BY <1>2, <1>3, <1>7
  <2>2. ASSUME NEW i \in 1 .. Len(q), n + j < i PROVE a + Timeout <= q[i]
    <3>. DEFINE m == i - n
    <3>1. m \in 1 .. Len(w) /\ m \in 1 .. Len(q) - n /\ j < m /\ n + m = i
      BY <1>0, <1>2, <1>3, <2>2
    <3>. HIDE DEF m
    <3>2. w[m] = q[n + m] /\ a + Timeout <= w[m]
      BY <3>1, <1>2, <1>7
    <3>. QED
      BY <3>1, <3>2
  <2>3. Len(q) - (n + j) + Cardinality(Late(c, a)) <= Since(asked, c, a)
    BY <2>1, <2>2 DEF EntriesAsked, q
  <2>. QED
    BY <2>3, <1>0, <1>2, <1>3, <1>5, <1>6
<1>8. CASE window'[c] = w
  <2>1. Len(w) - k + Cardinality(Late(c, a)) <= Since(asked, c, a)
    BY <1>7, <1>8
  <2>2. Len(w) - k + Cardinality(Late(c, a)') <= Since(asked, c, a)
    BY <2>1, <1>3, <1>5, <1>6, <1>6a
  <2>. QED
    BY <2>2, <1>8
<1>9. CASE window'[c] = Append(w, now)
  <2>1. Len(window'[c]) = Len(w) + 1 /\ window'[c][Len(w) + 1] = now
        /\ \A i \in 1 .. Len(w) : window'[c][i] = w[i]
    <3>1. w \in Seq(Ticks) /\ now \in Ticks
      BY <1>0, <1>2
    <3>. QED
      BY <3>1, <1>9
  <2>2. CASE k <= Len(w)
    <3>1. \A i \in 1 .. Len(w) : k < i => a + Timeout <= w[i]
      BY <1>3, <2>1
    <3>2. Len(w) - k + Cardinality(Late(c, a)) <= Since(asked, c, a)
      BY <2>2, <3>1, <1>7
    <3>3. a + Timeout <= now
      <4>1. Len(w) + 1 \in 1 .. Len(window'[c]) /\ k < Len(w) + 1
        BY <2>1, <2>2, <1>3
      <4>. QED
        BY <4>1, <2>1
    <3>4. r \in Late(c, a)
      <4>1. now <= due[r] /\ due[r] \in Int
        BY <1>0, <1>1 DEF InTime
      <4>2. a + Timeout <= due[r]
        BY <4>1, <3>3, <1>0
      <4>. QED
        BY <4>2, <1>1 DEF Late, Waiting
    <3>. QED
      <4>1. Cardinality(Late(c, a)') = Cardinality(Late(c, a)) - 1
        BY <3>4, <1>5
      <4>2. Len(w) + 1 - k + Cardinality(Late(c, a)') <= Since(asked, c, a)
        BY <3>2, <4>1, <1>3, <1>5, <1>6, <1>6a
      <4>. QED
        BY <4>2, <2>1
  <2>3. CASE ~(k <= Len(w))
    <3>1. k = Len(w) + 1
      BY <2>1, <2>3, <1>3
    <3>2. Len(w) \in Nat /\ \A i \in 1 .. Len(w) : Len(w) < i => a + Timeout <= w[i]
      BY <1>3
    <3>3. Len(w) - Len(w) + Cardinality(Late(c, a)) <= Since(asked, c, a)
      <4>. DEFINE j == Len(w)
      <4>1. j \in Nat /\ j <= Len(w) /\ \A i \in 1 .. Len(w) : j < i => a + Timeout <= w[i]
        BY <3>2
      <4>. HIDE DEF j
      <4>2. Len(w) - j + Cardinality(Late(c, a)) <= Since(asked, c, a)
        BY <4>1, <1>7
      <4>. QED
        BY <4>2 DEF j
    <3>. QED
      <4>1. Len(window'[c]) - k = 0 /\ Len(w) - Len(w) = 0
        BY <2>1, <3>1, <1>3
      <4>2. \A x, y, z \in Int : 0 + x <= z /\ y <= x => 0 + y <= z
        OBVIOUS
      <4>3. 0 + Cardinality(Late(c, a)') <= Since(asked, c, a)
        BY <3>3, <4>1, <4>2, <1>5, <1>6
      <4>. QED
        BY <4>1, <4>3
  <2>. QED
    BY <2>2, <2>3
<1>. QED
  BY <1>1, <1>8, <1>9

LEMMA EntriesAskedStep ==
  ASSUME TypeOK, InTime, [Next]_vars, Fair', NEW d \in Clients, WindowSorted(d), EntriesAsked(d)
  PROVE  EntriesAsked(d)'
PROOF
<1>1. ASSUME NEW r \in Requests, NEW c \in Clients, Incr(r, c) \/ (Bypass(r, c) /\ d # c)
      PROVE  EntriesAsked(d)'
  <2>1. now' = now /\ window' = window
        /\ \E next : Arrive(r, c, next) /\ (d = c => next # "local")
    BY <1>1 DEF Incr, Bypass
  <2>2. Waiting(d, "local")' = Waiting(d, "local") /\ r \notin Waiting(d, "local")
    BY <2>1, ArriveWaits
  <2>3. \A q \in Waiting(d, "local") : due'[q] = due[q]
    BY <2>1, <2>2 DEF Arrive, TypeOK, Waiting
  <2>. QED
    BY <2>1, <2>2, <2>3, EntriesKept
<1>2. ASSUME NEW r \in Requests, NEW c \in Clients, Bypass(r, c) PROVE EntriesAsked(d)'
  BY <1>1, <1>2, EntriesArrive
<1>3. ASSUME NEW r \in Requests, Expire(r) PROVE EntriesAsked(d)'
  <2>1. now' = now /\ window' = window /\ from' = from /\ due' = due /\ pc' = [pc EXCEPT ![r] = "idle"]
    BY <1>3 DEF Expire, Done
  <2>2. Waiting(d, "local")' \in SUBSET Waiting(d, "local")
    BY <2>1 DEF Waiting, TypeOK
  <2>. QED
    BY <2>1, <2>2, EntriesKept
<1>4. ASSUME NEW r \in Requests, LocalCheck(r) PROVE EntriesAsked(d)'
  <2>1. CASE from[r] = d
    BY <1>4, <2>1, EntriesChecked
  <2>2. CASE from[r] # d
    <3>1. now' = now /\ from' = from /\ due' = due /\ pc' = [pc EXCEPT ![r] = "idle"]
      BY <1>4 DEF LocalCheck, Done
    <3>2. window'[d] = window[d]
      BY <1>4, <2>2 DEF LocalCheck, TypeOK
    <3>3. Waiting(d, "local")' \in SUBSET Waiting(d, "local")
      BY <3>1 DEF Waiting, TypeOK
    <3>. QED
      BY <3>1, <3>2, <3>3, EntriesKept
  <2>. QED
    BY <2>1, <2>2
<1>5. CASE Tick
  BY <1>5, EntriesAge
<1>6. CASE RedisRestart \/ UNCHANGED vars
  <2>1. now' = now /\ window' = window /\ UNCHANGED request
    BY <1>6 DEF RedisRestart, vars
  <2>2. Waiting(d, "local")' \in SUBSET Waiting(d, "local")
    BY <2>1 DEF Waiting, request
  <2>. QED
    BY <2>1, <2>2, EntriesKept DEF request
<1>. QED
  BY <1>1, <1>2, <1>3, <1>4, <1>5, <1>6, FairBefore DEF Next

\* A client whose key has been counted above the limit has made more than Limit
\* requests in the life of the key.
LEMMA RedisRefusesFairly ==
  ASSUME TypeOK, InTime, CounterInv, AskedCountsUp, [Next]_vars, NEW c \in Clients, NEW r \in Requests,
         KeyAsked(c), Incr(r, c), served' = served, Value(c) # 1, Value(c) \notin 2 .. Limit
  PROVE  Limit < Since(asked, c, now - Window - Timeout)'
PROOF
<1>0. /\ now \in Int /\ 0 <= now /\ Timeout \in Nat /\ Window \in Int /\ Window > 0 /\ Limit \in Int
      /\ count[c] \in Nat /\ expires[c] \in Int /\ \A q \in Requests : due[q] \in Int
  BY AskedTyped, ConstantTypes DEF TypeOK
<1>1. c \in keys /\ Value(c) = count[c] + 1
  BY DEF Value
<1>2. count[c] > 0 /\ now < expires[c]
  BY <1>1 DEF CounterInv, KeyInv, KeyLives
<1>3. Limit <= count[c]
  BY <1>0, <1>1, <1>2
<1>4. PICK b \in 0 .. now :
        /\ count[c] <= Since(asked, c, b)
        /\ \A q \in Waiting(c, "expire") : due[q] <= b + Timeout
        /\ IF expires[c] = Never THEN Waiting(c, "expire") # {}
                                 ELSE expires[c] <= b + Window + Timeout
  BY <1>1 DEF KeyAsked
<1>5. b \in Int /\ b <= now
  BY <1>0
<1>6. now - Window - Timeout <= b
  <2>1. CASE expires[c] = Never
    <3>1. PICK q \in Waiting(c, "expire") : TRUE
      BY <1>4, <2>1
    <3>2. now <= due[q] /\ due[q] <= b + Timeout /\ due[q] \in Int
      BY <3>1, <1>0, <1>4 DEF Waiting, InTime
    <3>. QED
      BY <3>2, <1>0, <1>5
  <2>2. CASE expires[c] # Never
    BY <2>2, <1>0, <1>2, <1>4, <1>5
  <2>. QED
    BY <2>1, <2>2
<1>. DEFINE s == now - Window - Timeout
<1>7. s \in Int /\ s <= b /\ s <= now
  BY <1>0, <1>5, <1>6
<1>8. AsksNext(c) /\ now' = now
  BY DEF Incr, Arrive, AsksNext
<1>. HIDE DEF s
<1>9. Since(asked, c, b) <= Since(asked, c, s) /\ Since(asked, c, s) \in Int /\ Since(asked, c, b) \in Int
  BY <1>5, <1>7, SinceIsMore
<1>10. \A t \in Int : t <= now => Between(asked', c, t, now') = Since(asked, c, t) + 1
  BY <1>8, SinceAsked DEF Since
<1>11. Limit < Between(asked', c, s, now')
  BY <1>0, <1>3, <1>4, <1>7, <1>9, <1>10
<1>. QED
  BY <1>8, <1>11 DEF Since, s

\* A client whose window is full has asked for what is in it, and for the
\* request that is refused.
LEMMA WindowRefusesFairly ==
  ASSUME TypeOK, InTime, [Next]_vars, NEW c \in Clients, NEW r \in Requests, from[r] = c,
         WindowSorted(c), EntriesAsked(c), LocalCheck(r), Len(Evict(window[c], now - Window)) >= Limit
  PROVE  Limit < Since(asked, c, now - Window - Timeout)
PROOF
<1>. DEFINE q == window[c]
            w == Evict(q, now - Window)
            a == now - Window - Timeout
<1>0. /\ now \in Int /\ now \in Ticks /\ Timeout \in Nat /\ Window \in Int /\ Window > 0 /\ Limit \in Nat
      /\ q \in Seq(Ticks) /\ Len(q) \in Nat
      /\ \A i \in 1 .. Len(q) : q[i] \in Int
      /\ \A p \in Requests : due[p] \in Int
      /\ \A s \in Int : s <= now => Since(asked, c, s) \in Int
  <2>1. q \in Seq(Ticks) /\ Len(q) \in Nat /\ \A i \in 1 .. Len(q) : q[i] \in Int
    BY WindowTyped
  <2>2. \A p \in Requests : due[p] \in Int
    BY DEF TypeOK
  <2>. QED
    BY <2>1, <2>2, AskedTyped, ConstantTypes
<1>1. PICK n \in 0 .. Len(q) :
        /\ \A i \in 1 .. n : q[i] < now - Window
        /\ n < Len(q) => q[n + 1] >= now - Window
        /\ w \in Seq(Ticks) /\ Len(w) = Len(q) - n
        /\ \A i \in 1 .. Len(q) - n : w[i] = q[n + i]
  <2>1. now - Window \in Int /\ q \in Seq(Ticks)
    BY <1>0
  <2>. QED
    BY <2>1, EvictOldest
<1>2. Len(w) >= Limit
  OBVIOUS
<1>3. \A i, j \in 1 .. Len(q) : i <= j => q[i] <= q[j]
  BY <1>0, WindowTyped DEF WindowSorted
<1>. HIDE DEF q, w
<1>4. n \in Nat /\ n <= Len(q)
  BY <1>0
<1>5. a \in Int /\ a <= now /\ a + Timeout = now - Window
  BY <1>0
<1>. HIDE DEF a
<1>6. ASSUME NEW i \in 1 .. Len(q), n < i PROVE a + Timeout <= q[i]
  <2>1. n + 1 \in 1 .. Len(q) /\ n + 1 <= i /\ n < Len(q)
    BY <1>0, <1>4, <1>6
  <2>2. q[n + 1] <= q[i] /\ q[n + 1] >= now - Window
    BY <2>1, <1>1, <1>3
  <2>3. q[n + 1] \in Int /\ q[i] \in Int
    BY <2>1, <1>0
  <2>. QED
    BY <2>2, <2>3, <1>0, <1>5, SMTT(20)
<1>7. Len(q) - n + Cardinality(Late(c, a)) <= Since(asked, c, a)
  BY <1>4, <1>5, <1>6 DEF EntriesAsked, q
<1>8. r \in Late(c, a)
  <2>1. pc[r] = "local" /\ now <= due[r] /\ due[r] \in Int
    BY <1>0 DEF LocalCheck, InTime
  <2>2. a + Timeout <= due[r]
    BY <2>1, <1>0, <1>5
  <2>. QED
    BY <2>1, <2>2 DEF Late, Waiting
<1>9. Cardinality(Late(c, a)) \in Nat /\ Cardinality(Late(c, a)) >= 1
  <2>1. Cardinality(Late(c, a)) \in Nat /\ IsFiniteSet(Late(c, a))
    BY LateFinite
  <2>2. Cardinality(Late(c, a)) # 0
    BY <2>1, <1>8, FS_EmptySet
  <2>. QED
    BY <2>1, <2>2
<1>10. Since(asked, c, a) \in Int
  BY <1>0, <1>5
<1>11. Limit < Since(asked, c, a)
  BY <1>0, <1>1, <1>2, <1>4, <1>7, <1>9, <1>10
<1>. QED
  BY <1>11 DEF a

LEMMA RefusedStays ==
  ASSUME TypeOK, [Next]_vars, RefusedOnlyIfBusy, NEW c \in Clients, NEW t \in 0 .. now',
         t < now' \/ now' = now, refused'[c][t] = refused[c][t], refused'[c][t] > 0
  PROVE  Between(asked', c, t - Window - Timeout, t) > Limit
PROOF
<1>0. /\ now \in Int /\ 0 <= now /\ now <= MaxTime /\ now \in Ticks /\ Limit \in Int
      /\ Timeout \in Nat /\ Window \in Int /\ Window > 0 /\ MaxTime \in Int
  BY AskedTyped, ConstantTypes
<1>1. now' \in Ticks /\ (now' = now \/ now' = now + 1)
  BY PastStays
<1>2. t \in Int /\ t \in 0 .. now
  BY <1>0, <1>1
<1>3. t \in Ticks
  BY <1>0, <1>2 DEF Ticks
<1>. DEFINE s == t - Window - Timeout
<1>4. s \in Int /\ s <= t
  BY <1>0, <1>2
<1>5. Between(asked, c, s, t) > Limit
  BY <1>2 DEF RefusedOnlyIfBusy
<1>. HIDE DEF s
<1>6. CASE t < now'
  <2>1. Between(asked', c, s, t) = Between(asked, c, s, t)
    BY <1>3, <1>4, <1>6, PastStays DEF PastKept
  <2>. QED
    BY <2>1, <1>5 DEF s
<1>7. CASE t = now' /\ now' = now
  <2>1. /\ Since(asked, c, s) \in Int /\ Since(asked, c, s)' \in Int
        /\ Since(asked, c, s) <= Since(asked, c, s)'
    BY <1>4, <1>7, SinceGrows
  <2>2. Since(asked, c, s) = Between(asked, c, s, t) /\ Since(asked, c, s)' = Between(asked', c, s, t)
    BY <1>7 DEF Since
  <2>. QED
    BY <2>1, <2>2, <1>0, <1>5 DEF s
<1>. QED
  BY <1>0, <1>1, <1>2, <1>6, <1>7

LEMMA RefusedNow ==
  ASSUME TypeOK, [Next]_vars, RefusedOnlyIfBusy, now' = now, NEW c \in Clients, Refuse(c),
         Limit < Since(asked, c, now - Window - Timeout)'
  PROVE  RefusedOnlyIfBusy'
PROOF
<1>1. ASSUME NEW d \in Clients, NEW t \in 0 .. now', refused'[d][t] > 0
      PROVE  Between(asked', d, t - Window - Timeout, t) > Limit
  <2>0. t \in Ticks /\ refused \in Hist
    <3>1. now \in Int /\ now <= MaxTime /\ refused \in Hist /\ t \in 0 .. now
      BY AskedTyped
    <3>. QED
      BY <3>1, BoundAssumption DEF Ticks
  <2>1. CASE d = c /\ t = now
    <3>1. Limit < Between(asked', c, now - Window - Timeout, now)
      BY DEF Since
    <3>2. ASSUME NEW s \in Int, s <= now PROVE Between(asked', c, s, now) \in Int
      BY <3>2, SinceGrows DEF Since
    <3>3. now - Window - Timeout \in Int /\ now - Window - Timeout <= now /\ Limit \in Int
      BY AskedTyped, ConstantTypes
    <3>4. Between(asked', c, now - Window - Timeout, now) \in Int
      BY <3>2, <3>3
    <3>. QED
      BY <3>1, <3>3, <3>4, <2>1
  <2>2. CASE ~(d = c /\ t = now)
    <3>1. refused'[d][t] = refused[d][t]
      BY <2>0, <2>2 DEF Refuse, Hist
    <3>. QED
      BY <3>1, <1>1, RefusedStays
  <2>. QED
    BY <2>1, <2>2
<1>. QED
  BY <1>1 DEF RefusedOnlyIfBusy

LEMMA RefusedStep ==
  ASSUME TypeOK, InTime, CounterInv, WindowInv, AskedCountsUp, NothingAhead, [Next]_vars, Fair',
         \A c \in Clients : KeyAsked(c) /\ EntriesAsked(c), RefusedOnlyIfBusy
  PROVE  RefusedOnlyIfBusy'
PROOF
<1>1. ASSUME refused' = refused, now' = now PROVE RefusedOnlyIfBusy'
  BY <1>1, RefusedStays DEF RefusedOnlyIfBusy
<1>2. ASSUME NEW r \in Requests, NEW c \in Clients, Incr(r, c) PROVE RefusedOnlyIfBusy'
  <2>1. now' = now
    BY <1>2 DEF Incr
  <2>2. CASE refused' = refused
    BY <2>1, <2>2, <1>1
  <2>3. CASE refused' # refused
    <3>1. Value(c) # 1 /\ Value(c) \notin 2 .. Limit /\ Refuse(c)
      BY <1>2, <2>3 DEF Incr, Serve
    <3>2. served' = served
      BY <3>1 DEF Refuse
    <3>3. Limit < Since(asked, c, now - Window - Timeout)'
      BY <1>2, <3>1, <3>2, RedisRefusesFairly
    <3>. QED
      BY <2>1, <3>1, <3>3, RefusedNow
  <2>. QED
    BY <2>2, <2>3
<1>3. ASSUME NEW r \in Requests, LocalCheck(r) PROVE RefusedOnlyIfBusy'
  <2>. DEFINE c == from[r]
  <2>1. now' = now /\ asked' = asked /\ c \in Clients
    BY <1>3 DEF LocalCheck, TypeOK
  <2>2. CASE refused' = refused
    BY <2>1, <2>2, <1>1
  <2>3. CASE refused' # refused
    <3>1. Len(Evict(window[c], now - Window)) >= Limit /\ Refuse(c)
      BY <1>3, <2>3 DEF LocalCheck, Serve
    <3>2. Limit < Since(asked, c, now - Window - Timeout)
      BY <1>3, <2>1, <3>1, WindowRefusesFairly DEF WindowInv
    <3>3. ASSUME NEW d \in Clients, d = c PROVE RefusedOnlyIfBusy'
      <4>1. Limit < Since(asked, d, now - Window - Timeout)'
        BY <2>1, <3>2, <3>3 DEF Since
      <4>2. Refuse(d)
        BY <3>1, <3>3
      <4>. QED
        BY <2>1, <4>1, <4>2, RefusedNow
    <3>. QED
      BY <2>1, <3>3
  <2>. QED
    BY <2>2, <2>3
<1>4. CASE Tick
  <2>1. now' = now + 1 /\ refused' = refused /\ now \in Int /\ now' \in Ticks /\ 0 <= now
    BY <1>4, AskedTyped, PastStays DEF Tick
  <2>2. ASSUME NEW c \in Clients, NEW t \in 0 .. now', refused'[c][t] > 0
        PROVE  Between(asked', c, t - Window - Timeout, t) > Limit
    <3>1. CASE t < now'
      BY <2>1, <2>2, <3>1, RefusedStays
    <3>2. CASE t = now'
      <4>1. refused[c][t] = 0
        BY <2>1, <3>2 DEF NothingAhead
      <4>. QED
        BY <4>1, <2>1, <2>2
    <3>. QED
      BY <3>1, <3>2, <2>1
  <2>. QED
    BY <2>2 DEF RefusedOnlyIfBusy
<1>5. ASSUME NEW r \in Requests, NEW c \in Clients, Bypass(r, c) PROVE RefusedOnlyIfBusy'
  BY <1>1, <1>5 DEF Bypass
<1>6. ASSUME NEW r \in Requests, Expire(r) PROVE RefusedOnlyIfBusy'
  BY <1>1, <1>6 DEF Expire, Serve
<1>7. CASE RedisRestart
  BY <1>1, <1>7 DEF RedisRestart
<1>8. CASE UNCHANGED vars
  BY <1>1, <1>8 DEF vars
<1>. QED
  BY <1>2, <1>3, <1>4, <1>5, <1>6, <1>7, <1>8, FairBefore DEF Next

LEMMA RefusalInvStep ==
  TypeOK /\ InTime /\ CounterInv /\ WindowInv /\ RefusalInv /\ [Next]_vars => RefusalInv'
PROOF
<1>. SUFFICES ASSUME TypeOK, InTime, CounterInv, WindowInv, RefusalInv, [Next]_vars
              PROVE  RefusalInv'
  OBVIOUS
<1>1. AskedCountsUp' /\ NothingAhead'
  BY AskedCountsUpStep, NothingAheadStep DEF RefusalInv
<1>2. ASSUME Fair'
      PROVE  (\A c \in Clients : KeyAsked(c) /\ EntriesAsked(c))' /\ RefusedOnlyIfBusy'
  <2>1. Fair
    BY <1>2, FairBefore
  <2>2. (\A c \in Clients : KeyAsked(c) /\ EntriesAsked(c)) /\ RefusedOnlyIfBusy
    BY <2>1 DEF RefusalInv
  <2>3. ASSUME NEW c \in Clients PROVE KeyAsked(c)' /\ EntriesAsked(c)'
    BY <1>2, <2>2, KeyAskedStep, EntriesAskedStep DEF RefusalInv, WindowInv
  <2>4. RefusedOnlyIfBusy'
    BY <1>2, <2>2, RefusedStep DEF RefusalInv
  <2>. QED
    BY <2>3, <2>4
<1>. QED
  BY <1>1, <1>2 DEF RefusalInv

LEMMA RefusalInit == Init => InTime /\ RefusalInv
PROOF
<1>. SUFFICES ASSUME Init PROVE InTime /\ RefusalInv
  OBVIOUS
<1>1. TypeOK /\ now = 0 /\ now \in Ticks
  BY TypeInit DEF Init, TypeOK
<1>2. (\A c \in Clients, t \in Ticks : asked[c][t] = 0 /\ refused[c][t] = 0) /\ \A t \in Ticks : t \in Int
  BY AskedTyped, <1>1 DEF Init, Zero
<1>3. InTime
  BY DEF Init, InTime
<1>4. AskedCountsUp /\ NothingAhead
  BY <1>2 DEF AskedCountsUp, NothingAhead
<1>5. ASSUME NEW c \in Clients PROVE KeyAsked(c)
  BY DEF Init, KeyAsked
<1>6. ASSUME NEW c \in Clients PROVE EntriesAsked(c)
  <2>. SUFFICES ASSUME NEW a \in Int, NEW k \in Nat, a <= now, k <= Len(window[c])
                PROVE  Len(window[c]) - k + Cardinality(Late(c, a)) <= Since(asked, c, a)
    BY DEF EntriesAsked
  <2>1. window[c] = <<>> /\ Len(<<>>) = 0
    BY DEF Init
  <2>2. Late(c, a) = {}
    BY DEF Init, Late, Waiting
  <2>3. Cardinality(Late(c, a)) = 0
    BY <2>2, FS_EmptySet
  <2>4. 0 <= Since(asked, c, a) /\ Since(asked, c, a) \in Int
    <3>1. now \in Int
      BY <1>1
    <3>. QED
      BY <3>1, <1>1, <1>4, SinceIsMore
  <2>. QED
    BY <2>1, <2>3, <2>4
<1>7. RefusedOnlyIfBusy
  <2>1. ASSUME NEW c \in Clients, NEW t \in 0 .. now PROVE refused[c][t] = 0
    <3>1. t \in Ticks
      BY <1>1 DEF Ticks
    <3>. QED
      BY <3>1, <1>2
  <2>. QED
    BY <2>1 DEF RefusedOnlyIfBusy
<1>. QED
  BY <1>3, <1>4, <1>5, <1>6, <1>7 DEF RefusalInv

-----------------------------------------------------------------------------
(* The theorems.                                                           *)

LEMMA IInvInit == Init => IInv
  BY TypeInit, CounterInit, WindowInit, RefusalInit DEF IInv

LEMMA IInvStep == IInv /\ [Next]_vars => IInv'
PROOF
<1>. SUFFICES ASSUME IInv, [Next]_vars PROVE IInv'
  OBVIOUS
<1>1. TypeOK /\ InTime /\ CounterInv /\ WindowInv /\ RefusalInv
  BY DEF IInv
<1>2. TypeOK'
  BY <1>1, TypeStep
<1>3. InTime' /\ CounterInv' /\ WindowInv' /\ RefusalInv'
  BY <1>1, <1>2, InTimeStep, CounterStep, WindowInvStep, RefusalInvStep
<1>. QED
  BY <1>2, <1>3 DEF IInv

\* The limiter's state, its histories and the requests it is handling have
\* their types, whatever fails (rate_limiter.py).
THEOREM TypeCorrect == Spec => []TypeOK
PROOF
<1>1. IInv => TypeOK
  BY DEF IInv
<1>. QED
  BY IInvInit, IInvStep, <1>1, PTL DEF Spec

\* Within a window Redis's counter lets two limits through at most, and one more
\* for each time Redis lost its keys; the fallback one, and one more for each
\* restart of the proxy: however late EXPIRE comes, whatever calls fail between
\* INCR and EXPIRE, and whichever requests are checked at the same time.
THEOREM BothChecksBound == Spec => []WindowsAreBounded
PROOF
<1>1. IInv => WindowsAreBounded
  BY DEF IInv, CounterInv, WindowInv, WindowsAreBounded
<1>. QED
  BY IInvInit, IInvStep, <1>1, PTL DEF Spec

\* As long as no call fails and the proxy does not restart, a client that gets a
\* 429 has made more than Limit requests within a window and a timeout.
THEOREM OnlyTheBusyAreRefused == Spec => []RefusalsAreFair
PROOF
<1>1. IInv => RefusalsAreFair
  BY DEF IInv, RefusalInv, RefusalsAreFair, Fair
<1>. QED
  BY IInvInit, IInvStep, <1>1, PTL DEF Spec

=============================================================================
