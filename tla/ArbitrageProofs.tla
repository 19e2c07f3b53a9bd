------------------------- MODULE ArbitrageProofs -------------------------
(***************************************************************************)
(* What holds of the rates of GraphService whatever the assets, the        *)
(* quotes, the failures and the restarts; what the search for a cycle      *)
(* finds, whatever the rates; and what the loop and the requests of        *)
(* QuantumService make of it, beside Grover's search.                      *)
(***************************************************************************)
EXTENDS GraphService, QuantumService, FiniteSetTheorems, NaturalsInduction,
        WellFoundedInduction, TLAPS

-----------------------------------------------------------------------------
(* Induction, by the least counterexample.                                 *)

LEMMA LeastMember ==
  ASSUME NEW S, S \subseteq Nat, S # {}
  PROVE  \E x \in S : \A y \in S : x <= y
<1>1. \E x \in S : \A y \in S : <<y, x>> \notin OpToRel(<, Nat)
  BY NatLessThanWellFounded, WFMin, Zenon
<1>2. PICK x \in S : \A y \in S : <<y, x>> \notin OpToRel(<, Nat)
  BY <1>1, Zenon
<1>3. ASSUME NEW y \in S PROVE x <= y
  <2>1. <<y, x>> \in Nat \X Nat /\ ~(y < x)
    BY <1>2 DEF OpToRel
  <2> QED  BY <2>1
<1> QED  BY <1>3

\* Induction from m to n: of the numbers outside S none is least.
LEMMA UpTo ==
  ASSUME NEW m \in Nat, NEW n \in Int, NEW S, m \in S,
         \A i \in m .. n - 1 : i \in S => i + 1 \in S
  PROVE  \A i \in m .. n : i \in S
<1> DEFINE O == {i \in m .. n : i \notin S}
<1> SUFFICES ASSUME O # {} PROVE FALSE
  OBVIOUS
<1>1. O \subseteq Nat
  OBVIOUS
<1>2. PICK k \in O : \A j \in O : k <= j
  <2> HIDE DEF O
  <2> QED  BY <1>1, LeastMember
<1>3. k \in m .. n /\ k \notin S /\ k # m
  OBVIOUS
<1>4. k - 1 \in m .. n - 1 /\ k - 1 \in m .. n /\ ~(k <= k - 1) /\ (k - 1) + 1 = k
  BY <1>3
<1>5. k - 1 \in S
  BY <1>2, <1>4
<1> QED  BY <1>3, <1>4, <1>5

\* A recursion over the numbers up to n: each value is made of the one before.
Runs(f, F, V, a, n) ==
  f \in [0 .. n -> V] /\ f[0] = a /\ \A i \in 1 .. n : f[i] = F[i][f[i - 1]]

\* It has a solution: of the numbers up to which there is none, none is least.
LEMMA Recursion ==
  ASSUME NEW V, NEW a \in V, NEW n \in Nat, NEW F \in [1 .. n -> [V -> V]]
  PROVE  \E f : Runs(f, F, V, a, n)
<1> DEFINE Has(k) == \E f : Runs(f, F, V, a, k)
           S == {k \in 0 .. n : ~Has(k)}
<1>1. ASSUME NEW k \in 0 .. n, k > 0, Has(k - 1) PROVE Has(k)
  <2>1. k - 1 \in 0 .. k - 1 /\ k \in 1 .. n /\ 0 \in 0 .. k - 1
    BY <1>1
  <2>2. PICK f : Runs(f, F, V, a, k - 1)
    BY <1>1
  <2> DEFINE g == [i \in 0 .. k |-> IF i = k THEN F[k][f[k - 1]] ELSE f[i]]
  <2>3. f[k - 1] \in V
    BY <2>1, <2>2 DEF Runs
  <2>4. F[k][f[k - 1]] \in V
    BY <2>1, <2>3
  <2>5. \A i \in 0 .. k - 1 : i \in 0 .. k /\ g[i] = f[i] /\ f[i] \in V
    BY <2>1, <2>2 DEF Runs
  <2>6. g[k] = F[k][f[k - 1]]
    BY <1>1
  <2>7. \A i \in 0 .. k : g[i] \in V
    <3>1. \A i \in 0 .. k : i = k \/ i \in 0 .. k - 1
      OBVIOUS
    <3> HIDE DEF g
    <3> QED  BY <3>1, <2>4, <2>5, <2>6
  <2>8. \A i \in 1 .. k : g[i] = F[i][g[i - 1]]
    <3>1. ASSUME NEW i \in 1 .. k PROVE g[i] = F[i][g[i - 1]]
      <4>1. i - 1 \in 0 .. k - 1
        BY <2>1
      <4>2. g[i - 1] = f[i - 1]
        BY <4>1, <2>5
      <4>3. CASE i = k
        BY <4>2, <4>3, <2>6
      <4>4. CASE i # k
        <5>1. i \in 1 .. k - 1 /\ i \in 0 .. k - 1
          BY <2>1, <4>4
        <5>2. g[i] = f[i]
          BY <5>1, <2>5
        <5>3. f[i] = F[i][f[i - 1]]
          BY <5>1, <2>2 DEF Runs
        <5> QED  BY <5>2, <5>3, <4>2
      <4> QED  BY <4>3, <4>4
    <3> QED  BY <3>1
  <2>9. g \in [0 .. k -> V]
    BY <2>7
  <2> HIDE DEF g
  <2>10. Runs(g, F, V, a, k)
    BY <2>1, <2>2, <2>5, <2>8, <2>9 DEF Runs
  <2> QED  BY <2>10
<1>2. Has(0)
  <2>1. Runs([i \in 0 .. 0 |-> a], F, V, a, 0)
    BY DEF Runs
  <2> QED  BY <2>1
<1> HIDE DEF Has
<1>3. SUFFICES ASSUME S # {} PROVE FALSE
  <2>1. n \in 0 .. n
    OBVIOUS
  <2> QED  BY <1>3, <2>1 DEF Has
<1>4. S \subseteq Nat
  OBVIOUS
<1>5. PICK k \in S : \A j \in S : k <= j
  <2> HIDE DEF S
  <2> QED  BY <1>3, <1>4, LeastMember
<1>6. k \in 0 .. n /\ ~Has(k) /\ k # 0
  BY <1>2
<1>7. k - 1 \in 0 .. n /\ k > 0 /\ ~(k <= k - 1)
  BY <1>6
<1>8. Has(k - 1)
  BY <1>5, <1>7
<1> QED  BY <1>1, <1>6, <1>7, <1>8

\* The gain of the i-th exchange of a path, and the sums of its gains.
Gain(bids, path, i) == bids[<<path[i], path[i + 1]>>]

GainsOf(bids, path) == \A i \in 1 .. Len(path) - 1 : Gain(bids, path, i) \in Int

SumsUp(sum, bids, path) ==
  /\ sum \in [1 .. Len(path) -> Int]
  /\ sum[1] = 0 /\ sum[Len(path)] = CycleProfit(path, bids)
  /\ \A i \in 1 .. Len(path) - 1 : sum[i + 1] = sum[i] + Gain(bids, path, i)

\* CycleProfit is the last of the sums along the path.
LEMMA ProfitSums ==
  ASSUME NEW bids, NEW path, Len(path) \in Nat \ {0}, GainsOf(bids, path)
  PROVE  \E sum : SumsUp(sum, bids, path)
<1>0. PICK n \in Nat \ {0} : n = Len(path) /\ \A i \in 1 .. n - 1 : bids[<<path[i], path[i + 1]>>] \in Int
  BY DEF GainsOf, Gain
<1> DEFINE Sums(s) == s = [i \in 1 .. n |-> IF i = 1 THEN 0
                             ELSE s[i - 1] + bids[<<path[i - 1], path[i]>>]]
           sum == CHOOSE s : Sums(s)
           F == [i \in 1 .. n - 1 |-> [v \in Int |-> v + bids[<<path[i], path[i + 1]>>]]]
<1>1. CycleProfit(path, bids) = sum[n]
  BY <1>0 DEF CycleProfit
<1>2. F \in [1 .. n - 1 -> [Int -> Int]]
  BY <1>0
<1>3. PICK f : Runs(f, F, Int, 0, n - 1)
  <2>1. n - 1 \in Nat /\ 0 \in Int
    OBVIOUS
  <2> HIDE DEF F
  <2> QED  BY <1>2, <2>1, Recursion
<1>4. \A i \in 1 .. n - 1 : f[i] = f[i - 1] + bids[<<path[i], path[i + 1]>>]
  <2> SUFFICES ASSUME NEW i \in 1 .. n - 1
               PROVE  f[i] = f[i - 1] + bids[<<path[i], path[i + 1]>>]
    OBVIOUS
  <2>1. f[i - 1] \in Int
    BY <1>3 DEF Runs
  <2> QED  BY <1>3, <2>1 DEF Runs
<1> DEFINE g == [i \in 1 .. n |-> f[i - 1]]
<1>5. Sums(g)
  <2> SUFFICES ASSUME NEW i \in 1 .. n
               PROVE  f[i - 1] = IF i = 1 THEN 0 ELSE g[i - 1] + bids[<<path[i - 1], path[i]>>]
    OBVIOUS
  <2>1. CASE i = 1
    BY <2>1, <1>3 DEF Runs
  <2>2. CASE i # 1
    <3>1. i - 1 \in 1 .. n /\ i - 1 \in 1 .. n - 1 /\ (i - 1) + 1 = i
      BY <2>2
    <3>2. g[i - 1] = f[(i - 1) - 1]
      BY <3>1
    <3>3. f[i - 1] = f[(i - 1) - 1] + bids[<<path[i - 1], path[(i - 1) + 1]>>]
      BY <3>1, <1>4
    <3> QED  BY <3>1, <3>2, <3>3, <2>2
  <2> QED  BY <2>1, <2>2
<1>6. Sums(sum)
  <2> HIDE DEF Sums
  <2> QED  BY <1>5
<1> HIDE DEF sum
<1>7. sum = [i \in 1 .. n |-> IF i = 1 THEN 0 ELSE sum[i - 1] + bids[<<path[i - 1], path[i]>>]]
  BY <1>6
<1> HIDE DEF Sums
<1>8. DOMAIN sum = 1 .. n /\ sum[1] = 0
  BY <1>7
<1>9. \A i \in 1 .. n - 1 : sum[i + 1] = sum[i] + bids[<<path[i], path[i + 1]>>]
  <2> SUFFICES ASSUME NEW i \in 1 .. n - 1
               PROVE  sum[i + 1] = sum[i] + bids[<<path[i], path[i + 1]>>]
    OBVIOUS
  <2>1. i + 1 \in 1 .. n /\ i + 1 # 1 /\ (i + 1) - 1 = i
    OBVIOUS
  <2>2. sum[i + 1] = sum[(i + 1) - 1] + bids[<<path[(i + 1) - 1], path[i + 1]>>]
    BY <1>7, <2>1
  <2> QED  BY <2>1, <2>2
<1>10. \A i \in 1 .. n : sum[i] \in Int
  <2> DEFINE S == {i \in 1 .. n : sum[i] \in Int}
  <2>1. 1 \in S
    BY <1>8
  <2>2. ASSUME NEW i \in 1 .. n - 1, i \in S PROVE i + 1 \in S
    <3>1. sum[i] \in Int /\ bids[<<path[i], path[i + 1]>>] \in Int /\ i + 1 \in 1 .. n
      BY <1>0, <2>2
    <3>2. sum[i + 1] \in Int
      BY <1>9, <3>1
    <3> QED  BY <3>1, <3>2
  <2> HIDE DEF S
  <2>3. \A i \in 1 .. n : i \in S
    BY <2>1, <2>2, UpTo
  <2> QED  BY <2>3 DEF S
<1>11. sum \in [1 .. n -> Int]
  <2>1. sum = [i \in 1 .. n |-> sum[i]]
    BY <1>7
  <2> QED  BY <2>1, <1>10
<1> QED  BY <1>0, <1>1, <1>8, <1>9, <1>11 DEF SumsUp, Gain

\* If no exchange gains more than the fall of w, the path does not.
LEMMA GainsAtMost ==
  ASSUME NEW bids, NEW path, Len(path) \in Nat \ {0}, GainsOf(bids, path),
         NEW w \in [1 .. Len(path) -> Int],
         \A i \in 1 .. Len(path) - 1 : Gain(bids, path, i) <= w[i] - w[i + 1]
  PROVE  CycleProfit(path, bids) <= w[1] - w[Len(path)]
<1>1. PICK sum : SumsUp(sum, bids, path)
  BY ProfitSums
<1>2. PICK n \in Nat \ {0} : n = Len(path)
  OBVIOUS
<1> DEFINE S == {i \in 1 .. n : sum[i] <= w[1] - w[i]}
<1>3. /\ \A i \in 1 .. n : w[i] \in Int /\ sum[i] \in Int
      /\ sum[1] = 0
      /\ \A i \in 1 .. n - 1 : /\ Gain(bids, path, i) \in Int
                               /\ Gain(bids, path, i) <= w[i] - w[i + 1]
                               /\ sum[i + 1] = sum[i] + Gain(bids, path, i)
  BY <1>1, <1>2 DEF SumsUp, GainsOf
<1>4. 1 \in S
  <2>1. 1 \in 1 .. n
    OBVIOUS
  <2> QED  BY <1>3, <2>1
<1>5. ASSUME NEW i \in 1 .. n - 1, i \in S PROVE i + 1 \in S
  <2>1. i \in 1 .. n /\ i + 1 \in 1 .. n /\ 1 \in 1 .. n
    OBVIOUS
  <2>2. /\ sum[i] \in Int /\ w[1] \in Int /\ w[i] \in Int /\ w[i + 1] \in Int
        /\ Gain(bids, path, i) \in Int /\ Gain(bids, path, i) <= w[i] - w[i + 1]
        /\ sum[i + 1] = sum[i] + Gain(bids, path, i) /\ sum[i] <= w[1] - w[i]
    BY <1>3, <1>5, <2>1
  <2>3. \A a, b, x, y, z \in Int : (a <= x - y /\ b <= y - z) => (a + b <= x - z)
    OBVIOUS
  <2>4. sum[i + 1] <= w[1] - w[i + 1]
    BY <2>2, <2>3
  <2> QED  BY <2>1, <2>4
<1>6. n \in S
  <2> HIDE DEF S
  <2>1. n \in Int /\ n \in 1 .. n
    OBVIOUS
  <2> QED  BY <1>4, <1>5, <2>1, UpTo
<1> QED  BY <1>1, <1>2, <1>6 DEF SumsUp

\* If no exchange gains less than the fall of w, the path does not; and if the
\* k-th one gains more, so does the path.
LEMMA GainsAtLeast ==
  ASSUME NEW bids, NEW path, Len(path) \in Nat \ {0}, GainsOf(bids, path),
         NEW w \in [1 .. Len(path) -> Int],
         \A i \in 1 .. Len(path) - 1 : w[i] - w[i + 1] <= Gain(bids, path, i),
         NEW k \in 1 .. Len(path)
  PROVE  /\ w[1] - w[Len(path)] <= CycleProfit(path, bids)
         /\ k # Len(path) /\ w[k] - w[k + 1] < Gain(bids, path, k)
              => w[1] - w[Len(path)] < CycleProfit(path, bids)
<1>1. PICK sum : SumsUp(sum, bids, path)
  BY ProfitSums
<1>2. PICK n \in Nat \ {0} : n = Len(path)
  OBVIOUS
<1> DEFINE More == k # n /\ w[k] - w[k + 1] < Gain(bids, path, k)
           Good(i) == /\ w[1] - w[i] <= sum[i]
                      /\ k < i /\ More => w[1] - w[i] < sum[i]
           S == {i \in 1 .. n : Good(i)}
<1>3. /\ \A i \in 1 .. n : w[i] \in Int /\ sum[i] \in Int
      /\ sum[1] = 0
      /\ \A i \in 1 .. n - 1 : /\ Gain(bids, path, i) \in Int
                               /\ w[i] - w[i + 1] <= Gain(bids, path, i)
                               /\ sum[i + 1] = sum[i] + Gain(bids, path, i)
  BY <1>1, <1>2 DEF SumsUp, GainsOf
<1>4. 1 \in S
  <2>1. 1 \in 1 .. n /\ ~(k < 1)
    BY <1>2
  <2> QED  BY <1>3, <2>1
<1>5. ASSUME NEW i \in 1 .. n - 1, i \in S PROVE i + 1 \in S
  <2>1. i \in 1 .. n /\ i + 1 \in 1 .. n /\ 1 \in 1 .. n
    OBVIOUS
  <2>2. /\ sum[i] \in Int /\ w[1] \in Int /\ w[i] \in Int /\ w[i + 1] \in Int
        /\ Gain(bids, path, i) \in Int /\ w[i] - w[i + 1] <= Gain(bids, path, i)
        /\ sum[i + 1] = sum[i] + Gain(bids, path, i) /\ w[1] - w[i] <= sum[i]
    BY <1>3, <1>5, <2>1
  <2>3. \A a, b, x, y, z \in Int :
          /\ (x - y <= a /\ y - z <= b) => (x - z <= a + b)
          /\ (x - y < a /\ y - z <= b) => (x - z < a + b)
          /\ (x - y <= a /\ y - z < b) => (x - z < a + b)
    OBVIOUS
  <2>4. w[1] - w[i + 1] <= sum[i + 1]
    BY <2>2, <2>3
  <2>5. ASSUME k < i + 1, More PROVE w[1] - w[i + 1] < sum[i + 1]
    <3>1. k = i \/ k < i
      BY <1>2, <2>5
    <3>2. CASE k = i
      <4>1. w[i] - w[i + 1] < Gain(bids, path, i)
        BY <2>5, <3>2
      <4> QED  BY <2>2, <2>3, <4>1
    <3>3. CASE k < i
      <4>1. w[1] - w[i] < sum[i]
        BY <1>5, <2>5, <3>3
      <4> QED  BY <2>2, <2>3, <4>1
    <3> QED  BY <3>1, <3>2, <3>3
  <2> QED  BY <2>1, <2>4, <2>5
<1>6. Good(n)
  <2> HIDE DEF S
  <2>1. n \in Int /\ n \in 1 .. n
    OBVIOUS
  <2>2. n \in S
    BY <1>4, <1>5, <2>1, UpTo
  <2> QED  BY <2>2 DEF S
<1>7. More => k < n
  BY <1>2
<1> QED  BY <1>1, <1>2, <1>6, <1>7 DEF SumsUp

\* A simple cycle is a closed path of two edges at least.
LEMMA CycleShape ==
  ASSUME NEW nodes, NEW c \in SimpleCycles(nodes)
  PROVE  /\ c \in Seq(nodes) /\ Len(c) >= 3 /\ c[1] = c[Len(c)]
         /\ \A i, j \in 1 .. Len(c) - 1 : c[i] = c[j] => i = j
<1>1. PICK n \in 2 .. Cardinality(nodes) :
        \E s \in [1 .. n -> nodes] : IsInjective(s) /\ c = Append(s, s[1])
  BY DEF SimpleCycles
<1>a. PICK s \in [1 .. n -> nodes] : IsInjective(s) /\ c = Append(s, s[1])
  BY <1>1
<1>2. n \in Nat /\ n >= 2 /\ s \in Seq(nodes) /\ Len(s) = n /\ s[1] \in nodes
  OBVIOUS
<1>3. /\ c \in Seq(nodes) /\ Len(c) = n + 1 /\ c[n + 1] = s[1]
      /\ \A i \in 1 .. n : c[i] = s[i]
  BY <1>a, <1>2
<1>4. \A i, j \in 1 .. n : s[i] = s[j] => i = j
  BY <1>a, <1>2 DEF IsInjective
<1> QED  BY <1>2, <1>3, <1>4

-----------------------------------------------------------------------------
(* Trees of distances and predecessors.                                    *)

\* Rates between different nodes, of which there are finitely many.
Rated(bids) ==
  /\ IsFiniteSet(NodesOf(bids)) /\ <<>> \notin NodesOf(bids)
  /\ \A e \in DOMAIN bids : e = <<e[1], e[2]>> /\ e[1] # e[2] /\ bids[e] \in Int

Listing(bids, rows) ==
  rows \in Seq(DOMAIN bids) /\ \A e \in DOMAIN bids : \E i \in 1 .. Len(rows) : rows[i] = e

PartialFns(S, T) == UNION {[D -> T] : D \in SUBSET S}

LEMMA PartialFn ==
  ASSUME NEW S, NEW T, NEW f
  PROVE  f \in PartialFns(S, T) <=> (DOMAIN f \subseteq S /\ f \in [DOMAIN f -> T])
BY DEF PartialFns

Trees(bids) ==
  [dist : PartialFns(NodesOf(bids), Int), pred : PartialFns(NodesOf(bids), NodesOf(bids))]

\* Predecessors lead around p, read forwards.
PredCycle(p, pred) ==
  /\ p \in Seq(DOMAIN pred) /\ Len(p) >= 2 /\ p[1] = p[Len(p)]
  /\ \A i \in 1 .. Len(p) - 1 : p[i] = pred[p[i + 1]]

\* The source's distance is 0 until it has a predecessor; the other nodes that
\* are reached have one, over an edge that explains their distance, or more,
\* since the predecessor may have come closer.
Rooted(s, t) ==
  /\ s \in DOMAIN t.dist /\ (s \notin DOMAIN t.pred => t.dist[s] = 0)
  /\ DOMAIN t.pred \subseteq DOMAIN t.dist /\ DOMAIN t.dist \subseteq DOMAIN t.pred \cup {s}

Explained(bids, t) ==
  \A v \in DOMAIN t.pred :
    /\ t.pred[v] \in DOMAIN t.dist /\ <<t.pred[v], v>> \in DOMAIN bids
    /\ t.dist[t.pred[v]] - bids[<<t.pred[v], v>>] <= t.dist[v]

\* Where predecessors lead back to where they started, there is a gain.
CyclesGain(bids, t) == \A p : PredCycle(p, t.pred) => CycleProfit(p, bids) > 0

Grown(bids, s) ==
  {t \in Trees(bids) : Rooted(s, t) /\ Explained(bids, t) /\ CyclesGain(bids, t)}

LEMMA TreeTypes ==
  ASSUME NEW bids, NEW t \in Trees(bids)
  PROVE  /\ t = [dist |-> t.dist, pred |-> t.pred]
         /\ DOMAIN t.dist \subseteq NodesOf(bids) /\ \A v \in DOMAIN t.dist : t.dist[v] \in Int
         /\ DOMAIN t.pred \subseteq NodesOf(bids) /\ \A v \in DOMAIN t.pred : t.pred[v] \in NodesOf(bids)
<1>1. /\ t = [dist |-> t.dist, pred |-> t.pred] /\ t.dist \in PartialFns(NodesOf(bids), Int)
      /\ t.pred \in PartialFns(NodesOf(bids), NodesOf(bids))
  BY DEF Trees
<1> QED  BY <1>1, PartialFn

LEMMA EdgeTypes ==
  ASSUME NEW bids, Rated(bids), NEW e \in DOMAIN bids
  PROVE  /\ e[1] \in NodesOf(bids) /\ e[2] \in NodesOf(bids) /\ e[1] # e[2]
         /\ e = <<e[1], e[2]>> /\ bids[e] \in Int
BY DEF Rated, NodesOf

LEMMA StartGrown ==
  ASSUME NEW bids, Rated(bids), NEW s \in NodesOf(bids)
  PROVE  Start(s) \in Grown(bids, s)
<1> DEFINE t == Start(s)
<1>1. t.dist = [v \in {s} |-> 0] /\ t.pred = <<>> /\ t = [dist |-> t.dist, pred |-> t.pred]
  BY DEF Start
<1>2. DOMAIN t.pred = {} /\ DOMAIN t.dist = {s}
  BY <1>1
<1> HIDE DEF t
<1>3. t.dist \in PartialFns(NodesOf(bids), Int)
  BY <1>1, <1>2, PartialFn
<1>4. t.pred \in PartialFns(NodesOf(bids), NodesOf(bids))
  <2>1. t.pred \in [DOMAIN t.pred -> NodesOf(bids)]
    BY <1>1, <1>2
  <2> QED  BY <1>2, <2>1, PartialFn
<1>5. t \in Trees(bids)
  BY <1>1, <1>3, <1>4 DEF Trees
<1>6. Rooted(s, t) /\ Explained(bids, t)
  BY <1>1, <1>2 DEF Rooted, Explained
<1>7. CyclesGain(bids, t)
  <2> SUFFICES ASSUME NEW p, PredCycle(p, t.pred) PROVE FALSE
    BY DEF CyclesGain
  <2>1. p \in Seq(DOMAIN t.pred) /\ Len(p) >= 2 /\ 1 \in 1 .. Len(p)
    BY DEF PredCycle
  <2>2. p[1] \in DOMAIN t.pred
    BY <2>1
  <2> QED  BY <1>2, <2>2
<1> QED  BY <1>5, <1>6, <1>7 DEF Grown, t

\* What relaxing an edge that gives a shorter way does.
LEMMA RelaxedEdge ==
  ASSUME NEW bids, Rated(bids), NEW t \in Trees(bids), NEW e \in DOMAIN bids,
         Shorter(bids, t, e), NEW r, r = Relax(bids, t, e)
  PROVE  /\ DOMAIN r.dist = DOMAIN t.dist \cup {e[2]} /\ DOMAIN r.pred = DOMAIN t.pred \cup {e[2]}
         /\ r.dist[e[2]] = t.dist[e[1]] - bids[e] /\ r.pred[e[2]] = e[1]
         /\ \A v \in DOMAIN t.dist : v # e[2] => r.dist[v] = t.dist[v]
         /\ \A v \in DOMAIN t.pred : v # e[2] => r.pred[v] = t.pred[v]
         /\ e[1] \in DOMAIN t.dist
         /\ e[2] \in DOMAIN t.dist => t.dist[e[1]] - bids[e] < t.dist[e[2]]
         /\ r \in Trees(bids)
<1>1. /\ r = [dist |-> Assigned(t.dist, e[2], Through(bids, t, e)),
              pred |-> Assigned(t.pred, e[2], e[1])]
      /\ r.dist = Assigned(t.dist, e[2], Through(bids, t, e))
      /\ r.pred = Assigned(t.pred, e[2], e[1])
  BY DEF Relax
<1>2. Through(bids, t, e) = t.dist[e[1]] - bids[e]
  BY DEF Through
<1>3. /\ DOMAIN r.dist = DOMAIN t.dist \cup {e[2]} /\ DOMAIN r.pred = DOMAIN t.pred \cup {e[2]}
      /\ r.dist[e[2]] = t.dist[e[1]] - bids[e] /\ r.pred[e[2]] = e[1]
      /\ \A v \in DOMAIN t.dist : v # e[2] => r.dist[v] = t.dist[v]
      /\ \A v \in DOMAIN t.pred : v # e[2] => r.pred[v] = t.pred[v]
      /\ r.dist \in [DOMAIN r.dist -> {r.dist[v] : v \in DOMAIN r.dist}]
      /\ r.pred \in [DOMAIN r.pred -> {r.pred[v] : v \in DOMAIN r.pred}]
  BY <1>1, <1>2 DEF Assigned
<1>4. e[1] \in DOMAIN t.dist /\ (e[2] \in DOMAIN t.dist => t.dist[e[1]] - bids[e] < t.dist[e[2]])
  BY <1>2 DEF Shorter
<1>5. r.dist \in PartialFns(NodesOf(bids), Int)
  <2>1. \A v \in DOMAIN r.dist : v \in NodesOf(bids) /\ r.dist[v] \in Int
    BY <1>3, <1>4, TreeTypes, EdgeTypes
  <2>2. r.dist \in [DOMAIN r.dist -> Int]
    BY <1>3, <2>1
  <2> QED  BY <2>1, <2>2, PartialFn
<1>6. r.pred \in PartialFns(NodesOf(bids), NodesOf(bids))
  <2>1. \A v \in DOMAIN r.pred : v \in NodesOf(bids) /\ r.pred[v] \in NodesOf(bids)
    BY <1>3, <1>4, TreeTypes, EdgeTypes
  <2>2. r.pred \in [DOMAIN r.pred -> NodesOf(bids)]
    BY <1>3, <2>1
  <2> QED  BY <2>1, <2>2, PartialFn
<1>7. r \in Trees(bids)
  BY <1>1, <1>5, <1>6 DEF Trees
<1> QED  BY <1>3, <1>4, <1>7

LEMMA RelaxRooted ==
  ASSUME NEW bids, Rated(bids), NEW s, NEW t \in Grown(bids, s), NEW e \in DOMAIN bids,
         Shorter(bids, t, e), NEW r, r = Relax(bids, t, e)
  PROVE  Rooted(s, r) /\ Explained(bids, r)
<1>1. t \in Trees(bids) /\ Rooted(s, t) /\ Explained(bids, t)
  BY DEF Grown
<1>2. /\ e[1] \in NodesOf(bids) /\ e[2] \in NodesOf(bids) /\ e[1] # e[2]
      /\ e = <<e[1], e[2]>> /\ bids[e] \in Int
  BY EdgeTypes
<1>3. /\ DOMAIN r.dist = DOMAIN t.dist \cup {e[2]} /\ DOMAIN r.pred = DOMAIN t.pred \cup {e[2]}
      /\ r.dist[e[2]] = t.dist[e[1]] - bids[e] /\ r.pred[e[2]] = e[1]
      /\ \A v \in DOMAIN t.dist : v # e[2] => r.dist[v] = t.dist[v]
      /\ \A v \in DOMAIN t.pred : v # e[2] => r.pred[v] = t.pred[v]
      /\ e[1] \in DOMAIN t.dist
      /\ e[2] \in DOMAIN t.dist => t.dist[e[1]] - bids[e] < t.dist[e[2]]
  BY <1>1, RelaxedEdge
<1>4. \A v \in DOMAIN t.dist : t.dist[v] \in Int
  BY <1>1, TreeTypes
<1>5. Rooted(s, r)
  BY <1>1, <1>3 DEF Rooted
<1>6. ASSUME NEW v \in DOMAIN r.pred
      PROVE  /\ r.pred[v] \in DOMAIN r.dist /\ <<r.pred[v], v>> \in DOMAIN bids
             /\ r.dist[r.pred[v]] - bids[<<r.pred[v], v>>] <= r.dist[v]
  <2>1. CASE v = e[2]
    <3>1. r.pred[v] = e[1] /\ r.dist[e[1]] = t.dist[e[1]] /\ <<e[1], v>> = e
      BY <1>2, <1>3, <2>1
    <3>2. t.dist[e[1]] \in Int /\ t.dist[e[1]] - bids[e] <= t.dist[e[1]] - bids[e]
      BY <1>2, <1>3, <1>4
    <3> QED  BY <1>3, <2>1, <3>1, <3>2
  <2>2. CASE v # e[2]
    <3>1. v \in DOMAIN t.pred /\ r.pred[v] = t.pred[v]
      BY <1>3, <2>2
    <3>2. v \in DOMAIN t.dist /\ r.dist[v] = t.dist[v]
      BY <1>1, <1>3, <2>2, <3>1 DEF Rooted
    <3> DEFINE u == t.pred[v]
    <3>3. /\ u \in DOMAIN t.dist /\ <<u, v>> \in DOMAIN bids
          /\ t.dist[u] - bids[<<u, v>>] <= t.dist[v]
      BY <1>1, <3>1 DEF Explained
    <3> HIDE DEF u
    <3>4. t.dist[u] \in Int /\ t.dist[v] \in Int /\ bids[<<u, v>>] \in Int
      BY <1>4, <3>2, <3>3, EdgeTypes
    <3>5. r.dist[u] \in Int /\ r.dist[u] <= t.dist[u]
      BY <1>2, <1>3, <1>4, <3>3, <3>4
    <3>6. \A a, b, c, d \in Int : (a <= b /\ b - c <= d) => (a - c <= d)
      OBVIOUS
    <3>7. r.dist[u] - bids[<<u, v>>] <= t.dist[v]
      BY <3>3, <3>4, <3>5, <3>6
    <3> QED  BY <1>3, <3>1, <3>2, <3>3, <3>7 DEF u
  <2> QED  BY <2>1, <2>2
<1> QED  BY <1>5, <1>6 DEF Explained

\* A cycle of predecessors that relaxing an edge closes has this edge, which
\* brings its end closer, while the others explain the distances of theirs.
LEMMA RelaxCyclesGain ==
  ASSUME NEW bids, Rated(bids), NEW s, NEW t \in Grown(bids, s), NEW e \in DOMAIN bids,
         Shorter(bids, t, e), NEW r, r = Relax(bids, t, e)
  PROVE  CyclesGain(bids, r)
<1>1. t \in Trees(bids) /\ Rooted(s, t) /\ Explained(bids, t) /\ CyclesGain(bids, t)
  BY DEF Grown
<1>2. e[1] # e[2] /\ e = <<e[1], e[2]>> /\ bids[e] \in Int
  BY EdgeTypes
<1>3. /\ DOMAIN r.pred = DOMAIN t.pred \cup {e[2]} /\ r.pred[e[2]] = e[1]
      /\ \A v \in DOMAIN t.pred : v # e[2] => r.pred[v] = t.pred[v]
      /\ e[1] \in DOMAIN t.dist
      /\ e[2] \in DOMAIN t.dist => t.dist[e[1]] - bids[e] < t.dist[e[2]]
  BY <1>1, RelaxedEdge
<1>4. \A v \in DOMAIN t.dist : t.dist[v] \in Int
  BY <1>1, TreeTypes
<1> SUFFICES ASSUME NEW p, PredCycle(p, r.pred) PROVE CycleProfit(p, bids) > 0
  BY DEF CyclesGain
<1>5. PICK n \in Nat : n = Len(p) /\ n >= 2
  BY DEF PredCycle
<1>6. /\ p \in Seq(DOMAIN r.pred) /\ p[1] = p[n]
      /\ \A i \in 1 .. n : p[i] \in DOMAIN r.pred
      /\ \A i \in 1 .. n - 1 : p[i] = r.pred[p[i + 1]]
  BY <1>5 DEF PredCycle
<1>7. CASE \A i \in 1 .. n : p[i] # e[2]
  <2>1. \A i \in 1 .. n : p[i] \in DOMAIN t.pred
    BY <1>3, <1>6, <1>7
  <2>2. p \in Seq(DOMAIN t.pred)
    <3>1. p \in [1 .. n -> DOMAIN r.pred]
      BY <1>5, <1>6
    <3>2. p \in [1 .. n -> DOMAIN t.pred]
      BY <2>1, <3>1
    <3> QED  BY <3>2, <1>5
  <2>3. ASSUME NEW i \in 1 .. n - 1 PROVE p[i] = t.pred[p[i + 1]]
    <3>1. i + 1 \in 1 .. n
      BY <1>5
    <3> QED  BY <1>3, <1>6, <1>7, <2>1, <3>1
  <2>4. PredCycle(p, t.pred)
    BY <1>5, <1>6, <2>2, <2>3 DEF PredCycle
  <2> QED  BY <1>1, <2>4 DEF CyclesGain
<1>8. CASE \E i \in 1 .. n : p[i] = e[2]
  <2>1. PICK k \in 1 .. n - 1 : p[k + 1] = e[2]
    <3>1. PICK i \in 1 .. n : p[i] = e[2]
      BY <1>8
    <3>2. CASE i = 1
      <4>1. n - 1 \in 1 .. n - 1 /\ (n - 1) + 1 = n
        BY <1>5
      <4> QED  BY <1>6, <3>1, <3>2, <4>1
    <3>3. CASE i # 1
      <4>1. i - 1 \in 1 .. n - 1 /\ (i - 1) + 1 = i
        BY <3>3
      <4> QED  BY <3>1, <4>1
    <3> QED  BY <3>2, <3>3
  <2>2. p[k] = e[1]
    BY <1>3, <1>6, <2>1
  <2>3. e[2] \in DOMAIN t.dist
    <3>1. PICK j \in 1 .. n - 1 : p[j] = e[2]
      <4>1. CASE k + 1 = n
        <5>1. 1 \in 1 .. n - 1
          BY <1>5
        <5> QED  BY <1>6, <2>1, <4>1, <5>1
      <4>2. CASE k + 1 # n
        <5>1. k + 1 \in 1 .. n - 1
          BY <4>2, <1>5
        <5> QED  BY <2>1, <5>1
      <4> QED  BY <4>1, <4>2
    <3>2. j + 1 \in 1 .. n
      BY <1>5
    <3>3. p[j + 1] # e[2] /\ p[j + 1] \in DOMAIN t.pred /\ e[2] = t.pred[p[j + 1]]
      BY <1>2, <1>3, <1>6, <3>1, <3>2
    <3> QED  BY <1>1, <3>3 DEF Explained
  <2>4. \A i \in 1 .. n : p[i] \in DOMAIN t.dist
    BY <1>1, <1>3, <1>6, <2>3 DEF Rooted
  <2> DEFINE w == [i \in 1 .. n |-> t.dist[p[i]]]
  <2>5. w \in [1 .. n -> Int]
    BY <1>4, <2>4
  <2>6. ASSUME NEW i \in 1 .. n - 1
        PROVE  /\ Gain(bids, p, i) \in Int /\ w[i] - w[i + 1] <= Gain(bids, p, i)
               /\ i = k => w[i] - w[i + 1] < Gain(bids, p, i)
    <3>1. i \in 1 .. n /\ i + 1 \in 1 .. n
      BY <1>5
    <3>2. w[i] = t.dist[p[i]] /\ w[i + 1] = t.dist[p[i + 1]] /\ w[i] \in Int /\ w[i + 1] \in Int
      BY <2>5, <3>1
    <3> HIDE DEF w
    <3>3. \A a, b, c \in Int : /\ a - c < b => a - b < c
                               /\ a - c <= b => a - b <= c
                               /\ a - b < c => a - b <= c
      OBVIOUS
    <3>4. CASE p[i + 1] = e[2]
      <4>1. p[i] = e[1] /\ Gain(bids, p, i) = bids[e]
        <5>1. p[i] = e[1]
          BY <1>3, <1>6, <3>4
        <5>2. <<p[i], p[i + 1]>> = e
          BY <1>2, <3>4, <5>1, Zenon
        <5> QED  BY <5>1, <5>2 DEF Gain
      <4>2. w[i] - Gain(bids, p, i) < w[i + 1]
        BY <1>3, <2>3, <3>2, <3>4, <4>1
      <4> QED  BY <1>2, <3>2, <3>3, <4>1, <4>2
    <3>5. CASE p[i + 1] # e[2]
      <4>1. p[i + 1] \in DOMAIN t.pred /\ p[i] = t.pred[p[i + 1]]
        BY <1>3, <1>6, <3>1, <3>5
      <4>2. <<p[i], p[i + 1]>> \in DOMAIN bids
            /\ t.dist[p[i]] - bids[<<p[i], p[i + 1]>>] <= t.dist[p[i + 1]]
        BY <1>1, <4>1 DEF Explained
      <4>3. Gain(bids, p, i) \in Int
        BY <4>2, EdgeTypes DEF Gain
      <4>4. w[i] - Gain(bids, p, i) <= w[i + 1]
        BY <3>2, <4>2 DEF Gain
      <4>5. i # k
        BY <2>1, <3>5
      <4> QED  BY <3>2, <3>3, <4>3, <4>4, <4>5
    <3> QED  BY <3>4, <3>5
  <2>7. k \in 1 .. Len(p) /\ k # Len(p) /\ w[k] - w[k + 1] < Gain(bids, p, k)
    <3>1. k \in 1 .. n /\ k # n
      BY <1>5
    <3> QED  BY <1>5, <2>6, <3>1
  <2>8. w[1] = w[n] /\ w[1] \in Int
    <3>1. 1 \in 1 .. n /\ n \in 1 .. n
      BY <1>5
    <3> QED  BY <1>6, <2>5, <3>1
  <2> HIDE DEF w
  <2>9. GainsOf(bids, p)
    BY <1>5, <2>6 DEF GainsOf
  <2>10. w[1] - w[n] < CycleProfit(p, bids)
    <3>1. Len(p) \in Nat \ {0} /\ w \in [1 .. Len(p) -> Int]
      BY <1>5, <2>5
    <3>2. \A i \in 1 .. Len(p) - 1 : w[i] - w[i + 1] <= Gain(bids, p, i)
      BY <1>5, <2>6
    <3> QED  BY <1>5, <2>7, <2>9, <3>1, <3>2, GainsAtLeast
  <2>11. \A x, y \in Int : x - x = 0
    OBVIOUS
  <2> QED  BY <2>8, <2>10, <2>11
<1> QED  BY <1>7, <1>8

\* Relaxing an edge keeps what the tree says.
LEMMA RelaxGrown ==
  ASSUME NEW bids, Rated(bids), NEW s, NEW t \in Grown(bids, s), NEW e \in DOMAIN bids
  PROVE  Relax(bids, t, e) \in Grown(bids, s)
<1>1. CASE Shorter(bids, t, e)
  <2> DEFINE r == Relax(bids, t, e)
  <2>1. t \in Trees(bids)
    BY DEF Grown
  <2>2. r \in Trees(bids)
    BY <1>1, <2>1, RelaxedEdge
  <2>3. Rooted(s, r) /\ Explained(bids, r)
    BY <1>1, RelaxRooted
  <2>4. CyclesGain(bids, r)
    BY <1>1, RelaxCyclesGain
  <2> QED  BY <2>2, <2>3, <2>4 DEF Grown
<1>2. CASE ~Shorter(bids, t, e)
  BY <1>2 DEF Relax
<1> QED  BY <1>1, <1>2

\* In r every node of t is reached, and is as near as in t.
Closer(t, r) == \A v \in DOMAIN t.dist : v \in DOMAIN r.dist /\ r.dist[v] <= t.dist[v]

\* The end of an edge is reached from its start, as it is in t.
Follows(bids, e, t, r) ==
  e[1] \in DOMAIN t.dist =>
    e[2] \in DOMAIN r.dist /\ r.dist[e[2]] <= t.dist[e[1]] - bids[e]

LEMMA CloserTransitive ==
  ASSUME NEW bids, NEW t \in Trees(bids), NEW q \in Trees(bids), NEW r \in Trees(bids),
         Closer(t, q), Closer(q, r)
  PROVE  Closer(t, r)
<1> SUFFICES ASSUME NEW v \in DOMAIN t.dist PROVE v \in DOMAIN r.dist /\ r.dist[v] <= t.dist[v]
  BY DEF Closer
<1>1. v \in DOMAIN q.dist /\ v \in DOMAIN r.dist /\ q.dist[v] <= t.dist[v] /\ r.dist[v] <= q.dist[v]
  BY DEF Closer
<1>2. t.dist[v] \in Int /\ q.dist[v] \in Int /\ r.dist[v] \in Int
  BY <1>1, TreeTypes
<1>3. \A a, b, c \in Int : (a <= b /\ b <= c) => a <= c
  OBVIOUS
<1> QED  BY <1>1, <1>2, <1>3

LEMMA RelaxCloser ==
  ASSUME NEW bids, Rated(bids), NEW t \in Trees(bids), NEW e \in DOMAIN bids,
         NEW r, r = Relax(bids, t, e)
  PROVE  r \in Trees(bids) /\ Closer(t, r) /\ Follows(bids, e, t, r)
<1>1. e[1] # e[2] /\ bids[e] \in Int
  BY EdgeTypes
<1>2. \A v \in DOMAIN t.dist : t.dist[v] \in Int
  BY TreeTypes
<1>3. CASE Shorter(bids, t, e)
  <2>1. /\ DOMAIN r.dist = DOMAIN t.dist \cup {e[2]} /\ r.dist[e[2]] = t.dist[e[1]] - bids[e]
        /\ \A v \in DOMAIN t.dist : v # e[2] => r.dist[v] = t.dist[v]
        /\ e[1] \in DOMAIN t.dist
        /\ e[2] \in DOMAIN t.dist => t.dist[e[1]] - bids[e] < t.dist[e[2]]
        /\ r \in Trees(bids)
    BY <1>3, RelaxedEdge
  <2>2. t.dist[e[1]] - bids[e] \in Int
    BY <1>1, <1>2, <2>1
  <2>3. \A v \in DOMAIN t.dist : r.dist[v] <= t.dist[v]
    BY <1>2, <2>1, <2>2
  <2>4. r.dist[e[2]] <= t.dist[e[1]] - bids[e]
    BY <2>1, <2>2
  <2> QED  BY <2>1, <2>3, <2>4 DEF Closer, Follows
<1>4. CASE ~Shorter(bids, t, e)
  <2>1. r = t
    BY <1>4 DEF Relax
  <2>2. e[1] \in DOMAIN t.dist =>
          e[2] \in DOMAIN t.dist /\ ~(t.dist[e[1]] - bids[e] < t.dist[e[2]])
    BY <1>4 DEF Shorter, Through
  <2>3. \A a, b, c \in Int : ~(a - b < c) => c <= a - b
    OBVIOUS
  <2>4. Follows(bids, e, t, r)
    BY <1>1, <1>2, <2>1, <2>2, <2>3 DEF Follows
  <2>5. \A v \in DOMAIN t.dist : t.dist[v] <= t.dist[v]
    BY <1>2
  <2> QED  BY <2>1, <2>4, <2>5 DEF Closer
<1> QED  BY <1>3, <1>4

\* The trees of a pass, row by row.
PassRun(bids, rows, s, t, f) ==
  /\ f \in [0 .. Len(rows) -> Grown(bids, s)]
  /\ f[0] = t /\ f[Len(rows)] = Pass(bids, rows, t)
  /\ \A i \in 1 .. Len(rows) : f[i] = Relax(bids, f[i - 1], rows[i])

LEMMA PassRuns ==
  ASSUME NEW bids, Rated(bids), NEW rows, Listing(bids, rows), NEW s, NEW t \in Grown(bids, s)
  PROVE  \E f : PassRun(bids, rows, s, t, f)
<1> DEFINE V == Grown(bids, s)
           n == Len(rows)
           F == [i \in 1 .. n |-> [x \in V |-> Relax(bids, x, rows[i])]]
           Eq(f) == f = [i \in 0 .. n |-> IF i = 0 THEN t ELSE Relax(bids, f[i - 1], rows[i])]
           f == CHOOSE f : Eq(f)
<1>1. rows \in Seq(DOMAIN bids) /\ n \in Nat /\ \A i \in 1 .. n : rows[i] \in DOMAIN bids
  BY DEF Listing
<1>2. Pass(bids, rows, t) = f[n]
  BY DEF Pass
<1>3. F \in [1 .. n -> [V -> V]]
  BY <1>1, RelaxGrown
<1> HIDE DEF V, n
<1>4. PICK g : Runs(g, F, V, t, n)
  <2> HIDE DEF F
  <2>1. t \in V
    BY DEF V
  <2> QED  BY <1>1, <1>3, <2>1, Recursion
<1>5. \A i \in 1 .. n : g[i] = Relax(bids, g[i - 1], rows[i])
  <2> SUFFICES ASSUME NEW i \in 1 .. n PROVE g[i] = Relax(bids, g[i - 1], rows[i])
    OBVIOUS
  <2>1. i - 1 \in 0 .. n
    BY <1>1
  <2>2. g[i - 1] \in V /\ g[i] = F[i][g[i - 1]]
    BY <1>4, <2>1 DEF Runs
  <2> QED  BY <2>2
<1>6. Eq(g)
  <2>1. g \in [0 .. n -> V] /\ g[0] = t
    BY <1>4 DEF Runs
  <2>2. \A i \in 0 .. n : g[i] = IF i = 0 THEN t ELSE Relax(bids, g[i - 1], rows[i])
    <3>1. \A i \in 0 .. n : i # 0 => i \in 1 .. n
      BY <1>1
    <3> QED  BY <1>5, <2>1, <3>1
  <2> QED  BY <2>1, <2>2
<1>7. Eq(f)
  <2> HIDE DEF Eq
  <2> QED  BY <1>6
<1> HIDE DEF f
<1>8. f = [i \in 0 .. n |-> IF i = 0 THEN t ELSE Relax(bids, f[i - 1], rows[i])]
  BY <1>7
<1> HIDE DEF Eq
<1>9. DOMAIN f = 0 .. n /\ f[0] = t
  <2>1. 0 \in 0 .. n
    BY <1>1
  <2> QED  BY <1>8, <2>1
<1>10. \A i \in 1 .. n : f[i] = Relax(bids, f[i - 1], rows[i])
  <2>1. \A i \in 1 .. n : i \in 0 .. n /\ i # 0
    BY <1>1
  <2> QED  BY <1>8, <2>1
<1> DEFINE S == {i \in 0 .. n : f[i] \in V}
<1>11. \A i \in 0 .. n : i \in S
  <2>1. 0 \in S
    BY <1>1, <1>9 DEF V
  <2>2. ASSUME NEW i \in 0 .. n - 1, i \in S PROVE i + 1 \in S
    <3>1. i + 1 \in 1 .. n /\ i + 1 \in 0 .. n /\ (i + 1) - 1 = i
      BY <1>1
    <3>2. f[i + 1] = Relax(bids, f[i], rows[i + 1]) /\ f[i] \in V /\ rows[i + 1] \in DOMAIN bids
      BY <1>1, <1>10, <2>2, <3>1
    <3>3. f[i + 1] \in V
      BY <3>2, RelaxGrown DEF V
    <3> QED  BY <3>1, <3>3
  <2> HIDE DEF S
  <2>3. 0 \in Nat /\ n \in Int
    BY <1>1
  <2> QED  BY <2>1, <2>2, <2>3, UpTo
<1>12. f \in [0 .. n -> V]
  <2>1. f = [i \in 0 .. n |-> f[i]]
    BY <1>8, <1>9
  <2> QED  BY <2>1, <1>11
<1> QED  BY <1>2, <1>9, <1>10, <1>12 DEF PassRun, n, V

LEMMA RunCloser ==
  ASSUME NEW bids, Rated(bids), NEW rows, Listing(bids, rows), NEW s, NEW t, NEW f,
         PassRun(bids, rows, s, t, f), NEW i \in 0 .. Len(rows), NEW j \in i .. Len(rows)
  PROVE  Closer(f[i], f[j])
<1> DEFINE n == Len(rows)
           S == {k \in i .. n : Closer(f[i], f[k])}
<1>1. n \in Nat /\ \A k \in 1 .. n : rows[k] \in DOMAIN bids
  BY DEF Listing
<1>2. \A k \in 0 .. n : f[k] \in Trees(bids)
  BY DEF PassRun, Grown
<1> HIDE DEF n
<1>3. i \in Nat /\ i \in 0 .. n
  BY <1>1 DEF n
<1>4. i \in S
  <2>1. \A v \in DOMAIN f[i].dist : f[i].dist[v] \in Int
    BY <1>2, <1>3, TreeTypes
  <2>2. Closer(f[i], f[i])
    BY <2>1 DEF Closer
  <2> QED  BY <1>3, <2>2
<1>5. ASSUME NEW k \in i .. n - 1, k \in S PROVE k + 1 \in S
  <2>1. k \in 0 .. n /\ k + 1 \in 0 .. n /\ k + 1 \in 1 .. n /\ (k + 1) - 1 = k /\ k + 1 \in i .. n
    BY <1>1, <1>3
  <2>2. f[k + 1] = Relax(bids, f[k], rows[k + 1])
    BY <2>1 DEF PassRun, n
  <2>3. Closer(f[k], f[k + 1])
    BY <1>1, <1>2, <2>1, <2>2, RelaxCloser
  <2>4. Closer(f[i], f[k])
    BY <1>5
  <2>5. Closer(f[i], f[k + 1])
    BY <1>2, <1>3, <2>1, <2>3, <2>4, CloserTransitive
  <2> QED  BY <2>1, <2>5
<1>6. j \in S
  <2> HIDE DEF S
  <2>1. j \in i .. n /\ n \in Int
    BY <1>1 DEF n
  <2> QED  BY <1>3, <1>4, <1>5, <2>1, UpTo
<1> QED  BY <1>6

LEMMA RunFollows ==
  ASSUME NEW bids, Rated(bids), NEW rows, Listing(bids, rows), NEW s, NEW t, NEW f,
         PassRun(bids, rows, s, t, f), NEW i \in 1 .. Len(rows)
  PROVE  Follows(bids, rows[i], f[i - 1], f[i])
<1>1. Len(rows) \in Nat /\ rows[i] \in DOMAIN bids /\ i - 1 \in 0 .. Len(rows)
  BY DEF Listing
<1>2. f[i - 1] \in Trees(bids) /\ f[i] = Relax(bids, f[i - 1], rows[i])
  BY <1>1 DEF PassRun, Grown
<1> QED  BY <1>1, <1>2, RelaxCloser

\* What comes after a tree that follows from one that is closer than t.
LEMMA FollowsFrom ==
  ASSUME NEW bids, Rated(bids), NEW e \in DOMAIN bids,
         NEW t \in Trees(bids), NEW q \in Trees(bids), NEW r \in Trees(bids),
         NEW u \in Trees(bids), Closer(t, q), Follows(bids, e, q, r), Closer(r, u)
  PROVE  Follows(bids, e, t, u)
<1> SUFFICES ASSUME e[1] \in DOMAIN t.dist
             PROVE  e[2] \in DOMAIN u.dist /\ u.dist[e[2]] <= t.dist[e[1]] - bids[e]
  BY DEF Follows
<1>1. e[1] \in DOMAIN q.dist /\ q.dist[e[1]] <= t.dist[e[1]]
  BY DEF Closer
<1>2. e[2] \in DOMAIN r.dist /\ r.dist[e[2]] <= q.dist[e[1]] - bids[e]
  BY <1>1 DEF Follows
<1>3. e[2] \in DOMAIN u.dist /\ u.dist[e[2]] <= r.dist[e[2]]
  BY <1>2 DEF Closer
<1>4. /\ t.dist[e[1]] \in Int /\ q.dist[e[1]] \in Int /\ r.dist[e[2]] \in Int
      /\ u.dist[e[2]] \in Int /\ bids[e] \in Int
  BY <1>1, <1>2, <1>3, TreeTypes, EdgeTypes
<1>5. \A a, b, c, d, g \in Int : (a <= b /\ c <= a - g /\ d <= c) => d <= b - g
  OBVIOUS
<1> QED  BY <1>1, <1>2, <1>3, <1>4, <1>5

\* A pass follows every edge, and two edges in a row if it comes to them in
\* their order.
LEMMA PassReaches ==
  ASSUME NEW bids, Rated(bids), NEW rows, Listing(bids, rows), NEW s, NEW t \in Grown(bids, s),
         NEW u, u = Pass(bids, rows, t)
  PROVE  /\ u \in Grown(bids, s) /\ Closer(t, u)
         /\ \A e \in DOMAIN bids : Follows(bids, e, t, u)
         /\ \A i, j \in 1 .. Len(rows) : i < j =>
              \E q \in Trees(bids) : Follows(bids, rows[i], t, q) /\ Follows(bids, rows[j], q, u)
<1>1. PICK f : PassRun(bids, rows, s, t, f)
  BY PassRuns
<1>2. PICK n \in Nat : n = Len(rows)
  BY DEF Listing
<1>3. /\ f[0] = t /\ f[n] = u /\ \A i \in 0 .. n : f[i] \in Grown(bids, s) /\ f[i] \in Trees(bids)
      /\ 0 \in 0 .. n /\ n \in 0 .. n
  BY <1>1, <1>2 DEF PassRun, Grown
<1>4. \A i \in 1 .. n : rows[i] \in DOMAIN bids
  BY <1>2 DEF Listing
<1>5. Closer(t, u)
  <2>1. n \in 0 .. Len(rows) /\ 0 \in 0 .. Len(rows)
    BY <1>2
  <2> QED  BY <1>1, <1>3, <2>1, RunCloser
<1>6. ASSUME NEW e \in DOMAIN bids PROVE Follows(bids, e, t, u)
  <2>1. PICK i \in 1 .. n : rows[i] = e
    BY <1>2 DEF Listing
  <2>2. i - 1 \in 0 .. n /\ i \in 0 .. n /\ n \in i .. n /\ i - 1 \in 0 .. n
    BY <1>2
  <2>3. Closer(t, f[i - 1]) /\ Closer(f[i], u)
    BY <1>1, <1>2, <1>3, <2>2, RunCloser
  <2>4. Follows(bids, e, f[i - 1], f[i])
    BY <1>1, <1>2, <2>1, RunFollows
  <2> QED  BY <1>3, <2>2, <2>3, <2>4, FollowsFrom
<1>7. ASSUME NEW i \in 1 .. n, NEW j \in 1 .. n, i < j
      PROVE  \E q \in Trees(bids) : Follows(bids, rows[i], t, q) /\ Follows(bids, rows[j], q, u)
  <2>1. /\ i - 1 \in 0 .. n /\ i \in 0 .. n /\ j - 1 \in i .. n /\ j - 1 \in 0 .. n
        /\ j \in 0 .. n /\ n \in j .. n
    BY <1>2, <1>7
  <2>2. Closer(t, f[i - 1]) /\ Closer(f[i], f[j - 1]) /\ Closer(f[j], u)
    BY <1>1, <1>2, <1>3, <2>1, RunCloser
  <2>3. Follows(bids, rows[i], f[i - 1], f[i]) /\ Follows(bids, rows[j], f[j - 1], f[j])
    BY <1>1, <1>2, RunFollows
  <2>4. f[i] \in Trees(bids) /\ Closer(f[i], f[i])
    <3>1. i \in i .. n
      BY <2>1
    <3> QED  BY <1>1, <1>2, <1>3, <2>1, <3>1, RunCloser
  <2>5. Follows(bids, rows[i], t, f[i])
    BY <1>3, <1>4, <2>1, <2>2, <2>3, <2>4, FollowsFrom
  <2>6. Follows(bids, rows[j], f[i], u)
    BY <1>3, <1>4, <2>1, <2>2, <2>3, <2>4, FollowsFrom
  <2> QED  BY <2>4, <2>5, <2>6
<1> QED  BY <1>2, <1>3, <1>5, <1>6, <1>7

\* The trees of a source, pass by pass.
TreeRun(bids, rows, s, f) ==
  LET n == Cardinality(NodesOf(bids)) IN
  /\ f \in [0 .. n - 1 -> Grown(bids, s)]
  /\ f[0] = Start(s) /\ f[n - 1] = Tree(bids, rows, s)
  /\ \A i \in 1 .. n - 1 : f[i] = Pass(bids, rows, f[i - 1])

LEMMA TreeRuns ==
  ASSUME NEW bids, Rated(bids), NEW rows, Listing(bids, rows), NEW s \in NodesOf(bids)
  PROVE  \E f : TreeRun(bids, rows, s, f)
<1> DEFINE V == Grown(bids, s)
           m == Cardinality(NodesOf(bids)) - 1
           F == [i \in 1 .. m |-> [x \in V |-> Pass(bids, rows, x)]]
           Eq(f) == f = [i \in 0 .. m |-> IF i = 0 THEN Start(s) ELSE Pass(bids, rows, f[i - 1])]
           f == CHOOSE f : Eq(f)
<1>1. m \in Nat
  <2>1. NodesOf(bids) # {} /\ IsFiniteSet(NodesOf(bids))
    BY DEF Rated
  <2>2. Cardinality(NodesOf(bids)) \in Nat /\ Cardinality(NodesOf(bids)) # 0
    BY <2>1, FS_CardinalityType, FS_EmptySet
  <2> QED  BY <2>2
<1>2. Tree(bids, rows, s) = f[m]
  BY DEF Tree
<1>3. F \in [1 .. m -> [V -> V]]
  BY <1>1, PassReaches
<1> HIDE DEF V, m
<1>4. PICK g : Runs(g, F, V, Start(s), m)
  <2> HIDE DEF F
  <2>1. Start(s) \in V
    BY StartGrown DEF V
  <2> QED  BY <1>1, <1>3, <2>1, Recursion
<1>5. \A i \in 1 .. m : g[i] = Pass(bids, rows, g[i - 1])
  <2> SUFFICES ASSUME NEW i \in 1 .. m PROVE g[i] = Pass(bids, rows, g[i - 1])
    OBVIOUS
  <2>1. i - 1 \in 0 .. m
    BY <1>1
  <2>2. g[i - 1] \in V /\ g[i] = F[i][g[i - 1]]
    BY <1>4, <2>1 DEF Runs
  <2> QED  BY <2>2
<1>6. Eq(g)
  <2>1. g \in [0 .. m -> V] /\ g[0] = Start(s)
    BY <1>4 DEF Runs
  <2>2. \A i \in 0 .. m : g[i] = IF i = 0 THEN Start(s) ELSE Pass(bids, rows, g[i - 1])
    <3>1. \A i \in 0 .. m : i # 0 => i \in 1 .. m
      BY <1>1
    <3> QED  BY <1>5, <2>1, <3>1
  <2> QED  BY <2>1, <2>2
<1>7. Eq(f)
  <2> HIDE DEF Eq
  <2> QED  BY <1>6
<1> HIDE DEF f
<1>8. f = [i \in 0 .. m |-> IF i = 0 THEN Start(s) ELSE Pass(bids, rows, f[i - 1])]
  BY <1>7
<1> HIDE DEF Eq
<1>9. DOMAIN f = 0 .. m /\ f[0] = Start(s)
  <2>1. 0 \in 0 .. m
    BY <1>1
  <2> QED  BY <1>8, <2>1
<1>10. \A i \in 1 .. m : f[i] = Pass(bids, rows, f[i - 1])
  <2>1. \A i \in 1 .. m : i \in 0 .. m /\ i # 0
    BY <1>1
  <2> QED  BY <1>8, <2>1
<1> DEFINE S == {i \in 0 .. m : f[i] \in V}
<1>11. \A i \in 0 .. m : i \in S
  <2>1. 0 \in S
    BY <1>1, <1>9, StartGrown DEF V
  <2>2. ASSUME NEW i \in 0 .. m - 1, i \in S PROVE i + 1 \in S
    <3>1. i + 1 \in 1 .. m /\ i + 1 \in 0 .. m /\ (i + 1) - 1 = i
      BY <1>1
    <3>2. f[i + 1] = Pass(bids, rows, f[i]) /\ f[i] \in V
      BY <1>10, <2>2, <3>1
    <3>3. f[i + 1] \in V
      BY <3>2, PassReaches DEF V
    <3> QED  BY <3>1, <3>3
  <2> HIDE DEF S
  <2>3. 0 \in Nat /\ m \in Int
    BY <1>1
  <2> QED  BY <2>1, <2>2, <2>3, UpTo
<1>12. f \in [0 .. m -> V]
  <2>1. f = [i \in 0 .. m |-> f[i]]
    BY <1>8, <1>9
  <2> QED  BY <2>1, <1>11
<1> QED  BY <1>2, <1>9, <1>10, <1>12 DEF TreeRun, m, V

-----------------------------------------------------------------------------
(* Walks back along predecessors.                                          *)

Predecessors(N, pred) == <<>> \notin N /\ pred \in PartialFns(N, N)

\* f is the walk from v over i predecessors.
Walk(N, pred, v, i, f) ==
  /\ f \in [0 .. i -> N \cup {<<>>}] /\ f[0] = v /\ f[i] = Back(pred, v, i)
  /\ \A k \in 1 .. i : f[k] = Before(pred, f[k - 1])

LEMMA BeforeTypes ==
  ASSUME NEW N, NEW pred, Predecessors(N, pred)
  PROVE  /\ \A v \in N \cup {<<>>} : Before(pred, v) \in N \cup {<<>>}
         /\ Before(pred, <<>>) = <<>>
         /\ \A v \in N : Before(pred, v) # <<>> => v \in DOMAIN pred /\ Before(pred, v) = pred[v]
         /\ \A v \in DOMAIN pred : v \in N /\ pred[v] \in N /\ Before(pred, v) = pred[v]
<1>1. DOMAIN pred \subseteq N /\ pred \in [DOMAIN pred -> N] /\ <<>> \notin N
  BY PartialFn DEF Predecessors
<1> QED  BY <1>1 DEF Before

LEMMA WalkSteps ==
  ASSUME NEW N, NEW pred, Predecessors(N, pred), NEW v \in N \cup {<<>>}, NEW i \in Nat
  PROVE  \E f : Walk(N, pred, v, i, f)
<1> DEFINE Eq(f) == f = [k \in 0 .. i |-> IF k = 0 THEN v ELSE Before(pred, f[k - 1])]
           V == N \cup {<<>>}
           F == [k \in 1 .. i |-> [x \in V |-> Before(pred, x)]]
           f == CHOOSE f : Eq(f)
<1>1. Back(pred, v, i) = f[i]
  BY DEF Back
<1>2. F \in [1 .. i -> [V -> V]]
  BY BeforeTypes
<1> HIDE DEF V
<1>3. PICK g : Runs(g, F, V, v, i)
  <2> HIDE DEF F
  <2>1. v \in V
    BY DEF V
  <2> QED  BY <1>2, <2>1, Recursion
<1>4. \A k \in 1 .. i : g[k] = Before(pred, g[k - 1])
  <2> SUFFICES ASSUME NEW k \in 1 .. i PROVE g[k] = Before(pred, g[k - 1])
    OBVIOUS
  <2>1. k - 1 \in 0 .. i
    OBVIOUS
  <2>2. g[k - 1] \in V /\ g[k] = F[k][g[k - 1]]
    BY <1>3, <2>1 DEF Runs
  <2> QED  BY <2>2
<1>5. Eq(g)
  <2>1. g \in [0 .. i -> V] /\ g[0] = v
    BY <1>3 DEF Runs
  <2>2. \A k \in 0 .. i : g[k] = IF k = 0 THEN v ELSE Before(pred, g[k - 1])
    <3>1. \A k \in 0 .. i : k # 0 => k \in 1 .. i
      OBVIOUS
    <3> QED  BY <1>4, <2>1, <3>1
  <2> QED  BY <2>1, <2>2
<1>6. Eq(f)
  <2> HIDE DEF Eq
  <2> QED  BY <1>5
<1> HIDE DEF f
<1>7. f = [k \in 0 .. i |-> IF k = 0 THEN v ELSE Before(pred, f[k - 1])]
  BY <1>6
<1> HIDE DEF Eq
<1>8. DOMAIN f = 0 .. i /\ f[0] = v
  <2>1. 0 \in 0 .. i
    OBVIOUS
  <2> QED  BY <1>7, <2>1
<1>9. \A k \in 1 .. i : f[k] = Before(pred, f[k - 1])
  <2>1. \A k \in 1 .. i : k \in 0 .. i /\ k # 0
    OBVIOUS
  <2> QED  BY <1>7, <2>1
<1> DEFINE S == {k \in 0 .. i : f[k] \in V}
<1>10. \A k \in 0 .. i : k \in S
  <2>1. 0 \in S
    BY <1>8 DEF V
  <2>2. ASSUME NEW k \in 0 .. i - 1, k \in S PROVE k + 1 \in S
    <3>1. k + 1 \in 1 .. i /\ k + 1 \in 0 .. i /\ (k + 1) - 1 = k
      OBVIOUS
    <3>2. f[k + 1] = Before(pred, f[k]) /\ f[k] \in V
      BY <1>9, <2>2, <3>1
    <3>3. f[k + 1] \in V
      BY <3>2, BeforeTypes DEF V
    <3> QED  BY <3>1, <3>3
  <2> HIDE DEF S
  <2>3. 0 \in Nat /\ i \in Int
    OBVIOUS
  <2> QED  BY <2>1, <2>2, <2>3, UpTo
<1>11. f \in [0 .. i -> V]
  <2>1. f = [k \in 0 .. i |-> f[k]]
    BY <1>7, <1>8
  <2> QED  BY <2>1, <1>10
<1> QED  BY <1>1, <1>8, <1>9, <1>11 DEF V, Walk

LEMMA BackSteps ==
  ASSUME NEW N, NEW pred, Predecessors(N, pred), NEW v \in N \cup {<<>>}
  PROVE  /\ Back(pred, v, 0) = v
         /\ \A i \in Nat : /\ Back(pred, v, i) \in N \cup {<<>>}
                           /\ Back(pred, v, i + 1) = Before(pred, Back(pred, v, i))
<1>1. Back(pred, v, 0) = v
  <2>1. 0 \in Nat
    OBVIOUS
  <2>2. PICK f : Walk(N, pred, v, 0, f)
    BY <2>1, WalkSteps
  <2> QED  BY <2>2 DEF Walk
<1>2. ASSUME NEW i \in Nat
      PROVE  /\ Back(pred, v, i) \in N \cup {<<>>}
             /\ Back(pred, v, i + 1) = Before(pred, Back(pred, v, i))
  <2>a. PICK f : Walk(N, pred, v, i, f)
    BY WalkSteps
  <2>b. PICK g : Walk(N, pred, v, i + 1, g)
    <3>1. i + 1 \in Nat
      OBVIOUS
    <3> QED  BY <3>1, WalkSteps
  <2>1. /\ f \in [0 .. i -> N \cup {<<>>}] /\ f[0] = v /\ f[i] = Back(pred, v, i)
        /\ \A k \in 1 .. i : f[k] = Before(pred, f[k - 1])
    BY <2>a DEF Walk
  <2>2. /\ g[0] = v /\ g[i + 1] = Back(pred, v, i + 1)
        /\ \A k \in 1 .. i + 1 : g[k] = Before(pred, g[k - 1])
    BY <2>b DEF Walk
  <2> DEFINE S == {k \in 0 .. i : f[k] = g[k]}
  <2>3. i \in S
    <3>1. 0 \in S
      BY <2>1, <2>2
    <3>2. ASSUME NEW k \in 0 .. i - 1, k \in S PROVE k + 1 \in S
      <4>1. k + 1 \in 1 .. i /\ k + 1 \in 0 .. i /\ k + 1 \in 1 .. i + 1 /\ (k + 1) - 1 = k
        OBVIOUS
      <4> QED  BY <2>1, <2>2, <3>2, <4>1
    <3> HIDE DEF S
    <3>3. 0 \in Nat /\ i \in Int /\ i \in 0 .. i
      OBVIOUS
    <3> QED  BY <3>1, <3>2, <3>3, UpTo
  <2>4. i + 1 \in 1 .. i + 1 /\ (i + 1) - 1 = i /\ i \in 0 .. i
    OBVIOUS
  <2>5. g[i + 1] = Before(pred, g[i])
    BY <2>2, <2>4
  <2>6. f[i] \in N \cup {<<>>}
    BY <2>1, <2>4
  <2> QED  BY <2>1, <2>2, <2>3, <2>5, <2>6
<1> QED  BY <1>1, <1>2

LEMMA BackAdds ==
  ASSUME NEW N, NEW pred, Predecessors(N, pred), NEW v \in N \cup {<<>>}, NEW i \in Nat, NEW k \in Nat
  PROVE  Back(pred, v, i + k) = Back(pred, Back(pred, v, i), k)
<1> DEFINE x == Back(pred, v, i)
           S == {j \in 0 .. k : Back(pred, v, i + j) = Back(pred, x, j)}
<1>1. x \in N \cup {<<>>}
  BY BackSteps
<1> HIDE DEF x
<1>2. 0 \in S
  <2>1. i + 0 = i /\ Back(pred, x, 0) = x
    BY <1>1, BackSteps
  <2> QED  BY <2>1 DEF x
<1>3. ASSUME NEW j \in 0 .. k - 1, j \in S PROVE j + 1 \in S
  <2>1. i + j \in Nat /\ j \in Nat /\ i + (j + 1) = (i + j) + 1 /\ j + 1 \in 0 .. k
    OBVIOUS
  <2>2. Back(pred, v, (i + j) + 1) = Before(pred, Back(pred, v, i + j))
    BY <2>1, BackSteps, SMTT(20)
  <2>3. Back(pred, x, j + 1) = Before(pred, Back(pred, x, j))
    BY <1>1, <2>1, BackSteps
  <2>4. Back(pred, v, i + j) = Back(pred, x, j)
    BY <1>3
  <2> QED  BY <2>1, <2>2, <2>3, <2>4
<1> HIDE DEF S
<1>4. k \in S
  <2>1. 0 \in Nat /\ k \in Int /\ k \in 0 .. k
    OBVIOUS
  <2> QED  BY <1>2, <1>3, <2>1, UpTo
<1> QED  BY <1>4 DEF S, x

\* Nothing comes before the end of a walk.
LEMMA BackEnds ==
  ASSUME NEW N, NEW pred, Predecessors(N, pred), NEW k \in Nat
  PROVE  Back(pred, <<>>, k) = <<>>
<1> DEFINE S == {j \in 0 .. k : Back(pred, <<>>, j) = <<>>}
<1>0. <<>> \in N \cup {<<>>}
  OBVIOUS
<1>1. 0 \in S
  BY <1>0, BackSteps
<1>2. ASSUME NEW j \in 0 .. k - 1, j \in S PROVE j + 1 \in S
  <2>1. j \in Nat /\ j + 1 \in 0 .. k
    OBVIOUS
  <2>2. Back(pred, <<>>, j + 1) = Before(pred, Back(pred, <<>>, j))
    BY <1>0, <2>1, BackSteps
  <2>3. Back(pred, <<>>, j + 1) = <<>>
    BY <1>2, <2>2, BeforeTypes
  <2> QED  BY <2>1, <2>3
<1> HIDE DEF S
<1>3. k \in S
  <2>1. 0 \in Nat /\ k \in Int /\ k \in 0 .. k
    OBVIOUS
  <2> QED  BY <1>1, <1>2, <2>1, UpTo
<1> QED  BY <1>3 DEF S

\* A closed path that visits no node twice.
Simple(c) ==
  Len(c) >= 2 /\ c[1] = c[Len(c)] /\ \A i, j \in 1 .. Len(c) - 1 : c[i] = c[j] => i = j

\* The first way back to v is a cycle of predecessors.
LEMMA LoopTurns ==
  ASSUME NEW N, NEW pred, Predecessors(N, pred), NEW v \in N, NEW n \in Nat,
         NEW c, c = Loop(pred, v, n),
         NEW r \in 1 .. n, Back(pred, v, r) = v
  PROVE  PredCycle(c, pred) /\ Simple(c)
<1> DEFINE B(i) == Back(pred, v, i)
           returns == {i \in 1 .. n : B(i) = v}
           length == CHOOSE i \in returns : \A j \in returns : i <= j
<1>1. \E i \in returns : \A j \in returns : i <= j
  <2>1. returns \subseteq Nat /\ returns # {}
    OBVIOUS
  <2> HIDE DEF returns
  <2> QED  BY <2>1, LeastMember
<1>2. length \in returns /\ \A j \in returns : length <= j
  <2> HIDE DEF returns
  <2> QED  BY <1>1
<1>3. c = [i \in 1 .. length + 1 |-> Back(pred, v, length + 1 - i)]
  BY DEF Loop
<1> HIDE DEF length
<1>4. /\ length \in 1 .. n /\ length \in Nat /\ B(length) = v
      /\ \A j \in 1 .. n : B(j) = v => length <= j
  BY <1>2
<1> HIDE DEF returns
<1>5. v # <<>> /\ v \in N \cup {<<>>}
  BY DEF Predecessors
<1>6. /\ B(0) = v
      /\ \A i \in Nat : B(i) \in N \cup {<<>>} /\ B(i + 1) = Before(pred, B(i))
  BY <1>5, BackSteps, SMTT(20)
<1>7. \A i, k \in Nat : B(i + k) = Back(pred, B(i), k)
  BY <1>5, BackAdds
<1>8. \A i \in 0 .. length : B(i) # <<>> /\ B(i) \in N
  <2>1. ASSUME NEW i \in 0 .. length, B(i) = <<>> PROVE FALSE
    <3>1. i \in Nat /\ length - i \in Nat /\ i + (length - i) = length
      BY <1>4
    <3>2. B(length) = Back(pred, <<>>, length - i)
      BY <1>7, <2>1, <3>1
    <3>3. B(length) = <<>>
      BY <3>1, <3>2, BackEnds
    <3> QED  BY <1>4, <1>5, <3>3
  <2>2. \A i \in 0 .. length : i \in Nat
    BY <1>4
  <2> QED  BY <1>6, <2>1, <2>2
<1>9. \A i \in 0 .. length - 1 : B(i) \in DOMAIN pred /\ B(i + 1) = pred[B(i)]
  <2> SUFFICES ASSUME NEW i \in 0 .. length - 1
               PROVE  B(i) \in DOMAIN pred /\ B(i + 1) = pred[B(i)]
    OBVIOUS
  <2>1. i \in 0 .. length /\ i + 1 \in 0 .. length /\ i \in Nat
    BY <1>4
  <2>2. B(i) \in N /\ B(i + 1) # <<>> /\ B(i + 1) = Before(pred, B(i))
    BY <1>6, <1>8, <2>1
  <2> QED  BY <2>2, BeforeTypes
<1> HIDE DEF B
<1>10. /\ Len(c) = length + 1 /\ DOMAIN c = 1 .. length + 1
       /\ \A i \in 1 .. length + 1 : c[i] = B(length + 1 - i) /\ length + 1 - i \in 0 .. length
  <2>1. \A i \in 1 .. length + 1 : length + 1 - i \in 0 .. length
    BY <1>4
  <2> QED  BY <1>3, <1>4, <2>1 DEF B
<1>11. \A i \in 1 .. length + 1 : c[i] \in DOMAIN pred
  <2> SUFFICES ASSUME NEW i \in 1 .. length + 1 PROVE c[i] \in DOMAIN pred
    OBVIOUS
  <2>1. CASE i = 1
    <3>1. 0 \in 0 .. length - 1 /\ length + 1 - i = length
      BY <1>4, <2>1
    <3> QED  BY <1>4, <1>6, <1>9, <1>10, <3>1
  <2>2. CASE i # 1
    <3>1. length + 1 - i \in 0 .. length - 1
      BY <1>4, <2>2
    <3> QED  BY <1>9, <1>10, <3>1
  <2> QED  BY <2>1, <2>2
<1>12. c \in Seq(DOMAIN pred)
  <2>1. c \in [1 .. length + 1 -> DOMAIN pred]
    BY <1>3, <1>10, <1>11
  <2> QED  BY <1>4, <2>1
<1>13. c[1] = v /\ c[length + 1] = v
  <2>1. 1 \in 1 .. length + 1 /\ length + 1 \in 1 .. length + 1
        /\ length + 1 - 1 = length /\ length + 1 - (length + 1) = 0
    BY <1>4
  <2> QED  BY <1>4, <1>6, <1>10, <2>1
<1>14. \A i \in 1 .. length : c[i] = pred[c[i + 1]]
  <2> SUFFICES ASSUME NEW i \in 1 .. length PROVE c[i] = pred[c[i + 1]]
    OBVIOUS
  <2>1. /\ i \in 1 .. length + 1 /\ i + 1 \in 1 .. length + 1 /\ length - i \in 0 .. length - 1
        /\ length + 1 - (i + 1) = length - i /\ length + 1 - i = (length - i) + 1
    BY <1>4
  <2> QED  BY <1>9, <1>10, <2>1
<1>15. ASSUME NEW a \in 1 .. length, NEW b \in 1 .. length, a < b, B(a) = B(b) PROVE FALSE
  <2>1. /\ a \in Nat /\ b \in Nat /\ length - b \in Nat /\ b + (length - b) = length
        /\ a + (length - b) \in 1 .. n /\ a + (length - b) < length
    BY <1>4, <1>15
  <2>2. B(a + (length - b)) = B(b + (length - b))
    BY <1>7, <1>15, <2>1
  <2>3. B(a + (length - b)) = v
    BY <1>4, <2>1, <2>2
  <2>4. length <= a + (length - b)
    BY <1>4, <2>1, <2>3
  <2> QED  BY <1>4, <2>1, <2>4
<1>16. \A i, j \in 1 .. length : c[i] = c[j] => i = j
  <2> SUFFICES ASSUME NEW i \in 1 .. length, NEW j \in 1 .. length, c[i] = c[j], i # j PROVE FALSE
    OBVIOUS
  <2>1. /\ i \in 1 .. length + 1 /\ j \in 1 .. length + 1
        /\ length + 1 - i \in 1 .. length /\ length + 1 - j \in 1 .. length
        /\ (length + 1 - i < length + 1 - j \/ length + 1 - j < length + 1 - i)
    BY <1>4
  <2>2. B(length + 1 - i) = B(length + 1 - j)
    BY <1>10, <2>1
  <2> QED  BY <1>15, <2>1, <2>2
<1>17. Len(c) >= 2 /\ Len(c) - 1 = length
  BY <1>4, <1>10
<1> QED  BY <1>10, <1>12, <1>13, <1>14, <1>16, <1>17 DEF PredCycle, Simple

LEMMA LoopIsNone ==
  ASSUME NEW pred, NEW v, NEW n, \A r \in 1 .. n : Back(pred, v, r) # v
  PROVE  Loop(pred, v, n) = <<>>
BY DEF Loop

\* What is extracted is a cycle of predecessors.
LEMMA ExtractTurns ==
  ASSUME NEW N, NEW pred, Predecessors(N, pred), NEW v \in N, NEW n \in Nat,
         NEW c, c = ExtractCycle(pred, v, n), c # <<>>
  PROVE  PredCycle(c, pred) /\ Simple(c)
<1> DEFINE x == Back(pred, v, n)
<1>1. x # <<>> /\ c = Loop(pred, x, n)
  BY DEF ExtractCycle
<1>2. x \in N
  BY <1>1, BackSteps
<1> HIDE DEF x
<1>3. PICK r \in 1 .. n : Back(pred, x, r) = x
  BY <1>1, LoopIsNone
<1> QED  BY <1>1, <1>2, <1>3, LoopTurns

\* More numbers than members: two of them meet.
LEMMA TwoMeet ==
  ASSUME NEW N, IsFiniteSet(N), NEW n \in Nat, Cardinality(N) < n, NEW f \in [1 .. n -> N]
  PROVE  \E i, j \in 1 .. n : i < j /\ f[i] = f[j]
<1>1. Cardinality(N) \in Nat /\ 1 \in Int /\ n \in Int
  BY FS_CardinalityType
<1>2. IsFiniteSet(1 .. n) /\ Cardinality(1 .. n) = IF 1 > n THEN 0 ELSE n - 1 + 1
  BY <1>1, FS_Interval
<1>3. Cardinality(N) < Cardinality(1 .. n)
  BY <1>1, <1>2
<1> DEFINE S == 1 .. n
<1>4. IsFiniteSet(S) /\ Cardinality(N) < Cardinality(S) /\ f \in [S -> N]
  BY <1>2, <1>3
<1> HIDE DEF S
<1>5. \E x, y \in S : x # y /\ f[x] = f[y]
  BY <1>4, FS_PigeonHole
<1>6. PICK x, y \in 1 .. n : x # y /\ f[x] = f[y]
  BY <1>5 DEF S
<1>7. x < y \/ y < x
  BY <1>6
<1> QED  BY <1>6, <1>7

\* If no walk back ends, there is a cycle of predecessors n steps back, and one
\* finds it.
LEMMA ExtractFinds ==
  ASSUME NEW N, IsFiniteSet(N), NEW pred, Predecessors(N, pred), NEW v \in DOMAIN pred,
         \A x \in DOMAIN pred : pred[x] \in DOMAIN pred, NEW n, n = Cardinality(N),
         NEW c, c = ExtractCycle(pred, v, n)
  PROVE  PredCycle(c, pred) /\ Simple(c)
<1> DEFINE B(i) == Back(pred, v, i)
<1>1. n \in Nat /\ v \in N /\ v \in N \cup {<<>>} /\ <<>> \notin N
  <2>1. v \in N /\ <<>> \notin N
    BY BeforeTypes DEF Predecessors
  <2> QED  BY <2>1, FS_CardinalityType
<1>2. B(0) = v /\ \A i \in Nat : B(i) \in N \cup {<<>>} /\ B(i + 1) = Before(pred, B(i))
  BY <1>1, BackSteps
<1>3. \A i, k \in Nat : B(i + k) = Back(pred, B(i), k)
  BY <1>1, BackAdds
<1> HIDE DEF B
<1>4. \A i \in 0 .. n : B(i) \in DOMAIN pred
  <2> DEFINE S == {i \in 0 .. n : B(i) \in DOMAIN pred}
  <2>1. 0 \in S
    BY <1>1, <1>2
  <2>2. ASSUME NEW i \in 0 .. n - 1, i \in S PROVE i + 1 \in S
    <3>1. i \in Nat /\ i + 1 \in 0 .. n /\ B(i) \in DOMAIN pred
      BY <1>1, <2>2
    <3>2. B(i + 1) = pred[B(i)]
      BY <1>2, <3>1, BeforeTypes
    <3> QED  BY <3>1, <3>2
  <2> HIDE DEF S
  <2>3. \A i \in 0 .. n : i \in S
    <3>1. 0 \in Nat /\ n \in Int
      BY <1>1
    <3> QED  BY <2>1, <2>2, <3>1, UpTo
  <2> QED  BY <2>3 DEF S
<1>5. PICK a, b \in 0 .. n : a < b /\ B(a) = B(b)
  <2> DEFINE f == [i \in 1 .. n + 1 |-> B(i - 1)]
  <2>1. f \in [1 .. n + 1 -> N]
    <3>1. \A i \in 1 .. n + 1 : i - 1 \in 0 .. n
      BY <1>1
    <3> QED  BY <1>4, <3>1, BeforeTypes
  <2>2. n + 1 \in Nat /\ Cardinality(N) < n + 1
    BY <1>1
  <2> HIDE DEF f
  <2>3. PICK i, j \in 1 .. n + 1 : i < j /\ f[i] = f[j]
    BY <2>1, <2>2, TwoMeet
  <2>4. i - 1 \in 0 .. n /\ j - 1 \in 0 .. n /\ i - 1 < j - 1
    BY <1>1, <2>3
  <2> QED  BY <2>3, <2>4 DEF f
<1> DEFINE x == B(n)
<1>6. Back(pred, x, b - a) = x
  <2>1. /\ n \in Nat /\ a \in Nat /\ b \in Nat /\ b - a \in Nat /\ n - a \in Nat
        /\ n + (b - a) = b + (n - a) /\ a + (n - a) = n
    BY <1>1, <1>5
  <2>2. B(n + (b - a)) = Back(pred, B(n), b - a)
    BY <1>3, <2>1
  <2>3. B(b + (n - a)) = Back(pred, B(b), n - a)
    BY <1>3, <2>1
  <2>4. B(a + (n - a)) = Back(pred, B(a), n - a)
    BY <1>3, <2>1
  <2> QED  BY <1>5, <2>1, <2>2, <2>3, <2>4
<1>7. x \in N /\ x # <<>>
  <2>1. n \in 0 .. n
    BY <1>1
  <2> QED  BY <1>1, <1>4, <2>1, BeforeTypes
<1>8. c = Loop(pred, x, n)
  BY <1>7 DEF ExtractCycle, B
<1>9. b - a \in 1 .. n
  BY <1>1, <1>5
<1> HIDE DEF x
<1> QED  BY <1>1, <1>6, <1>7, <1>8, <1>9, LoopTurns

LEMMA TreeIsGrown ==
  ASSUME NEW bids, Rated(bids), NEW rows, Listing(bids, rows), NEW s \in NodesOf(bids)
  PROVE  Tree(bids, rows, s) \in Grown(bids, s)
<1> DEFINE n == Cardinality(NodesOf(bids))
<1>1. PICK f : TreeRun(bids, rows, s, f)
  BY TreeRuns
<1>2. n \in Nat \ {0}
  BY FS_CardinalityType, FS_EmptySet DEF Rated
<1>3. n - 1 \in 0 .. n - 1
  BY <1>2
<1> QED  BY <1>1, <1>3 DEF TreeRun

-----------------------------------------------------------------------------
(* The search from one source.                                             *)

\* A closed path along edges.
ClosedPath(bids, c) ==
  /\ c \in Seq(NodesOf(bids)) /\ Len(c) >= 3 /\ c[1] = c[Len(c)]
  /\ \A i \in 1 .. Len(c) - 1 : <<c[i], c[i + 1]>> \in DOMAIN bids

Lucrative(bids, c) == ClosedPath(bids, c) /\ Simple(c) /\ CycleProfit(c, bids) > 0

\* A cycle of predecessors is a circuit with a gain.
LEMMA TurnsAreLucrative ==
  ASSUME NEW bids, Rated(bids), NEW s, NEW t \in Grown(bids, s),
         NEW c, PredCycle(c, t.pred), Simple(c)
  PROVE  Lucrative(bids, c)
<1>1. /\ c \in Seq(DOMAIN t.pred) /\ Len(c) >= 2 /\ c[1] = c[Len(c)]
      /\ \A i \in 1 .. Len(c) - 1 : c[i] = t.pred[c[i + 1]]
  BY DEF PredCycle
<1>2. t \in Trees(bids) /\ Explained(bids, t) /\ CyclesGain(bids, t)
  BY DEF Grown
<1>3. Len(c) \in Nat /\ \A i \in 1 .. Len(c) : c[i] \in DOMAIN t.pred
  BY <1>1
<1>4. c \in Seq(NodesOf(bids))
  BY <1>1, <1>2, TreeTypes
<1>5. \A i \in 1 .. Len(c) - 1 : <<c[i], c[i + 1]>> \in DOMAIN bids
  <2> SUFFICES ASSUME NEW i \in 1 .. Len(c) - 1 PROVE <<c[i], c[i + 1]>> \in DOMAIN bids
    OBVIOUS
  <2>1. i + 1 \in 1 .. Len(c)
    BY <1>3
  <2> QED  BY <1>1, <1>2, <1>3, <2>1 DEF Explained
<1>6. Len(c) # 2
  <2> SUFFICES ASSUME Len(c) = 2 PROVE FALSE
    OBVIOUS
  <2>1. 1 \in 1 .. Len(c) - 1 /\ <<c[1], c[1 + 1]>> \in DOMAIN bids /\ c[1] = c[1 + 1]
    BY <1>1, <1>5
  <2>2. <<c[1], c[1 + 1]>>[1] # <<c[1], c[1 + 1]>>[2]
    BY <2>1, EdgeTypes
  <2> QED  BY <2>1, <2>2
<1>7. Len(c) >= 3
  <2>1. Len(c) \in Nat /\ Len(c) >= 2 /\ Len(c) # 2
    BY <1>1, <1>3, <1>6
  <2>2. \A l \in Nat : l >= 2 /\ l # 2 => l >= 3
    OBVIOUS
  <2> QED  BY <2>1, <2>2
<1>8. CycleProfit(c, bids) > 0
  BY <1>2 DEF CyclesGain
<1> QED  BY <1>1, <1>4, <1>5, <1>7, <1>8 DEF Lucrative, ClosedPath

LEMMA GrownPredecessors ==
  ASSUME NEW bids, Rated(bids), NEW s, NEW t \in Grown(bids, s)
  PROVE  Predecessors(NodesOf(bids), t.pred)
<1>1. t.pred \in PartialFns(NodesOf(bids), NodesOf(bids))
  BY DEF Grown, Trees
<1> QED  BY <1>1 DEF Predecessors, Rated

\* The cycle the search comes to over the i-th row, in the tree t.
CycleAt(bids, rows, t, i) ==
  ExtractCycle(t.pred, rows[i][2], Cardinality(NodesOf(bids)))

Hits(bids, rows, t) ==
  {i \in 1 .. Len(rows) : Shorter(bids, t, rows[i]) /\ Len(CycleAt(bids, rows, t, i)) >= 3}

LEMMA CycleFromHits ==
  ASSUME NEW bids, NEW rows, NEW s, NEW t, t = Tree(bids, rows, s)
  PROVE  /\ Hits(bids, rows, t) = {} => CycleFrom(bids, rows, s) = <<>>
         /\ Hits(bids, rows, t) # {} =>
              \E i \in Hits(bids, rows, t) : CycleFrom(bids, rows, s) = CycleAt(bids, rows, t, i)
<1> DEFINE H == Hits(bids, rows, t)
<1>1. CycleFrom(bids, rows, s) =
        IF H = {} THEN <<>>
        ELSE CycleAt(bids, rows, t, CHOOSE i \in H : \A j \in H : i <= j)
  BY DEF CycleFrom, Hits, CycleAt
<1>2. H \subseteq Nat
  BY DEF Hits
<1> HIDE DEF H
<1>3. H # {} => \E i \in H : \A j \in H : i <= j
  BY <1>2, LeastMember
<1>4. H # {} => (CHOOSE i \in H : \A j \in H : i <= j) \in H
  BY <1>3
<1> QED  BY <1>1, <1>4 DEF H

\* What is found from a source is a circuit with a gain.
LEMMA CycleFromGains ==
  ASSUME NEW bids, Rated(bids), NEW rows, Listing(bids, rows), NEW s \in NodesOf(bids),
         CycleFrom(bids, rows, s) # <<>>
  PROVE  Lucrative(bids, CycleFrom(bids, rows, s))
<1> DEFINE t == Tree(bids, rows, s)
<1>1. t \in Grown(bids, s)
  BY TreeIsGrown
<1> HIDE DEF t
<1>2. PICK i \in Hits(bids, rows, t) : CycleFrom(bids, rows, s) = CycleAt(bids, rows, t, i)
  BY CycleFromHits DEF t
<1>3. i \in 1 .. Len(rows) /\ Cardinality(NodesOf(bids)) \in Nat
  BY <1>2, FS_CardinalityType DEF Hits, Rated
<1>4. rows[i][2] \in NodesOf(bids)
  BY <1>3, EdgeTypes DEF Listing
<1> DEFINE c == CycleAt(bids, rows, t, i)
           n == Cardinality(NodesOf(bids))
<1>5. c = ExtractCycle(t.pred, rows[i][2], n) /\ c # <<>>
  BY <1>2 DEF CycleAt
<1>6. Predecessors(NodesOf(bids), t.pred)
  BY <1>1, GrownPredecessors
<1> HIDE DEF c, n
<1>7. n \in Nat
  BY <1>3 DEF n
<1>8. PredCycle(c, t.pred) /\ Simple(c)
  BY <1>4, <1>5, <1>6, <1>7, ExtractTurns
<1>9. Lucrative(bids, c)
  BY <1>1, <1>8, TurnsAreLucrative
<1> QED  BY <1>2, <1>9 DEF c

\* Once the source has come closer to itself, every node that is reached has a
\* predecessor, and an edge that can still be relaxed shows a cycle.
LEMMA CycleFromFinds ==
  ASSUME NEW bids, Rated(bids), NEW rows, Listing(bids, rows), NEW s \in NodesOf(bids),
         NEW t, t = Tree(bids, rows, s), t.dist[s] < 0,
         NEW e \in DOMAIN bids, Shorter(bids, t, e), e[2] \in DOMAIN t.dist
  PROVE  CycleFrom(bids, rows, s) # <<>>
<1>1. t \in Grown(bids, s)
  BY TreeIsGrown
<1>2. Rooted(s, t) /\ Explained(bids, t)
  BY <1>1 DEF Grown
<1>3. DOMAIN t.pred = DOMAIN t.dist
  <2>1. s \in DOMAIN t.pred
    BY <1>2 DEF Rooted
  <2> QED  BY <1>2, <2>1 DEF Rooted
<1>4. \A x \in DOMAIN t.pred : t.pred[x] \in DOMAIN t.pred
  BY <1>2, <1>3 DEF Explained
<1>5. PICK i \in 1 .. Len(rows) : rows[i] = e
  BY DEF Listing
<1> DEFINE c == CycleAt(bids, rows, t, i)
           n == Cardinality(NodesOf(bids))
<1>6. c = ExtractCycle(t.pred, e[2], n) /\ n = Cardinality(NodesOf(bids))
  BY <1>5 DEF CycleAt
<1>7. Predecessors(NodesOf(bids), t.pred) /\ IsFiniteSet(NodesOf(bids))
  BY <1>1, GrownPredecessors DEF Rated
<1> HIDE DEF c, n
<1>8. PredCycle(c, t.pred) /\ Simple(c)
  BY <1>3, <1>4, <1>6, <1>7, ExtractFinds
<1>9. Lucrative(bids, c)
  BY <1>1, <1>8, TurnsAreLucrative
<1>10. Len(c) >= 3
  BY <1>9 DEF Lucrative, ClosedPath
<1>11. i \in Hits(bids, rows, t)
  BY <1>5, <1>10 DEF Hits, c
<1>12. PICK j \in Hits(bids, rows, t) : CycleFrom(bids, rows, s) = CycleAt(bids, rows, t, j)
  BY <1>11, CycleFromHits
<1>13. Len(CycleAt(bids, rows, t, j)) >= 3
  BY <1>12 DEF Hits
<1>14. Len(<<>>) = 0
  OBVIOUS
<1> QED  BY <1>12, <1>13, <1>14

-----------------------------------------------------------------------------
(* The search from a source of a circuit with a gain.                      *)

\* The i-th node of c is reached, at no more than minus what c has gained there.
Near(t, c, sum, i) == c[i] \in DOMAIN t.dist /\ t.dist[c[i]] <= -sum[i]

LEMMA TreeRunCloser ==
  ASSUME NEW bids, Rated(bids), NEW rows, Listing(bids, rows), NEW s, NEW f,
         TreeRun(bids, rows, s, f),
         NEW n \in Nat, n = Cardinality(NodesOf(bids)), NEW i \in 0 .. n - 1
  PROVE  Closer(f[i], f[n - 1])
<1> DEFINE S == {k \in i .. n - 1 : Closer(f[i], f[k])}
<1>1. /\ \A k \in 0 .. n - 1 : f[k] \in Grown(bids, s) /\ f[k] \in Trees(bids)
      /\ \A k \in 1 .. n - 1 : f[k] = Pass(bids, rows, f[k - 1])
  BY DEF TreeRun, Grown
<1>2. i \in Nat /\ i \in 0 .. n - 1 /\ n - 1 \in Int
  OBVIOUS
<1>3. i \in S
  <2>1. \A v \in DOMAIN f[i].dist : f[i].dist[v] \in Int
    BY <1>1, TreeTypes
  <2> QED  BY <1>2, <2>1 DEF Closer
<1>4. ASSUME NEW k \in i .. n - 1 - 1, k \in S PROVE k + 1 \in S
  <2>1. k \in 0 .. n - 1 /\ k + 1 \in 1 .. n - 1 /\ k + 1 \in i .. n - 1 /\ (k + 1) - 1 = k
        /\ k + 1 \in 0 .. n - 1
    BY <1>2
  <2>2. Closer(f[k], f[k + 1])
    BY <1>1, <2>1, PassReaches
  <2>3. Closer(f[i], f[k])
    BY <1>4
  <2>4. f[i] \in Trees(bids) /\ f[k] \in Trees(bids) /\ f[k + 1] \in Trees(bids)
    BY <1>1, <1>2, <2>1
  <2>5. Closer(f[i], f[k + 1])
    BY <2>2, <2>3, <2>4, CloserTransitive
  <2> QED  BY <2>1, <2>5
<1> HIDE DEF S
<1>5. n - 1 \in S
  <2>1. n - 1 \in i .. n - 1
    BY <1>2
  <2> QED  BY <1>2, <1>3, <1>4, <2>1, UpTo
<1> QED  BY <1>5 DEF S

\* An edge of c that is followed brings the next node near.
LEMMA NextIsNear ==
  ASSUME NEW bids, Rated(bids), NEW c, ClosedPath(bids, c), NEW sum, SumsUp(sum, bids, c),
         NEW t \in Trees(bids), NEW u \in Trees(bids), NEW i \in 1 .. Len(c) - 1,
         Follows(bids, <<c[i], c[i + 1]>>, t, u), Near(t, c, sum, i)
  PROVE  Near(u, c, sum, i + 1)
<1> DEFINE e == <<c[i], c[i + 1]>>
<1>1. e \in DOMAIN bids /\ e[1] = c[i] /\ e[2] = c[i + 1]
  BY DEF ClosedPath
<1>2. e[1] \in DOMAIN t.dist /\ t.dist[e[1]] <= -sum[i]
  BY <1>1 DEF Near
<1>3. e[2] \in DOMAIN u.dist /\ u.dist[e[2]] <= t.dist[e[1]] - bids[e]
  BY <1>1, <1>2 DEF Follows
<1>4. sum[i + 1] = sum[i] + bids[e]
  BY DEF SumsUp, Gain
<1>5. i \in 1 .. Len(c) /\ i + 1 \in 1 .. Len(c)
  BY DEF ClosedPath
<1>6. sum[i] \in Int /\ sum[i + 1] \in Int
  BY <1>5 DEF SumsUp
<1>7. bids[e] \in Int /\ t.dist[e[1]] \in Int /\ u.dist[e[2]] \in Int
  BY <1>1, <1>2, <1>3, EdgeTypes, TreeTypes
<1> HIDE DEF e
<1>8. \A a, b, d, g, h \in Int : (a <= -g /\ b <= a - d /\ h = g + d) => b <= -h
  OBVIOUS
<1>9. u.dist[e[2]] <= -sum[i + 1]
  BY <1>2, <1>3, <1>4, <1>6, <1>7, <1>8, SMTT(20)
<1> QED  BY <1>1, <1>3, <1>9 DEF Near

\* A pass for each edge of c that is left.
LEMMA Arrives ==
  ASSUME NEW bids, Rated(bids), NEW rows, Listing(bids, rows), NEW s, NEW f,
         TreeRun(bids, rows, s, f),
         NEW c, ClosedPath(bids, c), NEW sum, SumsUp(sum, bids, c),
         NEW n \in Nat, n = Cardinality(NodesOf(bids)),
         NEW k \in 0 .. n - 1, NEW i \in 1 .. Len(c), Near(f[k], c, sum, i),
         NEW j \in i .. Len(c), j - i <= n - 1 - k
  PROVE  Near(f[n - 1], c, sum, j)
<1> DEFINE S == {d \in 0 .. j - i : Near(f[k + d], c, sum, i + d)}
<1>1. /\ \A m \in 0 .. n - 1 : f[m] \in Grown(bids, s) /\ f[m] \in Trees(bids)
      /\ \A m \in 1 .. n - 1 : f[m] = Pass(bids, rows, f[m - 1])
  BY DEF TreeRun, Grown
<1>a. Len(c) \in Nat
  BY DEF ClosedPath
<1>b. PICK q \in Nat : q = Len(c)
  BY <1>a
<1>c. i \in 1 .. q /\ j \in i .. q
  BY <1>b
<1>2. /\ k \in Nat /\ i \in Nat /\ j \in Nat /\ j - i \in Nat /\ k + 0 = k /\ i + 0 = i
      /\ i + (j - i) = j /\ k + (j - i) \in 0 .. n - 1 /\ Len(c) \in Nat
  BY <1>a, <1>c
<1>3. 0 \in S
  BY <1>2
<1>4. ASSUME NEW d \in 0 .. j - i - 1, d \in S PROVE d + 1 \in S
  <2>1. /\ k + d \in 0 .. n - 1 /\ k + (d + 1) \in 1 .. n - 1 /\ k + (d + 1) \in 0 .. n - 1
        /\ (k + (d + 1)) - 1 = k + d
        /\ i + d \in 1 .. Len(c) - 1 /\ i + (d + 1) = (i + d) + 1 /\ d + 1 \in 0 .. j - i
    BY <1>2
  <2> DEFINE t == f[k + d]
             u == f[k + (d + 1)]
             p == i + d
  <2>2. t \in Grown(bids, s) /\ t \in Trees(bids) /\ u \in Trees(bids) /\ u = Pass(bids, rows, t)
    BY <1>1, <2>1
  <2>3. p \in 1 .. Len(c) - 1 /\ Near(t, c, sum, p)
    BY <1>4, <2>1
  <2>4. Near(u, c, sum, p + 1)
    <3> HIDE DEF t, u, p
    <3>1. <<c[p], c[p + 1]>> \in DOMAIN bids
      BY <2>3 DEF ClosedPath
    <3>2. Follows(bids, <<c[p], c[p + 1]>>, t, u)
      BY <2>2, <3>1, PassReaches
    <3> QED  BY <2>2, <2>3, <3>2, NextIsNear
  <2> QED  BY <2>1, <2>4
<1> HIDE DEF S
<1>5. j - i \in S
  <2>1. 0 \in Nat /\ j - i \in Int /\ j - i \in 0 .. j - i
    BY <1>2
  <2> QED  BY <1>3, <1>4, <2>1, UpTo
<1> DEFINE l == k + (j - i)
<1>6. Near(f[l], c, sum, j) /\ l \in 0 .. n - 1 /\ n - 1 \in 0 .. n - 1
  BY <1>2, <1>5 DEF S
<1> HIDE DEF l
<1>7. Closer(f[l], f[n - 1])
  BY <1>6, TreeRunCloser
<1>8. /\ c[j] \in DOMAIN f[l].dist /\ f[l].dist[c[j]] <= -sum[j]
      /\ c[j] \in DOMAIN f[n - 1].dist /\ f[n - 1].dist[c[j]] <= f[l].dist[c[j]]
  BY <1>6, <1>7 DEF Near, Closer
<1>9. f[l].dist[c[j]] \in Int /\ f[n - 1].dist[c[j]] \in Int /\ sum[j] \in Int
  <2>1. j \in 1 .. Len(c)
    BY <1>2
  <2>2. sum[j] \in Int
    BY <2>1 DEF SumsUp
  <2>3. f[l] \in Trees(bids) /\ f[n - 1] \in Trees(bids)
    BY <1>1, <1>6
  <2> QED  BY <1>8, <2>2, <2>3, TreeTypes
<1>10. \A x, y, z \in Int : x <= y /\ y <= -z => x <= -z
  OBVIOUS
<1> QED  BY <1>8, <1>9, <1>10 DEF Near

\* The two first edges of c, in the order of the rows.
Ascends(rows, c) ==
  \E i, j \in 1 .. Len(rows) : i < j /\ rows[i] = <<c[1], c[2]>> /\ rows[j] = <<c[2], c[3]>>

LEMMA StartIsNear ==
  ASSUME NEW bids, NEW rows, NEW c, ClosedPath(bids, c), NEW sum, SumsUp(sum, bids, c),
         NEW f, TreeRun(bids, rows, c[1], f)
  PROVE  Near(f[0], c, sum, 1)
<1>1. f[0].dist = [v \in {c[1]} |-> 0]
  BY DEF TreeRun, Start
<1>2. c[1] \in DOMAIN f[0].dist /\ f[0].dist[c[1]] = 0
  BY <1>1
<1>3. sum[1] = 0
  BY DEF SumsUp
<1>4. 0 <= -0
  OBVIOUS
<1> QED  BY <1>2, <1>3, <1>4 DEF Near

\* A circuit of as many edges as there are nodes needs the first pass to follow
\* two of them.
LEMMA EndIsNear ==
  ASSUME NEW bids, Rated(bids), NEW rows, Listing(bids, rows),
         NEW c, ClosedPath(bids, c), NEW sum, SumsUp(sum, bids, c),
         NEW f, TreeRun(bids, rows, c[1], f),
         NEW n \in Nat, n = Cardinality(NodesOf(bids)),
         Len(c) <= n \/ (Len(c) = n + 1 /\ Ascends(rows, c))
  PROVE  Near(f[n - 1], c, sum, Len(c))
<1>1. Len(c) \in Nat /\ Len(c) >= 3 /\ Near(f[0], c, sum, 1)
  <2>1. Near(f[0], c, sum, 1)
    BY StartIsNear
  <2> QED  BY <2>1 DEF ClosedPath
<1>2. CASE Len(c) <= n
  <2>1. /\ 0 \in 0 .. n - 1 /\ 1 \in 1 .. Len(c) /\ Len(c) \in 1 .. Len(c)
        /\ Len(c) - 1 <= n - 1 - 0
    BY <1>1, <1>2
  <2> QED  BY <1>1, <2>1, Arrives
<1>3. CASE Len(c) = n + 1 /\ Ascends(rows, c)
  <2>1. /\ 1 \in 0 .. n - 1 /\ 0 \in 0 .. n - 1 /\ 1 \in 1 .. n - 1 /\ 3 \in 1 .. Len(c)
        /\ Len(c) \in 3 .. Len(c) /\ Len(c) - 3 <= n - 1 - 1
        /\ 1 \in 1 .. Len(c) - 1 /\ 2 \in 1 .. Len(c) - 1 /\ 1 + 1 = 2 /\ 2 + 1 = 3 /\ 1 - 1 = 0
    BY <1>1, <1>3
  <2>2. /\ f[0] \in Grown(bids, c[1]) /\ f[0] \in Trees(bids) /\ f[1] \in Trees(bids)
        /\ f[1] = Pass(bids, rows, f[0])
    BY <2>1 DEF TreeRun, Grown
  <2>3. PICK i, j \in 1 .. Len(rows) : i < j /\ rows[i] = <<c[1], c[2]>> /\ rows[j] = <<c[2], c[3]>>
    BY <1>3 DEF Ascends
  <2>4. PICK q \in Trees(bids) : Follows(bids, rows[i], f[0], q) /\ Follows(bids, rows[j], q, f[1])
    BY <2>2, <2>3, PassReaches
  <2>5. Near(q, c, sum, 1 + 1)
    <3>1. Follows(bids, <<c[1], c[1 + 1]>>, f[0], q)
      BY <2>1, <2>3, <2>4
    <3> QED  BY <1>1, <2>1, <2>2, <3>1, NextIsNear
  <2>6. Near(f[1], c, sum, 2 + 1)
    <3>1. Follows(bids, <<c[2], c[2 + 1]>>, q, f[1]) /\ Near(q, c, sum, 2)
      BY <2>1, <2>3, <2>4, <2>5
    <3> QED  BY <2>1, <2>2, <3>1, NextIsNear
  <2>7. Near(f[1], c, sum, 3)
    BY <2>1, <2>6
  <2> QED  BY <2>1, <2>7, Arrives
<1> QED  BY <1>2, <1>3

\* The search from the first node of such a circuit finds a cycle.
LEMMA SourceFinds ==
  ASSUME NEW bids, Rated(bids), NEW rows, Listing(bids, rows),
         NEW c, ClosedPath(bids, c), CycleProfit(c, bids) > 0,
         NEW n \in Nat, n = Cardinality(NodesOf(bids)),
         Len(c) <= n \/ (Len(c) = n + 1 /\ Ascends(rows, c))
  PROVE  CycleFrom(bids, rows, c[1]) # <<>>
<1>1. /\ Len(c) \in Nat \ {0} /\ Len(c) \in Nat /\ Len(c) >= 3 /\ c[1] = c[Len(c)]
      /\ \A i \in 1 .. Len(c) : c[i] \in NodesOf(bids)
      /\ \A i \in 1 .. Len(c) - 1 : <<c[i], c[i + 1]>> \in DOMAIN bids
  BY DEF ClosedPath
<1>2. GainsOf(bids, c)
  BY <1>1, EdgeTypes DEF GainsOf, Gain
<1>3. PICK sum : SumsUp(sum, bids, c)
  BY <1>1, <1>2, ProfitSums
<1>4. c[1] \in NodesOf(bids)
  BY <1>1
<1>5. PICK f : TreeRun(bids, rows, c[1], f)
  BY <1>4, TreeRuns
<1> DEFINE t == Tree(bids, rows, c[1])
<1>6. t = f[n - 1]
  BY <1>5 DEF TreeRun
<1>7. t \in Grown(bids, c[1]) /\ t \in Trees(bids)
  BY <1>4, TreeIsGrown DEF Grown
<1> HIDE DEF t
<1>8. Near(t, c, sum, Len(c))
  BY <1>3, <1>5, <1>6, EndIsNear
<1>9. \A i \in 1 .. Len(c) : c[i] \in DOMAIN t.dist /\ t.dist[c[i]] \in Int
  <2> SUFFICES ASSUME NEW i \in 1 .. Len(c) PROVE c[i] \in DOMAIN t.dist
    BY <1>7, TreeTypes
  <2>1. CASE i = Len(c)
    BY <1>8, <2>1 DEF Near
  <2>2. CASE i # Len(c)
    <3>1. 0 \in 0 .. n - 1 /\ 1 \in 1 .. Len(c) /\ i \in 1 .. Len(c) /\ i - 1 <= n - 1 - 0
      BY <1>1, <2>2
    <3>2. Near(f[0], c, sum, 1)
      BY <1>3, <1>5, StartIsNear
    <3>3. Near(t, c, sum, i)
      BY <1>3, <1>5, <1>6, <3>1, <3>2, Arrives
    <3> QED  BY <3>3 DEF Near
  <2> QED  BY <2>1, <2>2
<1>10. t.dist[c[1]] < 0
  <2>1. t.dist[c[1]] <= -CycleProfit(c, bids)
    BY <1>1, <1>3, <1>8 DEF Near, SumsUp
  <2>2. CycleProfit(c, bids) \in Int /\ 1 \in 1 .. Len(c)
    BY <1>1, <1>3 DEF SumsUp
  <2>3. \A x, y \in Int : x <= -y /\ y > 0 => x < 0
    OBVIOUS
  <2> QED  BY <1>9, <2>1, <2>2, <2>3
<1>11. \E i \in 1 .. Len(c) - 1 : Shorter(bids, t, <<c[i], c[i + 1]>>)
  <2> SUFFICES ASSUME \A i \in 1 .. Len(c) - 1 : ~Shorter(bids, t, <<c[i], c[i + 1]>>)
               PROVE  FALSE
    OBVIOUS
  <2> DEFINE w == [i \in 1 .. Len(c) |-> t.dist[c[i]]]
  <2>1. w \in [1 .. Len(c) -> Int]
    BY <1>9
  <2>2. ASSUME NEW i \in 1 .. Len(c) - 1 PROVE Gain(bids, c, i) <= w[i] - w[i + 1]
    <3>1. i \in 1 .. Len(c) /\ i + 1 \in 1 .. Len(c)
      BY <1>1
    <3> DEFINE e == <<c[i], c[i + 1]>>
    <3>2. e[1] = c[i] /\ e[2] = c[i + 1] /\ Gain(bids, c, i) = bids[e]
      BY DEF Gain
    <3>3. bids[e] \in Int
      BY <1>1, EdgeTypes
    <3>4. ~(t.dist[e[1]] - bids[e] < t.dist[e[2]])
      BY <1>9, <3>1, <3>2 DEF Shorter, Through
    <3>5. w[i] = t.dist[e[1]] /\ w[i + 1] = t.dist[e[2]] /\ w[i] \in Int /\ w[i + 1] \in Int
      BY <1>9, <3>1, <3>2
    <3> HIDE DEF e, w
    <3>6. \A x, y, z \in Int : ~(x - z < y) => z <= x - y
      OBVIOUS
    <3> QED  BY <3>2, <3>3, <3>4, <3>5, <3>6
  <2>3. w[1] = w[Len(c)] /\ w[1] \in Int
    <3>1. 1 \in 1 .. Len(c) /\ Len(c) \in 1 .. Len(c)
      BY <1>1
    <3> QED  BY <1>1, <1>9, <3>1
  <2> HIDE DEF w
  <2>4. CycleProfit(c, bids) <= w[1] - w[Len(c)]
    BY <1>1, <1>2, <2>1, <2>2, GainsAtMost
  <2>5. CycleProfit(c, bids) \in Int
    <3>1. Len(c) \in 1 .. Len(c)
      BY <1>1
    <3> QED  BY <1>3, <3>1 DEF SumsUp
  <2>6. \A x, y \in Int : x <= y - y => ~(x > 0)
    OBVIOUS
  <2> QED  BY <2>3, <2>4, <2>5, <2>6
<1>12. PICK i \in 1 .. Len(c) - 1 : Shorter(bids, t, <<c[i], c[i + 1]>>)
  BY <1>11
<1>13. i + 1 \in 1 .. Len(c) /\ <<c[i], c[i + 1]>> \in DOMAIN bids /\ <<c[i], c[i + 1]>>[2] = c[i + 1]
  BY <1>1
<1>14. <<c[i], c[i + 1]>>[2] \in DOMAIN t.dist
  BY <1>9, <1>13
<1> QED  BY <1>4, <1>10, <1>12, <1>13, <1>14, CycleFromFinds DEF t

-----------------------------------------------------------------------------
(* Some source is good enough.                                             *)

\* c, begun at its i-th node.
Turned(c, i) ==
  [j \in 1 .. Len(c) |-> IF i + j - 1 <= Len(c) - 1 THEN c[i + j - 1] ELSE c[i + j - Len(c)]]

\* Each edge of d is the edge of c that is i - 1 further on.
SameEdges(c, d, i) ==
  \A j \in 1 .. Len(c) - 1 : \E k \in 1 .. Len(c) - 1 :
    /\ d[j] = c[k] /\ d[j + 1] = c[k + 1]
    /\ i + j - 1 <= Len(c) - 1 => k = i + j - 1
    /\ i + j - 1 > Len(c) - 1 => k = i + j - Len(c)

LEMMA TurnedGains ==
  ASSUME NEW bids, Rated(bids), NEW c, ClosedPath(bids, c), NEW i \in 1 .. Len(c) - 1,
         NEW d, d = Turned(c, i)
  PROVE  /\ ClosedPath(bids, d) /\ Len(d) = Len(c) /\ d[1] = c[i]
         /\ CycleProfit(c, bids) <= CycleProfit(d, bids)
         /\ SameEdges(c, d, i)
<1> DEFINE m == Len(c) - 1
           at(j) == IF i + j - 1 <= m THEN i + j - 1 ELSE i + j - 1 - m
<1>1. /\ Len(c) \in Nat /\ Len(c) >= 3 /\ c[1] = c[m + 1] /\ m \in Nat /\ Len(c) = m + 1
      /\ \A j \in 1 .. m + 1 : c[j] \in NodesOf(bids)
      /\ \A j \in 1 .. m : <<c[j], c[j + 1]>> \in DOMAIN bids
  BY DEF ClosedPath
<1>a. i \in 1 .. m /\ i \in Int
  OBVIOUS
<1> HIDE DEF m
<1>2. /\ DOMAIN d = 1 .. m + 1 /\ Len(d) = m + 1 
      /\ \A j \in 1 .. m + 1 : d[j] = c[at(j)] /\ at(j) \in 1 .. m
  <2>1. d = [j \in 1 .. m + 1 |-> IF i + j - 1 <= m THEN c[i + j - 1] ELSE c[i + j - (m + 1)]]
    BY <1>1 DEF Turned, m
  <2>2. \A j \in 1 .. m + 1 : i + j - (m + 1) = i + j - 1 - m /\ at(j) \in 1 .. m
    BY <1>1, <1>a
  <2>3. DOMAIN d = 1 .. m + 1 /\ Len(d) = m + 1
    BY <1>1, <2>1
  <2>4. ASSUME NEW j \in 1 .. m + 1 PROVE d[j] = c[at(j)]
    BY <2>1, <2>2
  <2> QED  BY <2>2, <2>3, <2>4
<1>3. \A j \in 1 .. m : d[j + 1] = c[at(j) + 1] /\ at(j) \in 1 .. m
  <2> SUFFICES ASSUME NEW j \in 1 .. m PROVE d[j + 1] = c[at(j) + 1] /\ at(j) \in 1 .. m
    OBVIOUS
  <2>1. j + 1 \in 1 .. m + 1 /\ j \in 1 .. m + 1
    BY <1>1
  <2>2. d[j + 1] = c[at(j + 1)] /\ at(j) \in 1 .. m
    BY <1>2, <2>1
  <2>3. at(j + 1) = at(j) + 1 \/ (at(j + 1) = 1 /\ at(j) = m)
    BY <1>1, <2>1
  <2> HIDE DEF at
  <2> QED  BY <1>1, <2>2, <2>3
<1>4. \A j \in 1 .. m : \E k \in 1 .. m :
        d[j] = c[k] /\ d[j + 1] = c[k + 1] /\ (i + j - 1 <= m => k = i + j - 1)
          /\ (i + j - 1 > m => k = i + j - (m + 1))
  <2> SUFFICES ASSUME NEW j \in 1 .. m
               PROVE  /\ at(j) \in 1 .. m /\ d[j] = c[at(j)] /\ d[j + 1] = c[at(j) + 1]
                      /\ (i + j - 1 <= m => at(j) = i + j - 1)
                      /\ (i + j - 1 > m => at(j) = i + j - (m + 1))
    OBVIOUS
  <2>1. j \in 1 .. m + 1
    BY <1>1
  <2>2. (i + j - 1 <= m => at(j) = i + j - 1) /\ (i + j - 1 > m => at(j) = i + j - (m + 1))
    BY <1>1
  <2> HIDE DEF at
  <2> QED  BY <1>2, <1>3, <2>1, <2>2
<1>5. d[1] = c[i] /\ d[m + 1] = c[i]
  <2>1. 1 \in 1 .. m + 1 /\ m + 1 \in 1 .. m + 1 /\ at(1) = i /\ at(m + 1) = i
    BY <1>1, <1>a
  <2> HIDE DEF at
  <2> QED  BY <1>2, <2>1
<1>6. ClosedPath(bids, d)
  <2>1. \A j \in 1 .. m : <<d[j], d[j + 1]>> \in DOMAIN bids
    BY <1>1, <1>4
  <2>2. \A j \in 1 .. m + 1 : d[j] \in NodesOf(bids)
    <3>1. \A j \in 1 .. m : j \in 1 .. m + 1
      BY <1>1
    <3> HIDE DEF at
    <3> QED  BY <1>1, <1>2, <3>1
  <2>3. d \in Seq(NodesOf(bids))
    <3>1. d = [j \in 1 .. m + 1 |-> d[j]]
      BY <1>1 DEF Turned
    <3>2. d \in [1 .. m + 1 -> NodesOf(bids)]
      BY <2>2, <3>1
    <3> QED  BY <1>1, <3>2
  <2>4. Len(d) >= 3 /\ d[1] = d[Len(d)] /\ Len(d) - 1 = m
    BY <1>1, <1>2, <1>5
  <2> QED  BY <2>1, <2>3, <2>4 DEF ClosedPath
<1>7. GainsOf(bids, c) /\ GainsOf(bids, d)
  BY <1>6, EdgeTypes DEF GainsOf, Gain, ClosedPath
<1>8. PICK sum : SumsUp(sum, bids, c)
  BY <1>1, <1>7, ProfitSums
<1>9. /\ \A j \in 1 .. m + 1 : sum[j] \in Int
      /\ sum[1] = 0 /\ sum[m + 1] = CycleProfit(c, bids)
      /\ \A j \in 1 .. m : sum[j + 1] = sum[j] + Gain(bids, c, j)
  BY <1>1, <1>8 DEF SumsUp
<1> DEFINE w == [j \in 1 .. m + 1 |->
                   IF i + j - 1 <= m THEN -sum[i + j - 1] ELSE -(sum[i + j - 1 - m] + sum[m + 1])]
<1>10. \A j \in 1 .. m + 1 : /\ w[j] \in Int
                             /\ i + j - 1 <= m => w[j] = -sum[i + j - 1]
                             /\ i + j - 1 > m => w[j] = -(sum[i + j - 1 - m] + sum[m + 1])
  <2> SUFFICES ASSUME NEW j \in 1 .. m + 1
               PROVE  /\ w[j] \in Int
                      /\ i + j - 1 <= m => w[j] = -sum[i + j - 1]
                      /\ i + j - 1 > m => w[j] = -(sum[i + j - 1 - m] + sum[m + 1])
    OBVIOUS
  <2>1. /\ i + j - 1 <= m => i + j - 1 \in 1 .. m + 1
        /\ ~(i + j - 1 <= m) => i + j - 1 - m \in 1 .. m + 1
        /\ m + 1 \in 1 .. m + 1 /\ (i + j - 1 > m <=> ~(i + j - 1 <= m))
    BY <1>1, <1>a
  <2> QED  BY <1>9, <2>1
<1>11. ASSUME NEW j \in 1 .. m PROVE w[j] - w[j + 1] <= Gain(bids, d, j)
  <2>1. j \in 1 .. m + 1 /\ j + 1 \in 1 .. m + 1 /\ m + 1 \in 1 .. m + 1
    BY <1>1
  <2>2. PICK k \in 1 .. m :
          /\ d[j] = c[k] /\ d[j + 1] = c[k + 1]
          /\ (i + j - 1 <= m => k = i + j - 1) /\ (i + j - 1 > m => k = i + j - (m + 1))
    BY <1>4
  <2>3. Gain(bids, d, j) = Gain(bids, c, k)
    BY <2>2 DEF Gain
  <2>4. /\ sum[k + 1] = sum[k] + Gain(bids, c, k) /\ k \in 1 .. m + 1 /\ k + 1 \in 1 .. m + 1
        /\ sum[k] \in Int /\ sum[k + 1] \in Int /\ sum[m + 1] \in Int /\ Gain(bids, c, k) \in Int
    <3>1. k \in 1 .. m + 1 /\ k + 1 \in 1 .. m + 1
      BY <1>1
    <3>2. Gain(bids, c, k) \in Int
      BY <1>7 DEF GainsOf, m
    <3> QED  BY <1>9, <2>1, <3>1, <3>2
  <2> HIDE DEF w
  <2>5. CASE i + j - 1 <= m - 1
    <3>1. i + j - 1 <= m /\ i + (j + 1) - 1 <= m /\ k = i + j - 1 /\ k + 1 = i + (j + 1) - 1
      BY <1>1, <2>2, <2>5, <1>a
    <3>2. w[j] = -sum[k] /\ w[j + 1] = -sum[k + 1]
      BY <1>10, <2>1, <3>1
    <3> QED  BY <2>3, <2>4, <3>2, SMTT(20)
  <2>6. CASE i + j - 1 = m
    <3>1. i + j - 1 <= m /\ i + (j + 1) - 1 > m /\ k = i + j - 1 /\ k = m /\ i + (j + 1) - 1 - m = 1
      BY <1>1, <2>2, <2>6, <1>a
    <3>2. w[j] = -sum[m] /\ w[j + 1] = -(sum[1] + sum[m + 1])
      BY <1>10, <2>1, <3>1
    <3>3. sum[1] = 0 /\ sum[k] = sum[m] /\ sum[k + 1] = sum[m + 1]
      BY <1>9, <3>1
    <3>4. \A x, y, g \in Int : y = x + g => -x - (-(0 + y)) <= g
      OBVIOUS
    <3>5. -sum[k] - (-(0 + sum[k + 1])) <= Gain(bids, c, k)
      BY <2>4, <3>4
    <3> QED  BY <2>3, <3>2, <3>3, <3>5
  <2>7. CASE i + j - 1 > m
    <3>1. i + (j + 1) - 1 > m /\ k = i + j - 1 - m /\ k + 1 = i + (j + 1) - 1 - m
      BY <1>1, <2>2, <2>7, <1>a
    <3>2. w[j] = -(sum[k] + sum[m + 1]) /\ w[j + 1] = -(sum[k + 1] + sum[m + 1])
      BY <1>10, <2>1, <2>7, <3>1
    <3> QED  BY <2>3, <2>4, <3>2, SMTT(20)
  <2>8. i + j - 1 <= m - 1 \/ i + j - 1 = m \/ i + j - 1 > m
    BY <1>1, <1>a
  <2> QED  BY <2>5, <2>6, <2>7, <2>8
<1>12. w[1] = -sum[i] /\ w[m + 1] = -(sum[i] + sum[m + 1]) /\ sum[i] \in Int /\ sum[m + 1] \in Int
  <2>1. /\ 1 \in 1 .. m + 1 /\ m + 1 \in 1 .. m + 1 /\ i \in 1 .. m + 1
        /\ i + 1 - 1 <= m /\ i + 1 - 1 = i /\ i + (m + 1) - 1 > m /\ i + (m + 1) - 1 - m = i
    BY <1>1, <1>a
  <2> HIDE DEF w
  <2> QED  BY <1>9, <1>10, <2>1
<1>13. w \in [1 .. m + 1 -> Int]
  BY <1>10
<1> HIDE DEF w
<1>14. w[1] - w[Len(d)] <= CycleProfit(d, bids)
  <2>1. Len(d) \in Nat \ {0} /\ w \in [1 .. Len(d) -> Int] /\ 1 \in 1 .. Len(d)
        /\ \A j \in 1 .. Len(d) - 1 : w[j] - w[j + 1] <= Gain(bids, d, j)
    BY <1>1, <1>2, <1>11, <1>13
  <2> QED  BY <1>7, <2>1, GainsAtLeast
<1>15. w[1] - w[m + 1] = sum[m + 1]
  BY <1>12
<1>16. SameEdges(c, d, i)
  BY <1>1, <1>4, ZenonT(40) DEF SameEdges, m
<1> QED  BY <1>1, <1>2, <1>5, <1>6, <1>9, <1>14, <1>15, <1>16

LEMMA ShortEnough ==
  ASSUME NEW N, IsFiniteSet(N), NEW c \in Seq(N), Simple(c)
  PROVE  Len(c) <= Cardinality(N) + 1
<1> DEFINE m == Len(c) - 1
           f == [i \in 1 .. m |-> c[i]]
<1>1. Len(c) \in Nat /\ m \in Nat /\ Cardinality(N) \in Nat /\ \A i \in 1 .. m : c[i] \in N
  BY FS_CardinalityType DEF Simple
<1>2. \A i, j \in 1 .. m : c[i] = c[j] => i = j
  BY DEF Simple
<1> SUFFICES ASSUME Cardinality(N) < m PROVE FALSE
  BY <1>1
<1>3. f \in [1 .. m -> N]
  BY <1>1
<1> HIDE DEF m, f
<1>4. PICK i, j \in 1 .. m : i < j /\ f[i] = f[j]
  BY <1>1, <1>3, TwoMeet
<1>5. c[i] = c[j]
  BY <1>4 DEF f
<1> QED  BY <1>1, <1>2, <1>4, <1>5

LEMMA ProfitIsInt ==
  ASSUME NEW bids, Rated(bids), NEW c, ClosedPath(bids, c)
  PROVE  CycleProfit(c, bids) \in Int
<1>1. Len(c) \in Nat \ {0} /\ Len(c) \in 1 .. Len(c)
      /\ \A i \in 1 .. Len(c) - 1 : <<c[i], c[i + 1]>> \in DOMAIN bids
  BY DEF ClosedPath
<1>2. GainsOf(bids, c)
  BY <1>1, EdgeTypes DEF GainsOf, Gain
<1>3. PICK sum : SumsUp(sum, bids, c)
  BY <1>1, <1>2, ProfitSums
<1> QED  BY <1>1, <1>3 DEF SumsUp

\* If there is a circuit with a gain, one of the sources finds a cycle: the one
\* where the circuit's first edge in the order of the rows begins.
LEMMA SomeSourceFinds ==
  ASSUME NEW bids, Rated(bids), NEW rows, Listing(bids, rows), NEW c, Lucrative(bids, c)
  PROVE  \E s \in NodesOf(bids) : CycleFrom(bids, rows, s) # <<>>
<1> DEFINE n == Cardinality(NodesOf(bids))
<1>1. /\ ClosedPath(bids, c) /\ CycleProfit(c, bids) > 0
      /\ Len(c) \in Nat /\ Len(c) >= 3
      /\ \A i \in 1 .. Len(c) : c[i] \in NodesOf(bids)
      /\ \A i \in 1 .. Len(c) - 1 : <<c[i], c[i + 1]>> \in DOMAIN bids
      /\ \A i, j \in 1 .. Len(c) - 1 : c[i] = c[j] => i = j
  BY SMTT(20) DEF Lucrative, ClosedPath, Simple
<1>2. n \in Nat /\ Len(c) <= n + 1
  BY FS_CardinalityType, ShortEnough DEF Lucrative, ClosedPath, Rated
<1> HIDE DEF n
<1>3. CASE Len(c) <= n
  <2>1. CycleFrom(bids, rows, c[1]) # <<>>
    BY <1>1, <1>2, <1>3, SourceFinds DEF n
  <2>2. 1 \in 1 .. Len(c)
    BY <1>1
  <2> QED  BY <1>1, <2>1, <2>2
<1>4. CASE Len(c) = n + 1
  <2> DEFINE P == {p \in 1 .. Len(rows) : \E i \in 1 .. Len(c) - 1 : rows[p] = <<c[i], c[i + 1]>>}
  <2>1. P \subseteq Nat /\ P # {}
    <3>1. 1 \in 1 .. Len(c) - 1
      BY <1>1
    <3>2. PICK p \in 1 .. Len(rows) : rows[p] = <<c[1], c[1 + 1]>>
      BY <1>1, <3>1 DEF Listing
    <3> QED  BY <3>1, <3>2
  <2> HIDE DEF P
  <2>2. PICK p \in P : \A q \in P : p <= q
    BY <2>1, LeastMember
  <2>3. p \in 1 .. Len(rows)
    BY <2>2 DEF P
  <2>4. PICK i \in 1 .. Len(c) - 1 : rows[p] = <<c[i], c[i + 1]>>
    BY <2>2 DEF P
  <2>5. PICK d : d = Turned(c, i)
    OBVIOUS
  <2>6. /\ ClosedPath(bids, d) /\ Len(d) = Len(c) /\ d[1] = c[i]
        /\ CycleProfit(c, bids) <= CycleProfit(d, bids) /\ SameEdges(c, d, i)
    <3>1. ClosedPath(bids, c) /\ i \in 1 .. Len(c) - 1
      BY <1>1, <2>4
    <3> QED  BY <3>1, <2>5, TurnedGains
  <2>8. 1 \in 1 .. Len(c) - 1 /\ 2 \in 1 .. Len(c) - 1 /\ 1 + 1 = 2 /\ 2 + 1 = 3
    BY <1>1
  <2>9. d[2] = c[i + 1]
    <3>1. i + 1 - 1 <= Len(c) - 1 /\ i + 1 - 1 = i
      BY <1>1
    <3>2. PICK k \in 1 .. Len(c) - 1 : d[1 + 1] = c[k + 1] /\ (i + 1 - 1 <= Len(c) - 1 => k = i + 1 - 1)
      BY <2>6, <2>8 DEF SameEdges
    <3> QED  BY <2>8, <3>1, <3>2
  <2>10. PICK k \in 1 .. Len(c) - 1 :
           /\ d[2] = c[k] /\ d[2 + 1] = c[k + 1] /\ (i + 2 - 1 <= Len(c) - 1 => k = i + 2 - 1)
           /\ (i + 2 - 1 > Len(c) - 1 => k = i + 2 - Len(c))
    BY <2>6, <2>8 DEF SameEdges
  <2>11. k # i
    BY <1>1, <2>10
  <2>12. PICK q \in 1 .. Len(rows) : rows[q] = <<c[k], c[k + 1]>>
    BY <1>1 DEF Listing
  <2>13. q \in P
    BY <2>12 DEF P
  <2>14. c[k] # c[i]
    BY <1>1, <2>11
  <2>15. p # q
    BY <2>4, <2>12, <2>14
  <2>16. p <= q
    BY <2>2, <2>13
  <2>17. p < q
    BY <2>3, <2>15, <2>16
  <2>18. rows[p] = <<d[1], d[2]>> /\ rows[q] = <<d[2], d[3]>>
    BY <2>4, <2>6, <2>8, <2>9, <2>10, <2>12
  <2>19. Ascends(rows, d)
    BY <2>3, <2>17, <2>18 DEF Ascends
  <2>20. CycleProfit(d, bids) > 0
    <3>1. CycleProfit(c, bids) \in Int /\ CycleProfit(d, bids) \in Int
      BY <1>1, <2>6, ProfitIsInt
    <3>2. \A x, y \in Int : x > 0 /\ x <= y => y > 0
      OBVIOUS
    <3> QED  BY <1>1, <2>6, <3>1, <3>2
  <2>21. CycleFrom(bids, rows, d[1]) # <<>>
    BY <1>2, <1>4, <2>6, <2>19, <2>20, SourceFinds DEF n
  <2>22. d[1] \in NodesOf(bids)
    <3>1. i \in 1 .. Len(c)
      BY <1>1
    <3> QED  BY <1>1, <2>6, <3>1
  <2> QED  BY <2>21, <2>22
<1>5. Len(c) <= n \/ Len(c) = n + 1
  BY <1>1, <1>2
<1> QED  BY <1>3, <1>4, <1>5

-----------------------------------------------------------------------------
(* All sources.                                                            *)

\* The result is what the first source that finds a cycle finds.
LEMMA SourcesTried ==
  ASSUME NEW bids, NEW rows, NEW nodes, Len(nodes) \in Nat,
         NEW c, c = BellmanFordArbitrage(bids, rows, nodes)
  PROVE  \/ c = <<>> /\ \A i \in 1 .. Len(nodes) : CycleFrom(bids, rows, nodes[i]) = <<>>
         \/ c # <<>> /\ \E i \in 1 .. Len(nodes) : c = CycleFrom(bids, rows, nodes[i])
<1> DEFINE n == Len(nodes)
           A(i) == CycleFrom(bids, rows, nodes[i])
           Eq(h) == h = [i \in 1 .. n + 1 |->
                           IF i > n THEN <<>> ELSE IF A(i) # <<>> THEN A(i) ELSE h[i + 1]]
           h == CHOOSE h : Eq(h)
           V == {<<>>} \cup {A(i) : i \in 1 .. n}
           F == [k \in 1 .. n |-> [x \in V |-> IF A(n + 1 - k) # <<>> THEN A(n + 1 - k) ELSE x]]
<1>1. c = h[1]
  BY DEF BellmanFordArbitrage
<1>2. F \in [1 .. n -> [V -> V]] /\ <<>> \in V
  <2>1. \A k \in 1 .. n : n + 1 - k \in 1 .. n
    OBVIOUS
  <2> HIDE DEF A
  <2> QED  BY <2>1
<1> HIDE DEF A
<1>3. PICK f : Runs(f, F, V, <<>>, n)
  <2> HIDE DEF F, V
  <2> QED  BY <1>2, Recursion
<1>4. f[0] = <<>> /\ \A k \in 1 .. n : f[k] = IF A(n + 1 - k) # <<>> THEN A(n + 1 - k) ELSE f[k - 1]
  <2>1. f[0] = <<>>
    BY <1>3 DEF Runs
  <2>2. ASSUME NEW k \in 1 .. n PROVE f[k] = IF A(n + 1 - k) # <<>> THEN A(n + 1 - k) ELSE f[k - 1]
    <3>1. k - 1 \in 0 .. n
      OBVIOUS
    <3>2. f[k - 1] \in V /\ f[k] = F[k][f[k - 1]]
      BY <1>3, <3>1 DEF Runs
    <3> HIDE DEF V
    <3> QED  BY <3>2
  <2> QED  BY <2>1, <2>2
<1> HIDE DEF F, V
<1> DEFINE g == [i \in 1 .. n + 1 |-> f[n + 1 - i]]
<1>5. Eq(g)
  <2> SUFFICES ASSUME NEW i \in 1 .. n + 1
               PROVE  f[n + 1 - i] = IF i > n THEN <<>> ELSE IF A(i) # <<>> THEN A(i) ELSE g[i + 1]
    OBVIOUS
  <2>1. CASE i > n
    <3>1. n + 1 - i = 0
      BY <2>1
    <3> QED  BY <1>4, <2>1, <3>1
  <2>2. CASE ~(i > n)
    <3>1. n + 1 - i \in 1 .. n /\ n + 1 - (n + 1 - i) = i /\ (n + 1 - i) - 1 = n + 1 - (i + 1)
          /\ i + 1 \in 1 .. n + 1
      BY <2>2
    <3>2. g[i + 1] = f[n + 1 - (i + 1)]
      BY <3>1
    <3>3. f[n + 1 - i] = IF A(i) # <<>> THEN A(i) ELSE f[(n + 1 - i) - 1]
      BY <1>4, <3>1
    <3> HIDE DEF g
    <3> QED  BY <2>2, <3>1, <3>2, <3>3
  <2> QED  BY <2>1, <2>2
<1>6. Eq(h)
  <2> HIDE DEF Eq
  <2> QED  BY <1>5
<1> HIDE DEF h
<1>7. h = [i \in 1 .. n + 1 |-> IF i > n THEN <<>> ELSE IF A(i) # <<>> THEN A(i) ELSE h[i + 1]]
  BY <1>6
<1> HIDE DEF Eq, n
<1>8. n \in Nat /\ n = Len(nodes)
  BY DEF n
<1> DEFINE Good(i) == \/ h[i] = <<>> /\ \A j \in i .. n : A(j) = <<>>
                      \/ h[i] # <<>> /\ \E j \in 1 .. n : h[i] = A(j)
           S == {k \in 0 .. n : Good(n + 1 - k)}
<1>9. 0 \in S
  <2>1. n + 1 \in 1 .. n + 1 /\ n + 1 > n /\ n + 1 - 0 = n + 1 /\ \A j \in n + 1 .. n : FALSE
    BY <1>8
  <2>2. h[n + 1] = <<>>
    BY <1>7, <2>1
  <2> QED  BY <1>8, <2>1, <2>2
<1>10. ASSUME NEW k \in 0 .. n - 1, k \in S PROVE k + 1 \in S
  <2> DEFINE i == n + 1 - (k + 1)
  <2>1. i \in 1 .. n /\ i \in 1 .. n + 1 /\ ~(i > n) /\ n + 1 - k = i + 1 /\ k + 1 \in 0 .. n
        /\ \A j \in i .. n : j = i \/ j \in i + 1 .. n
    BY <1>8
  <2>2. Good(i + 1)
    BY <1>10, <2>1
  <2> HIDE DEF i
  <2>3. h[i] = IF A(i) # <<>> THEN A(i) ELSE h[i + 1]
    BY <1>7, <2>1
  <2>4. Good(i)
    <3>1. CASE A(i) # <<>>
      BY <2>1, <2>3, <3>1
    <3>2. CASE A(i) = <<>>
      BY <2>1, <2>2, <2>3, <3>2
    <3> QED  BY <3>1, <3>2
  <2> QED  BY <2>1, <2>4 DEF i
<1> HIDE DEF S
<1>11. n \in S
  <2>1. 0 \in Nat /\ n \in Int /\ n \in 0 .. n
    BY <1>8
  <2> QED  BY <1>9, <1>10, <2>1, UpTo
<1>12. Good(1)
  <2>1. n + 1 - n = 1
    BY <1>8
  <2> QED  BY <1>11, <2>1 DEF S
<1> QED  BY <1>1, <1>8, <1>12 DEF A

\* The search finds a circuit with a gain exactly if there is one, in whatever
\* order it reads the edges (bellman_ford_arbitrage).
THEOREM SearchIsExact ==
  ASSUME NEW bids, Rated(bids), NEW rows, Listing(bids, rows),
         NEW nodes \in Seq(NodesOf(bids)), \A v \in NodesOf(bids) : \E i \in 1 .. Len(nodes) : nodes[i] = v,
         NEW c, c = BellmanFordArbitrage(bids, rows, nodes)
  PROVE  IF \E p : Lucrative(bids, p) THEN c # <<>> /\ Lucrative(bids, c) ELSE c = <<>>
<1>1. Len(nodes) \in Nat /\ \A i \in 1 .. Len(nodes) : nodes[i] \in NodesOf(bids)
  OBVIOUS
<1>2. \/ c = <<>> /\ \A i \in 1 .. Len(nodes) : CycleFrom(bids, rows, nodes[i]) = <<>>
      \/ c # <<>> /\ \E i \in 1 .. Len(nodes) : c = CycleFrom(bids, rows, nodes[i])
  BY <1>1, SourcesTried
<1>3. ASSUME c # <<>> PROVE Lucrative(bids, c)
  <2>1. PICK i \in 1 .. Len(nodes) : c = CycleFrom(bids, rows, nodes[i])
    BY <1>2, <1>3
  <2>2. nodes[i] \in NodesOf(bids)
    BY <1>1
  <2> QED  BY <1>3, <2>1, <2>2, CycleFromGains
<1>4. ASSUME NEW p, Lucrative(bids, p) PROVE c # <<>>
  <2>1. PICK s \in NodesOf(bids) : CycleFrom(bids, rows, s) # <<>>
    BY <1>4, SomeSourceFinds
  <2>2. PICK i \in 1 .. Len(nodes) : nodes[i] = s
    OBVIOUS
  <2> QED  BY <1>2, <2>1, <2>2
<1> QED  BY <1>3, <1>4

\* Only(S, s) has the elements of s that are in S.
LEMMA OnlyThese ==
  ASSUME NEW S, NEW T, NEW s \in Seq(T)
  PROVE  /\ Only(S, s) \in Seq(S)
         /\ \A i \in 1 .. Len(s) : s[i] \in S =>
              \E j \in 1 .. Len(Only(S, s)) : Only(S, s)[j] = s[i]
<1> DEFINE n == Len(s)
           V == Seq(S)
           Eq(h) == h = [i \in 0 .. n |->
                      IF i = 0 THEN <<>> ELSE IF s[i] \in S THEN Append(h[i - 1], s[i]) ELSE h[i - 1]]
           h == CHOOSE h : Eq(h)
           F == [i \in 1 .. n |-> [x \in V |-> IF s[i] \in S THEN Append(x, s[i]) ELSE x]]
<1>1. Only(S, s) = h[n]
  BY DEF Only
<1>2. F \in [1 .. n -> [V -> V]] /\ n \in Nat /\ <<>> \in V
  OBVIOUS
<1>3. PICK f : Runs(f, F, V, <<>>, n)
  <2> HIDE DEF F, V
  <2> QED  BY <1>2, Recursion
<1>4. \A i \in 1 .. n : f[i] = IF s[i] \in S THEN Append(f[i - 1], s[i]) ELSE f[i - 1]
  <2> SUFFICES ASSUME NEW i \in 1 .. n
               PROVE  f[i] = IF s[i] \in S THEN Append(f[i - 1], s[i]) ELSE f[i - 1]
    OBVIOUS
  <2>1. i - 1 \in 0 .. n
    OBVIOUS
  <2>2. f[i - 1] \in V /\ f[i] = F[i][f[i - 1]]
    BY <1>3, <2>1 DEF Runs
  <2> HIDE DEF V
  <2> QED  BY <2>2
<1>5. f \in [0 .. n -> V] /\ f[0] = <<>>
  BY <1>3 DEF Runs
<1> HIDE DEF F, V
<1>6. Eq(f)
  <2>1. ASSUME NEW i \in 0 .. n
        PROVE  f[i] = IF i = 0 THEN <<>> ELSE IF s[i] \in S THEN Append(f[i - 1], s[i]) ELSE f[i - 1]
    <3>1. i # 0 => i \in 1 .. n
      OBVIOUS
    <3> QED  BY <1>4, <1>5, <3>1
  <2> QED  BY <1>5, <2>1
<1>7. Eq(h)
  <2> HIDE DEF Eq
  <2> QED  BY <1>6
<1> HIDE DEF h
<1>8. h = [i \in 0 .. n |->
             IF i = 0 THEN <<>> ELSE IF s[i] \in S THEN Append(h[i - 1], s[i]) ELSE h[i - 1]]
  BY <1>7
<1> HIDE DEF Eq, n
<1>9. h[0] = <<>>
  <2>1. 0 \in 0 .. n
    BY <1>2
  <2> QED  BY <1>8, <2>1
<1>10. \A i \in 1 .. n : h[i] = IF s[i] \in S THEN Append(h[i - 1], s[i]) ELSE h[i - 1]
  <2>1. \A i \in 1 .. n : i \in 0 .. n /\ i # 0
    BY <1>2
  <2> QED  BY <1>8, <2>1
<1> DEFINE Good(i) == /\ h[i] \in Seq(S)
                      /\ \A k \in 1 .. i : s[k] \in S => \E j \in 1 .. Len(h[i]) : h[i][j] = s[k]
           G == {i \in 0 .. n : Good(i)}
<1>11. 0 \in G
  <2>1. (\A k \in 1 .. 0 : FALSE) /\ <<>> \in Seq(S) /\ 0 \in 0 .. n
    BY <1>2
  <2>2. Good(0)
    BY <1>9, <2>1
  <2> QED  BY <2>1, <2>2
<1>12. ASSUME NEW i \in 0 .. n - 1, i \in G PROVE i + 1 \in G
  <2>1. i + 1 \in 0 .. n /\ i + 1 \in 1 .. n /\ (i + 1) - 1 = i /\ i \in Nat
        /\ \A k \in 1 .. i + 1 : k = i + 1 \/ k \in 1 .. i
    BY <1>2
  <2>2. Good(i)
    BY <1>12
  <2>3. h[i + 1] = IF s[i + 1] \in S THEN Append(h[i], s[i + 1]) ELSE h[i]
    BY <1>10, <2>1
  <2>4. Good(i + 1)
    <3>1. CASE s[i + 1] \in S
      <4>1. /\ h[i + 1] \in Seq(S) /\ Len(h[i + 1]) = Len(h[i]) + 1 /\ Len(h[i]) \in Nat
            /\ h[i + 1][Len(h[i]) + 1] = s[i + 1]
            /\ \A j \in 1 .. Len(h[i]) : h[i + 1][j] = h[i][j]
        BY <2>2, <2>3, <3>1
      <4>2. Len(h[i]) + 1 \in 1 .. Len(h[i + 1]) /\ \A j \in 1 .. Len(h[i]) : j \in 1 .. Len(h[i + 1])
        BY <4>1
      <4>3. ASSUME NEW k \in 1 .. i + 1, s[k] \in S
            PROVE  \E j \in 1 .. Len(h[i + 1]) : h[i + 1][j] = s[k]
        BY <2>1, <2>2, <4>1, <4>2, <4>3
      <4> QED  BY <4>1, <4>3
    <3>2. CASE s[i + 1] \notin S
      BY <2>1, <2>2, <2>3, <3>2
    <3> QED  BY <3>1, <3>2
  <2> QED  BY <2>1, <2>4
<1> HIDE DEF G
<1>13. n \in G
  <2>1. 0 \in Nat /\ n \in Int /\ n \in 0 .. n
    BY <1>2
  <2> QED  BY <1>11, <1>12, <2>1, UpTo
<1>14. Good(n)
  BY <1>13 DEF G
<1> QED  BY <1>1, <1>14 DEF n

-----------------------------------------------------------------------------
(* The rates and the edges.                                                *)

\* A function from cryptos to quotes; from fiat currencies to rates; from edges
\* to rates.
QuotesOf(p) == DOMAIN p \subseteq Cryptos /\ \A c \in DOMAIN p : p[c] \in Quotes
FiatsOf(r) == DOMAIN r \subseteq Fiats /\ \A f \in DOMAIN r : r[f] \in Int
RatesOf(b) == DOMAIN b \subseteq Pairs(Assets, Assets) /\ \A e \in DOMAIN b : b[e] \in Int

Inv(e) == <<e[2], e[1]>>

\* An exchange and its inverse lose.
Losing(b) == \A e \in DOMAIN b : Inv(e) \in DOMAIN b /\ b[e] + b[Inv(e)] <= 0

-----------------------------------------------------------------------------
(* The rates the program computes.                                         *)

LEMMA PairTypes ==
  ASSUME NEW p, QuotesOf(p)
  PROVE  /\ RatesOf(PairBids(p))
         /\ DOMAIN PairBids(p) = Pairs(DOMAIN p, {USD}) \cup Pairs({USD}, DOMAIN p)
         /\ \A c \in DOMAIN p : /\ <<c, USD>> \in DOMAIN PairBids(p)
                                /\ <<USD, c>> \in DOMAIN PairBids(p)
                                /\ PairBids(p)[<<c, USD>>] = p[c][1]
                                /\ PairBids(p)[<<USD, c>>] = -p[c][2]
BY AssetAssumption DEF QuotesOf, RatesOf, PairBids, ++, Pairs, Quotes, Bid, Ask, Assets

LEMMA CrossTypes ==
  ASSUME NEW p, QuotesOf(p)
  PROVE  /\ RatesOf(CrossBids(p))
         /\ DOMAIN CrossBids(p) = Pairs(DOMAIN p, DOMAIN p)
BY AssetAssumption DEF QuotesOf, RatesOf, CrossBids, Pairs, Quotes, Bid, Ask, Assets

LEMMA FiatTypes ==
  ASSUME NEW r, FiatsOf(r)
  PROVE  RatesOf(FiatBids(r))
BY AssetAssumption DEF FiatsOf, RatesOf, FiatBids, ++, Pairs, Assets

LEMMA MixedTypes ==
  ASSUME NEW p, QuotesOf(p), NEW r, FiatsOf(r)
  PROVE  RatesOf(MixedBids(p, r))
BY AssetAssumption DEF QuotesOf, FiatsOf, RatesOf, MixedBids, ++, Pairs, Quotes, Bid, Ask, Assets

LEMMA OverTypes ==
  ASSUME NEW a, RatesOf(a), NEW b, RatesOf(b)
  PROVE  RatesOf(a ++ b) /\ DOMAIN (a ++ b) = DOMAIN a \cup DOMAIN b
BY DEF RatesOf, ++

LEMMA AllTypes ==
  ASSUME NEW p, QuotesOf(p), NEW r, FiatsOf(r)
  PROVE  /\ RatesOf(AllBids(p, r))
         /\ \A c \in DOMAIN p : <<c, USD>> \in DOMAIN AllBids(p, r)
<1>1. RatesOf(PairBids(p) ++ CrossBids(p))
  BY PairTypes, CrossTypes, OverTypes
<1>2. RatesOf(PairBids(p) ++ CrossBids(p) ++ FiatBids(r))
  BY <1>1, FiatTypes, OverTypes
<1>3. RatesOf(AllBids(p, r))
  BY <1>2, MixedTypes, OverTypes DEF AllBids
<1>4. DOMAIN PairBids(p) \subseteq DOMAIN AllBids(p, r)
  BY DEF AllBids, ++
<1> QED  BY <1>3, <1>4, PairTypes

LEMMA SetTypes ==
  ASSUME RatesOf(graph), NEW b, RatesOf(b)
  PROVE  RatesOf(Set(b)) /\ DOMAIN Set(b) = DOMAIN graph
BY DEF RatesOf, Set

LEMMA SetSomeTypes ==
  ASSUME RatesOf(graph), NEW b, RatesOf(b), SetSome(b)
  PROVE  RatesOf(graph') /\ DOMAIN graph' = DOMAIN graph
<1>1. \A S : RatesOf(Restrict(b, DOMAIN b \cap S))
  BY DEF RatesOf, Restrict
<1> QED  BY <1>1, SetTypes DEF SetSome

Straight(p) == \A c \in DOMAIN p : p[c][1] <= p[c][2]

LEMMA PairsLose ==
  ASSUME NEW p, QuotesOf(p), Straight(p)
  PROVE  Losing(PairBids(p))
BY AssetAssumption
   DEF QuotesOf, Straight, Losing, Inv, PairBids, ++, Pairs, Quotes, Bid, Ask, Assets

LEMMA CrossesLose ==
  ASSUME NEW p, QuotesOf(p), Straight(p)
  PROVE  Losing(CrossBids(p))
BY DEF QuotesOf, Straight, Losing, Inv, CrossBids, Pairs, Quotes, Bid, Ask

LEMMA FiatsLose ==
  ASSUME NEW r, FiatsOf(r)
  PROVE  Losing(FiatBids(r))
BY AssetAssumption DEF FiatsOf, Losing, Inv, FiatBids, ++, Pairs, Assets

LEMMA MixedLose ==
  ASSUME NEW p, QuotesOf(p), Straight(p), NEW r, FiatsOf(r)
  PROVE  Losing(MixedBids(p, r))
BY AssetAssumption
   DEF QuotesOf, Straight, FiatsOf, Losing, Inv, MixedBids, ++, Pairs, Quotes, Bid, Ask, Assets

LEMMA OverLoses ==
  ASSUME NEW a, RatesOf(a), Losing(a), NEW b, RatesOf(b), Losing(b)
  PROVE  Losing(a ++ b)
<1> SUFFICES ASSUME NEW e \in DOMAIN (a ++ b)
             PROVE  Inv(e) \in DOMAIN (a ++ b) /\ (a ++ b)[e] + (a ++ b)[Inv(e)] <= 0
  BY DEF Losing
<1>1. DOMAIN (a ++ b) = DOMAIN a \cup DOMAIN b
  BY DEF ++
<1>2. e \in Assets \X Assets /\ Inv(Inv(e)) = e
  BY <1>1 DEF RatesOf, Pairs, Inv
<1>3. (a ++ b)[e] = IF e \in DOMAIN a THEN a[e] ELSE b[e]
  BY <1>1 DEF ++
<1>4. Inv(e) \in DOMAIN (a ++ b)
  BY <1>1 DEF Losing
<1>5. (a ++ b)[Inv(e)] = IF Inv(e) \in DOMAIN a THEN a[Inv(e)] ELSE b[Inv(e)]
  BY <1>1, <1>4 DEF ++
<1>6. e \in DOMAIN a <=> Inv(e) \in DOMAIN a
  BY <1>2 DEF Losing
<1> QED  BY <1>1, <1>3, <1>4, <1>5, <1>6 DEF Losing

LEMMA SetLoses ==
  ASSUME RatesOf(graph), Losing(graph), NEW b, RatesOf(b), Losing(b)
  PROVE  Losing(Set(b))
<1> SUFFICES ASSUME NEW e \in DOMAIN graph
             PROVE  Inv(e) \in DOMAIN graph /\ Set(b)[e] + Set(b)[Inv(e)] <= 0
  BY DEF Losing, Set
<1>1. e \in Assets \X Assets /\ Inv(Inv(e)) = e
  BY DEF RatesOf, Pairs, Inv
<1>2. Inv(e) \in DOMAIN graph
  BY DEF Losing
<1>3. e \in DOMAIN b <=> Inv(e) \in DOMAIN b
  BY <1>1 DEF Losing
<1>4. /\ Set(b)[e] = IF e \in DOMAIN b THEN b[e] ELSE graph[e]
      /\ Set(b)[Inv(e)] = IF Inv(e) \in DOMAIN b THEN b[Inv(e)] ELSE graph[Inv(e)]
  BY <1>2 DEF Set
<1> QED  BY <1>2, <1>3, <1>4 DEF Losing

-----------------------------------------------------------------------------
(* Types.                                                                  *)

\* The cryptos in C and all that is no crypto.
Beside(C) == C \cup {USD} \cup Fiats

\* The edges of a crypto are those of an ask that is known.
AskEdges ==
  /\ \A c \in DOMAIN ask : <<USD, c>> \in DOMAIN graph
  /\ DOMAIN graph \subseteq Beside(DOMAIN ask) \X Beside(DOMAIN ask)

TypeInv == TypeOK /\ AskEdges

LEMMA Empty == DOMAIN <<>> = {}
OBVIOUS

LEMMA FirstPair == 1 \in 1 .. Len(CryptoPairs)
BY AssetAssumption

LEMMA FaultTypes ==
  ASSUME TypeOK, Fault
  PROVE  faults' \in 0 .. MaxFaults /\ missed' \in BOOLEAN
BY QuoteAssumption DEF TypeOK, Fault

LEMMA Parts ==
  ASSUME TypeOK
  PROVE  /\ QuotesOf(prices) /\ FiatsOf(fiat) /\ RatesOf(graph)
         /\ Crypto \in Cryptos
BY AssetAssumption, QuoteAssumption DEF TypeOK, QuotesOf, FiatsOf, RatesOf, Crypto, Cryptos, ToSet

LEMMA FilledTypes ==
  ASSUME TypeOK, NEW C \in SUBSET Cryptos
  PROVE  QuotesOf(Filled(C)) /\ DOMAIN Filled(C) = DOMAIN prices \cup (C \cap DOMAIN ask)
BY Parts DEF TypeOK, RatesOf, QuotesOf, Filled, ++, Quotes

LEMMA PartialTypes ==
  ASSUME NEW S, NEW T, NEW f \in Partial(S, T)
  PROVE  DOMAIN f \subseteq S /\ \A x \in DOMAIN f : f[x] \in T
BY DEF Partial

\* The graph and what is known of the asks keep their shape.
Shaped ==
  /\ RatesOf(graph') /\ DOMAIN graph' = DOMAIN graph
  /\ DOMAIN ask' = DOMAIN ask /\ \A c \in DOMAIN ask : ask'[c] \in Int

LEMMA ShapedTypes ==
  ASSUME TypeInv, Shaped
  PROVE  /\ AskEdges'
         /\ DOMAIN graph' \subseteq Pairs(Assets, Assets)
         /\ \A e \in DOMAIN graph' : graph'[e] \in Int
         /\ DOMAIN ask' \subseteq Cryptos
         /\ \A c \in DOMAIN ask' : ask'[c] \in Int /\ <<c, USD>> \in DOMAIN graph'
BY DEF TypeInv, TypeOK, AskEdges, Shaped, RatesOf

LEMMA Unshaped ==
  ASSUME TypeInv, UNCHANGED edges
  PROVE  Shaped
BY Parts DEF TypeInv, TypeOK, edges, Shaped

LEMMA PairMoves ==
  ASSUME TypeOK, pc = "pair", NextPair
  PROVE  pair' \in 1 .. Len(CryptoPairs) /\ pc' \in {"pair", "cross"}
BY AssetAssumption DEF TypeOK, NextPair

LEMMA AskTypes ==
  ASSUME TypeOK, NEW c, NEW q \in Quotes, ask' = SetAsk(c, q)
  PROVE  DOMAIN ask' = DOMAIN ask /\ \A d \in DOMAIN ask : ask'[d] \in Int
BY DEF TypeOK, SetAsk, Ask, Quotes

LEMMA OneQuote ==
  ASSUME TypeOK, NEW q \in Quotes
  PROVE  /\ QuotesOf(Of(Crypto, q)) /\ DOMAIN Of(Crypto, q) = {Crypto}
         /\ Of(Crypto, q)[Crypto] = q
         /\ RatesOf(Of(<<Crypto, USD>>, Bid(q)))
<1>1. Crypto \in Cryptos
  BY Parts
<1>2. <<Crypto, USD>> \in Pairs(Assets, Assets)
  BY <1>1, AssetAssumption DEF Pairs, Assets
<1> QED  BY <1>1, <1>2 DEF QuotesOf, RatesOf, Of, Quotes, Bid

LEMMA InitGraphTypes ==
  ASSUME TypeInv, InitGraph
  PROVE  TypeInv'
<1> USE DEF TypeInv
<1> PICK p \in Partial(Cryptos, StartQuotes), r \in Partial(Fiats, StartRates) :
      /\ graph' = AllBids(p, r) ++ graph
      /\ ask' = [c \in DOMAIN p |-> Ask(p[c])] ++ ask
  BY DEF InitGraph
<1>1. QuotesOf(p) /\ FiatsOf(r)
  BY PartialTypes, QuoteAssumption DEF QuotesOf, FiatsOf, Quotes
<1>2. /\ RatesOf(graph')
      /\ DOMAIN graph' = DOMAIN AllBids(p, r) \cup DOMAIN graph
  BY <1>1, AllTypes, OverTypes, Parts
<1>3. /\ DOMAIN ask' = DOMAIN p \cup DOMAIN ask
      /\ \A c \in DOMAIN ask' : ask'[c] \in Int
  BY <1>1 DEF TypeOK, QuotesOf, Quotes, Ask, ++
<1>4. \A c \in DOMAIN p : <<c, USD>> \in DOMAIN AllBids(p, r) /\ <<USD, c>> \in DOMAIN AllBids(p, r)
  BY <1>1, PairTypes DEF AllBids, ++
<1>5. DOMAIN AllBids(p, r) =
        DOMAIN PairBids(p) \cup DOMAIN CrossBids(p) \cup DOMAIN FiatBids(r) \cup DOMAIN MixedBids(p, r)
  BY DEF AllBids, ++
<1>6. DOMAIN AllBids(p, r) \subseteq Beside(DOMAIN p) \X Beside(DOMAIN p)
  BY <1>1, <1>5 DEF PairBids, CrossBids, FiatBids, MixedBids, ++, Pairs, FiatsOf, Beside
<1>7. AskEdges'
  <2>1. \A c \in DOMAIN ask' : <<USD, c>> \in DOMAIN graph'
    <3>1. \A c \in DOMAIN ask : <<USD, c>> \in DOMAIN graph
      BY DEF AskEdges
    <3> QED  BY <1>2, <1>3, <1>4, <3>1
  <2>2. /\ Beside(DOMAIN p) \subseteq Beside(DOMAIN ask')
        /\ Beside(DOMAIN ask) \subseteq Beside(DOMAIN ask')
    BY <1>3 DEF Beside
  <2>3. DOMAIN graph \subseteq Beside(DOMAIN ask) \X Beside(DOMAIN ask)
    BY DEF AskEdges
  <2>4. DOMAIN graph' \subseteq Beside(DOMAIN ask') \X Beside(DOMAIN ask')
    BY <1>2, <1>6, <2>2, <2>3
  <2> QED  BY <2>1, <2>4, <1>3 DEF AskEdges, Beside
<1>8. /\ DOMAIN ask' \subseteq Cryptos
      /\ \A c \in DOMAIN ask' : <<c, USD>> \in DOMAIN graph'
  BY <1>1, <1>2, <1>3, <1>4 DEF TypeOK, QuotesOf
<1> QED  BY <1>2, <1>3, <1>7, <1>8 DEF InitGraph, Launch, TypeOK, RatesOf

LEMMA UpdatePairTypes ==
  ASSUME TypeInv, NEW q \in BookQuotes \cup TickQuotes, UpdatePair(q)
  PROVE  TypeInv'
<1> USE DEF TypeInv
<1>1. q \in Quotes
  BY QuoteAssumption DEF Quotes
<1>2. Shaped
  BY <1>1, OneQuote, PairTypes, SetTypes, AskTypes, Parts DEF UpdatePair, Shaped
<1>3. DOMAIN prices' \subseteq Cryptos /\ \A c \in DOMAIN prices' : prices'[c] \in Quotes
  BY <1>1, OneQuote, Parts DEF UpdatePair, QuotesOf, ++
<1>4. crossed' \in BOOLEAN
  BY DEF UpdatePair, TypeOK
<1> QED  BY <1>2, <1>3, <1>4, ShapedTypes, PairMoves DEF UpdatePair, TypeOK

LEMMA UpdatePairFailsTypes ==
  ASSUME TypeInv, UpdatePairFails
  PROVE  TypeInv'
<1> USE DEF TypeInv
<1>1. CASE UNCHANGED edges
  <2>1. Shaped
    BY <1>1, Unshaped
  <2> QED  BY <2>1, ShapedTypes, PairMoves, QuoteAssumption DEF UpdatePairFails, Fault, TypeOK
<1>2. ASSUME NEW q \in BookQuotes \cup TickQuotes,
             graph' = Set(Of(<<Crypto, USD>>, Bid(q))), ask' = SetAsk(Crypto, q)
      PROVE  TypeInv'
  <2>1. Shaped
    BY <1>2, OneQuote, SetTypes, AskTypes, Parts, QuoteAssumption DEF Shaped, Quotes
  <2> QED  BY <2>1, ShapedTypes, PairMoves, QuoteAssumption DEF UpdatePairFails, Fault, TypeOK
<1> QED  BY <1>1, <1>2 DEF UpdatePairFails

LEMMA CrossTypesKept ==
  ASSUME TypeInv, CrossRates \/ CrossRatesIncomplete \/ CrossRatesFail
  PROVE  TypeInv'
<1> USE DEF TypeInv
<1>1. PICK C \in SUBSET Cryptos : prices' = Filled(C)
  BY DEF CrossRates, CrossRatesIncomplete, CrossRatesFail
<1>2. QuotesOf(prices')
  BY <1>1, FilledTypes
<1>3. Shaped
  BY <1>2, CrossTypes, SetTypes, SetSomeTypes, Parts, ZenonT(40)
     DEF CrossRates, CrossRatesIncomplete, CrossRatesFail, Shaped, TypeOK
<1>4. CASE CrossRates
  BY <1>2, <1>3, <1>4, ShapedTypes DEF CrossRates, AfterCross, TypeOK, QuotesOf
<1>5. CASE CrossRatesIncomplete
  BY <1>2, <1>3, <1>5, ShapedTypes, FaultTypes DEF CrossRatesIncomplete, AfterCross, TypeOK, QuotesOf
<1>6. CASE CrossRatesFail
  BY <1>2, <1>3, <1>6, ShapedTypes, FaultTypes DEF CrossRatesFail, TypeOK, QuotesOf
<1> QED  BY <1>4, <1>5, <1>6

LEMMA FiatTypesKept ==
  ASSUME TypeInv, UpdateFiatEdges \/ UpdateFiatEdgesFails
  PROVE  TypeInv'
<1> USE DEF TypeInv
<1>1. RatesOf(FiatBids(fiat) ++ MixedBids(prices, fiat))
  BY Parts, FiatTypes, MixedTypes, OverTypes
<1>2. Shaped
  BY <1>1, SetTypes, SetSomeTypes, Parts DEF UpdateFiatEdges, UpdateFiatEdgesFails, Shaped, TypeOK
<1>3. CASE UpdateFiatEdges
  BY <1>2, <1>3, ShapedTypes DEF UpdateFiatEdges, TypeOK
<1>4. CASE UpdateFiatEdgesFails
  BY <1>2, <1>4, ShapedTypes, FaultTypes DEF UpdateFiatEdgesFails, TypeOK
<1> QED  BY <1>3, <1>4

LEMMA OtherTypes ==
  ASSUME TypeInv,
         \/ InitGraphFails \/ Shutdown \/ NoQuote \/ RefreshFiatCache \/ RefreshFails
         \/ CommitFails \/ Wake \/ Detect \/ UNCHANGED vars
  PROVE  TypeInv'
<1> USE DEF TypeInv
<1>1. UNCHANGED edges
  BY DEF InitGraphFails, Launch, Shutdown, NoQuote, RefreshFiatCache, RefreshFails, CommitFails,
         Wake, Detect, vars
<1>2. Shaped
  BY <1>1, Unshaped
<1> USE <1>2, ShapedTypes, QuoteAssumption
<1>3. CASE InitGraphFails
  BY <1>3 DEF InitGraphFails, Launch, TypeOK
<1>4. CASE Shutdown
  BY <1>4, Empty, FirstPair DEF Shutdown, TypeOK
<1>5. CASE NoQuote
  BY <1>5, PairMoves DEF NoQuote, TypeOK
<1>6. CASE RefreshFiatCache
  BY <1>6, PartialTypes DEF RefreshFiatCache, TypeOK
<1>7. CASE RefreshFails
  BY <1>7 DEF RefreshFails, TypeOK
<1>8. CASE CommitFails
  BY <1>8 DEF CommitFails, Fault, TypeOK
<1>9. CASE Wake
  BY <1>9, Empty, FirstPair DEF Wake, TypeOK
<1>10. CASE Detect
  <2>1. signal' \in BOOLEAN
    BY <1>10 DEF Detect, TypeOK
  <2> QED  BY <1>10, <2>1 DEF Detect, TypeOK
<1>11. CASE UNCHANGED vars
  BY <1>11 DEF vars, TypeOK
<1> QED  BY <1>3, <1>4, <1>5, <1>6, <1>7, <1>8, <1>9, <1>10, <1>11

LEMMA TypeInit == Init => TypeInv
<1> SUFFICES ASSUME Init PROVE TypeInv
  OBVIOUS
<1>1. DOMAIN graph = {} /\ DOMAIN ask = {} /\ DOMAIN prices = {} /\ DOMAIN fiat = {}
  BY Empty DEF Init
<1>2. AskEdges
  BY <1>1 DEF AskEdges
<1>3. faults \in 0 .. MaxFaults
  BY QuoteAssumption DEF Init
<1> QED  BY <1>1, <1>2, <1>3, FirstPair DEF Init, TypeInv, TypeOK

LEMMA TypeStep == TypeInv /\ [Next]_vars => TypeInv'
BY InitGraphTypes, UpdatePairTypes, UpdatePairFailsTypes, CrossTypesKept, FiatTypesKept, OtherTypes
   DEF Next, FromLob, FromTicks

\* Every variable has its type.
THEOREM TypeCorrect == Spec => []TypeOK
<1>1. TypeInv => TypeOK
  BY DEF TypeInv
<1> QED  BY <1>1, TypeInit, TypeStep, PTL DEF Spec

-----------------------------------------------------------------------------
(* An exchange and its inverse.                                            *)

BidsBelowAsks == \A c \in DOMAIN ask : graph[<<c, USD>>] <= ask[c]

\* As long as nothing failed and no quote was crossed: both directions of an
\* exchange change together, to rates that lose, and quotes are straight,
\* those of the round and those that can be read back from the graph.
FairInv ==
  faults = 0 /\ ~crossed => Losing(graph) /\ Straight(prices) /\ BidsBelowAsks

LEMMA UsdEdges ==
  ASSUME NEW p, QuotesOf(p), NEW r, FiatsOf(r), NEW c \in Cryptos
  PROVE  /\ <<c, USD>> \notin DOMAIN CrossBids(p) /\ <<USD, c>> \notin DOMAIN CrossBids(p)
         /\ <<c, USD>> \notin DOMAIN FiatBids(r) /\ <<USD, c>> \notin DOMAIN FiatBids(r)
         /\ <<c, USD>> \notin DOMAIN MixedBids(p, r) /\ <<USD, c>> \notin DOMAIN MixedBids(p, r)
         /\ <<c, USD>> \in DOMAIN PairBids(p) <=> c \in DOMAIN p
         /\ <<USD, c>> \in DOMAIN PairBids(p) <=> c \in DOMAIN p
BY AssetAssumption DEF QuotesOf, FiatsOf, PairBids, CrossBids, FiatBids, MixedBids, ++, Pairs

LEMMA AllUsdEdges ==
  ASSUME NEW p, QuotesOf(p), NEW r, FiatsOf(r), NEW c \in Cryptos
  PROVE  /\ <<c, USD>> \in DOMAIN AllBids(p, r) <=> c \in DOMAIN p
         /\ <<USD, c>> \in DOMAIN AllBids(p, r) <=> c \in DOMAIN p
         /\ c \in DOMAIN p => /\ AllBids(p, r)[<<c, USD>>] = p[c][1]
                             /\ AllBids(p, r)[<<USD, c>>] = -p[c][2]
BY UsdEdges, PairTypes, ZenonT(40) DEF AllBids, ++

LEMMA FilledStraight ==
  ASSUME TypeInv, Straight(prices), BidsBelowAsks, NEW C \in SUBSET Cryptos
  PROVE  Straight(Filled(C))
BY DEF Straight, BidsBelowAsks, Filled, ++

LEMMA InitGraphFair ==
  ASSUME TypeInv, FairInv, InitGraph
  PROVE  FairInv'
<1> SUFFICES ASSUME faults = 0, ~crossed
             PROVE  Losing(graph') /\ Straight(prices') /\ BidsBelowAsks'
  BY DEF FairInv, InitGraph, Launch
<1> PICK p \in Partial(Cryptos, StartQuotes), r \in Partial(Fiats, StartRates) :
      /\ graph' = AllBids(p, r) ++ graph
      /\ ask' = [c \in DOMAIN p |-> Ask(p[c])] ++ ask
  BY DEF InitGraph
<1>1. QuotesOf(p) /\ FiatsOf(r) /\ Straight(p)
  BY PartialTypes, QuoteAssumption DEF QuotesOf, FiatsOf, Quotes, Straight
<1>2. Losing(PairBids(p) ++ CrossBids(p)) /\ RatesOf(PairBids(p) ++ CrossBids(p))
  BY <1>1, PairTypes, CrossTypes, PairsLose, CrossesLose, OverTypes, OverLoses
<1>3. /\ Losing(PairBids(p) ++ CrossBids(p) ++ FiatBids(r))
      /\ RatesOf(PairBids(p) ++ CrossBids(p) ++ FiatBids(r))
  BY <1>1, <1>2, FiatTypes, FiatsLose, OverTypes, OverLoses
<1>4. Losing(AllBids(p, r)) /\ RatesOf(AllBids(p, r))
  BY <1>1, <1>3, MixedTypes, MixedLose, OverTypes, OverLoses DEF AllBids
<1>5. Losing(graph')
  BY <1>4, OverLoses, Parts DEF FairInv, TypeInv
<1>6. Straight(prices')
  BY DEF InitGraph, Launch, FairInv, Straight
<1>7. ASSUME NEW c \in DOMAIN ask' PROVE graph'[<<c, USD>>] <= ask'[c]
  <2>1. c \in Cryptos /\ DOMAIN ask' = DOMAIN p \cup DOMAIN ask
    BY <1>1, <1>7 DEF ++, QuotesOf, TypeInv, TypeOK
  <2>2. CASE c \in DOMAIN p
    <3>1. graph'[<<c, USD>>] = p[c][1]
      <4>1. /\ <<c, USD>> \in DOMAIN AllBids(p, r)
            /\ AllBids(p, r)[<<c, USD>>] = p[c][1]
        BY <1>1, <2>1, <2>2, AllUsdEdges
      <4> QED  BY <4>1 DEF ++
    <3>2. ask'[c] = p[c][2]
      BY <2>1, <2>2 DEF ++, Ask
    <3> QED  BY <3>1, <3>2, <2>2, <1>1 DEF Straight
  <2>3. CASE c \notin DOMAIN p
    <3>1. c \in DOMAIN ask /\ <<c, USD>> \in DOMAIN graph
      BY <2>1, <2>3, <1>7 DEF TypeInv, TypeOK
    <3>2. graph'[<<c, USD>>] = graph[<<c, USD>>]
      BY <1>1, <2>1, <2>3, <3>1, AllUsdEdges DEF ++
    <3>3. ask'[c] = ask[c]
      BY <2>1, <2>3, <3>1 DEF ++
    <3> QED  BY <3>1, <3>2, <3>3 DEF FairInv, BidsBelowAsks
  <2> QED  BY <2>2, <2>3
<1> QED  BY <1>5, <1>6, <1>7 DEF BidsBelowAsks

LEMMA UpdatePairFair ==
  ASSUME TypeInv, FairInv, NEW q \in BookQuotes \cup TickQuotes, UpdatePair(q)
  PROVE  FairInv'
<1> SUFFICES ASSUME faults = 0, ~crossed'
             PROVE  Losing(graph') /\ Straight(prices') /\ BidsBelowAsks'
  BY DEF FairInv, UpdatePair
<1> DEFINE p == Of(Crypto, q)
<1>1. q \in Quotes /\ q[1] <= q[2] /\ ~crossed
  <2>1. q \in Quotes
    BY QuoteAssumption DEF Quotes
  <2>2. ~crossed /\ ~(Bid(q) > Ask(q))
    BY DEF UpdatePair
  <2> QED  BY <2>1, <2>2 DEF Bid, Ask, Quotes
<1>2. QuotesOf(p) /\ Straight(p) /\ DOMAIN p = {Crypto} /\ p[Crypto] = q
  BY <1>1, OneQuote DEF TypeInv, Straight
<1>3. Losing(graph')
  BY <1>1, <1>2, PairTypes, PairsLose, SetLoses, Parts DEF UpdatePair, FairInv, TypeInv
<1>4. Straight(prices')
  BY <1>1, <1>2 DEF UpdatePair, FairInv, Straight, ++
<1>5. ASSUME NEW c \in DOMAIN ask PROVE graph'[<<c, USD>>] <= ask'[c]
  <2>1. c \in Cryptos /\ <<c, USD>> \in DOMAIN graph
    BY DEF TypeInv, TypeOK
  <2>2. CASE c = Crypto
    <3>1. graph'[<<c, USD>>] = q[1]
      <4>1. <<c, USD>> \in DOMAIN PairBids(p) /\ PairBids(p)[<<c, USD>>] = q[1]
        <5> HIDE DEF p
        <5> QED  BY <1>2, <2>2, PairTypes
      <4> QED  BY <4>1, <2>1 DEF UpdatePair, Set
    <3>2. ask'[c] = q[2]
      BY <2>2 DEF UpdatePair, SetAsk, Ask
    <3> QED  BY <3>1, <3>2, <1>1
  <2>3. CASE c # Crypto
    <3>1. graph'[<<c, USD>>] = graph[<<c, USD>>]
      <4>1. <<c, USD>> \notin DOMAIN PairBids(p)
        BY <1>2, <2>1, <2>3, AssetAssumption DEF PairBids, ++, Pairs
      <4> QED  BY <4>1, <2>1 DEF UpdatePair, Set
    <3>2. ask'[c] = ask[c]
      BY <2>3 DEF UpdatePair, SetAsk
    <3> QED  BY <3>1, <3>2, <1>1 DEF FairInv, BidsBelowAsks
  <2> QED  BY <2>2, <2>3
<1>6. DOMAIN ask' = DOMAIN ask
  BY DEF UpdatePair, SetAsk
<1> QED  BY <1>3, <1>4, <1>5, <1>6 DEF BidsBelowAsks

\* Rates between other assets change.
LEMMA OtherRatesFair ==
  ASSUME TypeInv, Losing(graph), BidsBelowAsks, UNCHANGED ask,
         NEW b, RatesOf(b), Losing(b), graph' = Set(b),
         \A c \in Cryptos : <<c, USD>> \notin DOMAIN b
  PROVE  Losing(graph') /\ BidsBelowAsks'
<1>1. \A c \in DOMAIN ask : c \in Cryptos /\ <<c, USD>> \in DOMAIN graph
  BY DEF TypeInv, TypeOK
<1>2. \A c \in DOMAIN ask : graph'[<<c, USD>>] = graph[<<c, USD>>]
  BY <1>1 DEF Set
<1> QED  BY <1>2, SetLoses, Parts DEF BidsBelowAsks, TypeInv

LEMMA CrossRatesFair ==
  ASSUME TypeInv, FairInv, CrossRates
  PROVE  FairInv'
<1> SUFFICES ASSUME faults = 0, ~crossed
             PROVE  Losing(graph') /\ Straight(prices') /\ BidsBelowAsks'
  BY DEF FairInv, CrossRates
<1>1. QuotesOf(prices') /\ Straight(prices')
  BY FilledTypes, FilledStraight DEF FairInv, CrossRates, TypeInv
<1>2. \A c \in Cryptos : <<c, USD>> \notin DOMAIN CrossBids(prices')
  BY <1>1, UsdEdges, Parts DEF TypeInv
<1> QED  BY <1>1, <1>2, CrossTypes, CrossesLose, OtherRatesFair DEF FairInv, CrossRates

LEMMA UpdateFiatEdgesFair ==
  ASSUME TypeInv, FairInv, UpdateFiatEdges
  PROVE  FairInv'
<1> SUFFICES ASSUME faults = 0, ~crossed
             PROVE  Losing(graph') /\ Straight(prices') /\ BidsBelowAsks'
  BY DEF FairInv, UpdateFiatEdges
<1> DEFINE b == FiatBids(fiat) ++ MixedBids(prices, fiat)
<1>1. RatesOf(b) /\ Losing(b)
  BY Parts, FiatTypes, MixedTypes, FiatsLose, MixedLose, OverTypes, OverLoses DEF FairInv, TypeInv
<1>2. \A c \in Cryptos : <<c, USD>> \notin DOMAIN b
  BY UsdEdges, Parts DEF TypeInv, ++
<1>3. graph' = Set(b) /\ UNCHANGED <<ask, prices>>
  BY DEF UpdateFiatEdges
<1> HIDE DEF b
<1> QED  BY <1>1, <1>2, <1>3, OtherRatesFair DEF FairInv, Straight

LEMMA FairInit == Init => FairInv
BY Empty DEF Init, FairInv, Losing, Straight, BidsBelowAsks

LEMMA FairStep == TypeInv /\ FairInv /\ [Next]_vars => FairInv'
<1> SUFFICES ASSUME TypeInv, FairInv, [Next]_vars PROVE FairInv'
  OBVIOUS
<1>1. CASE Fault
  <2>1. faults' # 0
    BY <1>1 DEF Fault, TypeInv, TypeOK
  <2> QED  BY <2>1 DEF FairInv
<1>2. CASE InitGraph
  BY <1>2, InitGraphFair
<1>3. CASE InitGraphFails
  BY <1>3 DEF InitGraphFails, FairInv, TypeInv, TypeOK
<1>4. CASE FromLob \/ FromTicks
  BY <1>4, UpdatePairFair DEF FromLob, FromTicks
<1>5. CASE CrossRates
  BY <1>5, CrossRatesFair
<1>6. CASE UpdateFiatEdges
  BY <1>6, UpdateFiatEdgesFair
<1>7. ASSUME UNCHANGED <<edges, crossed, faults>>, prices' = prices \/ prices' = <<>>
      PROVE  FairInv'
  BY <1>7, Empty DEF edges, FairInv, Losing, Straight, BidsBelowAsks
<1>8. CASE NoQuote \/ RefreshFiatCache \/ RefreshFails \/ Wake \/ Detect \/ Shutdown
            \/ UNCHANGED vars
  BY <1>7, <1>8 DEF NoQuote, RefreshFiatCache, RefreshFails, Wake, Detect, Shutdown, vars
<1> QED
  BY <1>1, <1>2, <1>3, <1>4, <1>5, <1>6, <1>8
     DEF Next, UpdatePairFails, CrossRatesIncomplete, CrossRatesFail, UpdateFiatEdgesFails, CommitFails

\* Wherever the detector may read, an exchange and its inverse lose, as long as
\* no statement failed and no quote was crossed.
THEOREM RoundTripsNeverGain == Spec => []RoundTripsLose
<1>1. FairInv => RoundTripsLose
  BY DEF FairInv, RoundTripsLose, Losing, Inv
<1> QED  BY <1>1, TypeInit, TypeStep, FairInit, FairStep, PTL DEF Spec

-----------------------------------------------------------------------------
(* The rates that a round leaves.                                          *)

\* Nothing failed, or nothing in this round, which then had every quote.
Fresh == faults = 0 \/ ~missed

InRound == {"pair", "cross", "fiat", "edges", "sleep"}
Crossed == {"fiat", "edges", "sleep"}

Idle == pc = "down" => prices = <<>> /\ pair = 1

AsksKept == faults = 0 => \A c \in DOMAIN ask : graph[<<USD, c>>] = -ask[c]

\* The quotes of this round are those of the graph.
Refreshed ==
  pc \in InRound =>
    \A c \in DOMAIN prices \cap DOMAIN ask :
      /\ graph[<<c, USD>>] = prices[c][1] /\ ask[c] = prices[c][2]
      /\ Fresh => graph[<<USD, c>>] = -prices[c][2]

\* Which quotes there are.
Refreshing ==
  /\ pc = "pair" => \A c \in DOMAIN prices : \E i \in 1 .. pair - 1 : CryptoPairs[i] = c
  /\ pc = "pair" /\ ~missed => \A i \in 1 .. pair - 1 : CryptoPairs[i] \in DOMAIN prices
  /\ pc = "cross" /\ ~missed => Cryptos \subseteq DOMAIN prices
  /\ pc \in Crossed /\ Fresh => DOMAIN ask \subseteq DOMAIN prices

\* The cross rates, and the rates with fiat currencies, are made of them.
CrossedRates ==
  pc \in Crossed /\ Fresh =>
    \A c, d \in Cryptos : <<c, d>> \in DOMAIN graph => graph[<<c, d>>] = prices[c][1] - prices[d][2]

FiatRatesSet ==
  pc = "sleep" /\ Fresh =>
    LET b == FiatBids(fiat) ++ MixedBids(prices, fiat)
    IN \A e \in DOMAIN graph \cap DOMAIN b : graph[e] = b[e]

RoundInv == Idle /\ AsksKept /\ Refreshed /\ Refreshing /\ CrossedRates /\ FiatRatesSet

LEMMA InitGraphRound ==
  ASSUME TypeInv, RoundInv, InitGraph
  PROVE  RoundInv'
<1> PICK p \in Partial(Cryptos, StartQuotes), r \in Partial(Fiats, StartRates) :
      /\ graph' = AllBids(p, r) ++ graph
      /\ ask' = [c \in DOMAIN p |-> Ask(p[c])] ++ ask
  BY DEF InitGraph
<1>1. QuotesOf(p) /\ FiatsOf(r)
  BY PartialTypes, QuoteAssumption DEF QuotesOf, FiatsOf, Quotes
<1>2. /\ pc' = "pair" /\ pair' = 1 /\ DOMAIN prices' = {} /\ faults' = faults
      /\ UNCHANGED missed
  BY Empty DEF InitGraph, Launch, RoundInv, Idle
<1>3. ASSUME faults = 0, NEW c \in DOMAIN ask' PROVE graph'[<<USD, c>>] = -ask'[c]
  <2>1. c \in Cryptos /\ DOMAIN ask' = DOMAIN p \cup DOMAIN ask
    BY <1>1, <1>3 DEF ++, QuotesOf, TypeInv, TypeOK
  <2>2. CASE c \in DOMAIN p
    <3>1. /\ <<USD, c>> \in DOMAIN AllBids(p, r)
          /\ AllBids(p, r)[<<USD, c>>] = -p[c][2]
      BY <1>1, <2>1, <2>2, AllUsdEdges
    <3>2. graph'[<<USD, c>>] = -p[c][2]
      BY <3>1 DEF ++
    <3>3. ask'[c] = p[c][2]
      BY <2>1, <2>2 DEF ++, Ask
    <3> QED  BY <3>2, <3>3
  <2>3. CASE c \notin DOMAIN p
    <3>1. c \in DOMAIN ask /\ <<USD, c>> \in DOMAIN graph
      BY <2>1, <2>3, <1>3 DEF TypeInv, AskEdges
    <3>2. graph'[<<USD, c>>] = graph[<<USD, c>>]
      BY <1>1, <2>1, <2>3, <3>1, AllUsdEdges DEF ++
    <3>3. ask'[c] = ask[c]
      BY <2>1, <2>3, <3>1 DEF ++
    <3> QED  BY <3>1, <3>2, <3>3, <1>3 DEF RoundInv, AsksKept
  <2> QED  BY <2>2, <2>3
<1> QED
  BY <1>2, <1>3 DEF RoundInv, Idle, AsksKept, Refreshed, Refreshing, CrossedRates, FiatRatesSet, Crossed

LEMMA EarlierPairs ==
  ASSUME TypeOK, pc = "pair", NextPair
  PROVE  /\ \A i \in 1 .. pair - 1 : CryptoPairs[i] # Crypto
         /\ pc' = "pair" => pair' = pair + 1
         /\ pc' = "cross" => pair = Len(CryptoPairs)
         /\ pc' \in {"pair", "cross"}
BY AssetAssumption DEF TypeOK, NextPair, Crypto, IsInjective

LEMMA LastPair ==
  ASSUME NEW D, \A i \in 1 .. Len(CryptoPairs) : CryptoPairs[i] \in D
  PROVE  Cryptos \subseteq D
BY AssetAssumption DEF Cryptos, ToSet

LEMMA UpdatePairRound ==
  ASSUME TypeInv, RoundInv, NEW q \in BookQuotes \cup TickQuotes, UpdatePair(q)
  PROVE  RoundInv'
<1> DEFINE p == Of(Crypto, q)
<1>1. q \in Quotes
  BY QuoteAssumption DEF Quotes
<1>2. QuotesOf(p) /\ DOMAIN p = {Crypto} /\ p[Crypto] = q /\ Crypto \in Cryptos
  BY <1>1, OneQuote, Parts DEF TypeInv
<1>3. /\ DOMAIN prices' = DOMAIN prices \cup {Crypto} /\ prices'[Crypto] = q
      /\ \A c \in DOMAIN prices : c # Crypto => prices'[c] = prices[c]
  BY <1>2 DEF UpdatePair, ++
<1>4. DOMAIN ask' = DOMAIN ask
  BY DEF UpdatePair, SetAsk
<1>5. /\ DOMAIN PairBids(p) = Pairs({Crypto}, {USD}) \cup Pairs({USD}, {Crypto})
      /\ PairBids(p)[<<Crypto, USD>>] = q[1] /\ PairBids(p)[<<USD, Crypto>>] = -q[2]
      /\ <<Crypto, USD>> \in DOMAIN PairBids(p) /\ <<USD, Crypto>> \in DOMAIN PairBids(p)
  <2> HIDE DEF p
  <2> QED  BY <1>2, PairTypes
<1>6. ASSUME Crypto \in DOMAIN ask
      PROVE  /\ graph'[<<Crypto, USD>>] = q[1] /\ graph'[<<USD, Crypto>>] = -q[2]
             /\ ask'[Crypto] = q[2]
  <2>1. <<Crypto, USD>> \in DOMAIN graph /\ <<USD, Crypto>> \in DOMAIN graph
    BY <1>6 DEF TypeInv, TypeOK, AskEdges
  <2> QED  BY <2>1, <1>5, <1>6 DEF UpdatePair, Set, SetAsk, Ask
<1>7. ASSUME NEW c \in DOMAIN ask, c # Crypto
      PROVE  /\ graph'[<<c, USD>>] = graph[<<c, USD>>] /\ graph'[<<USD, c>>] = graph[<<USD, c>>]
             /\ ask'[c] = ask[c]
  <2>1. <<c, USD>> \in DOMAIN graph /\ <<USD, c>> \in DOMAIN graph /\ c \in Cryptos
    BY DEF TypeInv, TypeOK, AskEdges
  <2>2. <<c, USD>> \notin DOMAIN PairBids(p) /\ <<USD, c>> \notin DOMAIN PairBids(p)
    BY <1>5, <1>7, <2>1, AssetAssumption DEF Pairs
  <2> QED  BY <2>1, <2>2, <1>7 DEF UpdatePair, Set, SetAsk
<1> HIDE DEF p
<1>8. pc = "pair" /\ NextPair /\ UNCHANGED <<missed, faults, fiat>>
  BY DEF UpdatePair
<1>9. pc' \in {"pair", "cross"}
  BY <1>8, EarlierPairs DEF TypeInv
<1>10. Idle' /\ CrossedRates' /\ FiatRatesSet'
  BY <1>9 DEF Idle, CrossedRates, FiatRatesSet, Crossed
<1>11. AsksKept'
  BY <1>4, <1>6, <1>7, <1>8 DEF AsksKept, RoundInv
<1>12. Refreshed'
  <2> SUFFICES ASSUME NEW c \in DOMAIN prices' \cap DOMAIN ask'
               PROVE  /\ graph'[<<c, USD>>] = prices'[c][1] /\ ask'[c] = prices'[c][2]
                      /\ Fresh' => graph'[<<USD, c>>] = -prices'[c][2]
    BY DEF Refreshed
  <2>1. CASE c = Crypto
    BY <2>1, <1>3, <1>4, <1>6
  <2>2. CASE c # Crypto
    <3>1. c \in DOMAIN prices \cap DOMAIN ask /\ prices'[c] = prices[c]
      BY <2>2, <1>3, <1>4
    <3> QED  BY <2>2, <3>1, <1>7, <1>8 DEF Refreshed, RoundInv, InRound, Fresh
  <2> QED  BY <2>1, <2>2
<1>13. Refreshing'
  <2>1. pair \in 1 .. Len(CryptoPairs) /\ CryptoPairs[pair] = Crypto
    BY DEF TypeInv, TypeOK, Crypto
  <2>2. /\ pc' = "pair" => pair' = pair + 1
        /\ pc' = "cross" => pair = Len(CryptoPairs)
    BY <1>8, EarlierPairs DEF TypeInv
  <2>3. pc' = "pair" => \A c \in DOMAIN prices' : \E i \in 1 .. pair' - 1 : CryptoPairs[i] = c
    <3> SUFFICES ASSUME pc' = "pair", NEW c \in DOMAIN prices'
                 PROVE  \E i \in 1 .. pair : CryptoPairs[i] = c
      <4>1. pc' = "pair" => pair' - 1 = pair
        BY <2>1, <2>2
      <4> QED  BY <4>1
    <3>1. CASE c = Crypto
      BY <2>1, <3>1
    <3>2. CASE c \in DOMAIN prices
      <4>1. PICK i \in 1 .. pair - 1 : CryptoPairs[i] = c
        BY <3>2, <1>8 DEF RoundInv, Refreshing
      <4> QED  BY <4>1, <2>1
    <3> QED  BY <3>1, <3>2, <1>3
  <2>4. ~missed => \A i \in 1 .. pair : CryptoPairs[i] \in DOMAIN prices'
    <3> SUFFICES ASSUME ~missed, NEW i \in 1 .. pair PROVE CryptoPairs[i] \in DOMAIN prices'
      OBVIOUS
    <3>1. CASE i = pair
      BY <3>1, <2>1, <1>3
    <3>2. CASE i \in 1 .. pair - 1
      BY <3>2, <1>3, <1>8 DEF RoundInv, Refreshing
    <3> QED  BY <3>1, <3>2, <2>1
  <2>5. pc' = "pair" /\ ~missed' => \A i \in 1 .. pair' - 1 : CryptoPairs[i] \in DOMAIN prices'
    BY <2>1, <2>2, <2>4, <1>8
  <2>6. pc' = "cross" /\ ~missed' => Cryptos \subseteq DOMAIN prices'
    BY <2>1, <2>2, <2>4, <1>8, LastPair
  <2> QED  BY <2>3, <2>5, <2>6, <1>9 DEF Refreshing, Crossed
<1> QED  BY <1>10, <1>11, <1>12, <1>13 DEF RoundInv

LEMMA UpdatePairFailsRound ==
  ASSUME TypeInv, RoundInv, UpdatePairFails
  PROVE  RoundInv'
<1>1. /\ pc = "pair" /\ NextPair /\ UNCHANGED <<prices, fiat>>
      /\ faults' # 0 /\ missed' = TRUE
  BY DEF UpdatePairFails, Fault, TypeInv, TypeOK
<1>2. ~Fresh'
  BY <1>1 DEF Fresh
<1>3. /\ \A i \in 1 .. pair - 1 : CryptoPairs[i] # Crypto
      /\ pc' = "pair" => pair' = pair + 1
      /\ pc' \in {"pair", "cross"}
  BY <1>1, EarlierPairs DEF TypeInv
<1>4. Crypto \notin DOMAIN prices
  BY <1>1, <1>3 DEF RoundInv, Refreshing
<1>5. ASSUME NEW c \in DOMAIN ask, c # Crypto
      PROVE  graph'[<<c, USD>>] = graph[<<c, USD>>] /\ ask'[c] = ask[c]
  <2>1. <<c, USD>> \in DOMAIN graph
    BY DEF TypeInv, TypeOK
  <2>2. CASE UNCHANGED edges
    BY <2>2 DEF edges
  <2>3. ASSUME NEW q, graph' = Set(Of(<<Crypto, USD>>, Bid(q))), ask' = SetAsk(Crypto, q)
        PROVE  graph'[<<c, USD>>] = graph[<<c, USD>>] /\ ask'[c] = ask[c]
    BY <2>1, <2>3, <1>5 DEF Set, Of, SetAsk
  <2> QED  BY <2>2, <2>3 DEF UpdatePairFails
<1>6. DOMAIN ask' = DOMAIN ask
  BY DEF UpdatePairFails, SetAsk, edges
<1>7. Refreshed'
  BY <1>1, <1>2, <1>4, <1>5, <1>6 DEF Refreshed, RoundInv, InRound
<1>8. Refreshing'
  <2>1. pc' = "pair" => \A c \in DOMAIN prices' : \E i \in 1 .. pair' - 1 : CryptoPairs[i] = c
    <3> SUFFICES ASSUME pc' = "pair", NEW c \in DOMAIN prices
                 PROVE  \E i \in 1 .. pair' - 1 : CryptoPairs[i] = c
      BY <1>1
    <3>1. PICK i \in 1 .. pair - 1 : CryptoPairs[i] = c
      BY <1>1 DEF RoundInv, Refreshing
    <3>2. i \in 1 .. pair' - 1
      BY <1>3 DEF TypeInv, TypeOK
    <3> QED  BY <3>1, <3>2
  <2> QED  BY <2>1, <1>1, <1>2, <1>3 DEF Refreshing, Crossed
<1> QED
  BY <1>1, <1>2, <1>3, <1>7, <1>8 DEF RoundInv, Idle, AsksKept, CrossedRates, FiatRatesSet

LEMMA NoQuoteRound ==
  ASSUME TypeInv, RoundInv, NoQuote
  PROVE  RoundInv'
<1>1. /\ pc = "pair" /\ NextPair /\ missed' = TRUE
      /\ UNCHANGED <<prices, fiat, graph, ask, faults>>
  BY DEF NoQuote, edges
<1>2. /\ pc' = "pair" => pair' = pair + 1
      /\ pc' \in {"pair", "cross"}
  BY <1>1, EarlierPairs DEF TypeInv
<1>3. Refreshing'
  <2>1. pc' = "pair" => \A c \in DOMAIN prices' : \E i \in 1 .. pair' - 1 : CryptoPairs[i] = c
    <3> SUFFICES ASSUME pc' = "pair", NEW c \in DOMAIN prices
                 PROVE  \E i \in 1 .. pair' - 1 : CryptoPairs[i] = c
      BY <1>1
    <3>1. PICK i \in 1 .. pair - 1 : CryptoPairs[i] = c
      BY <1>1 DEF RoundInv, Refreshing
    <3>2. i \in 1 .. pair' - 1
      BY <1>2 DEF TypeInv, TypeOK
    <3> QED  BY <3>1, <3>2
  <2> QED  BY <2>1, <1>1, <1>2 DEF Refreshing, Crossed
<1>4. Refreshed'
  BY <1>1 DEF RoundInv, Refreshed, InRound, Fresh
<1> QED
  BY <1>1, <1>2, <1>3, <1>4 DEF RoundInv, Idle, AsksKept, CrossedRates, FiatRatesSet, Crossed

\* Rates of no crypto and USD are set.
LEMMA UsdEdgesKept ==
  ASSUME TypeInv, NEW b, Set(b) = graph' \/ SetSome(b),
         \A c \in Cryptos : <<c, USD>> \notin DOMAIN b /\ <<USD, c>> \notin DOMAIN b
  PROVE  /\ DOMAIN graph' = DOMAIN graph
         /\ \A c \in DOMAIN ask :
              graph'[<<c, USD>>] = graph[<<c, USD>>] /\ graph'[<<USD, c>>] = graph[<<USD, c>>]
<1>1. \A c \in DOMAIN ask : c \in Cryptos /\ <<c, USD>> \in DOMAIN graph /\ <<USD, c>> \in DOMAIN graph
  BY DEF TypeInv, TypeOK, AskEdges
<1>2. CASE graph' = Set(b)
  BY <1>1, <1>2 DEF Set
<1>3. ASSUME NEW S, graph' = Set(Restrict(b, DOMAIN b \cap S))
      PROVE  /\ DOMAIN graph' = DOMAIN graph
             /\ \A c \in DOMAIN ask :
                  graph'[<<c, USD>>] = graph[<<c, USD>>] /\ graph'[<<USD, c>>] = graph[<<USD, c>>]
  BY <1>1, <1>3 DEF Set, Restrict
<1> QED  BY <1>2, <1>3 DEF SetSome

LEMMA CrossRatesRound ==
  ASSUME TypeInv, RoundInv, CrossRates \/ CrossRatesIncomplete
  PROVE  RoundInv'
<1> PICK C \in SUBSET Cryptos : prices' = Filled(C) /\ (CrossRates => C = Cryptos)
  BY DEF CrossRates, CrossRatesIncomplete
<1>1. /\ pc = "cross" /\ pc' \in {"fiat", "edges"} /\ graph' = Set(CrossBids(prices'))
      /\ UNCHANGED <<ask, fiat>>
  BY DEF CrossRates, CrossRatesIncomplete, AfterCross
<1>2. Fresh' => CrossRates /\ UNCHANGED <<faults, missed>>
  BY DEF CrossRates, CrossRatesIncomplete, Fault, Fresh, TypeInv, TypeOK
<1>3. QuotesOf(prices') /\ DOMAIN prices' = DOMAIN prices \cup (C \cap DOMAIN ask)
  BY FilledTypes DEF TypeInv
<1>4. \A c \in DOMAIN prices : prices'[c] = prices[c]
  BY DEF Filled, ++
<1>5. \A c \in DOMAIN prices' \ DOMAIN prices : prices'[c] = <<graph[<<c, USD>>], ask[c]>>
  BY <1>3 DEF Filled, ++
<1>6. \A c \in DOMAIN ask :
        graph'[<<c, USD>>] = graph[<<c, USD>>] /\ graph'[<<USD, c>>] = graph[<<USD, c>>]
  <2>1. \A c \in Cryptos : /\ <<c, USD>> \notin DOMAIN CrossBids(prices')
                          /\ <<USD, c>> \notin DOMAIN CrossBids(prices')
    BY <1>3, UsdEdges, Parts DEF TypeInv
  <2> QED  BY <2>1, <1>1, UsdEdgesKept
<1>7. faults' = 0 => faults = 0
  BY DEF CrossRates, CrossRatesIncomplete, Fault, TypeInv, TypeOK
<1>8. AsksKept'
  BY <1>1, <1>6, <1>7 DEF RoundInv, AsksKept
<1>9. Refreshed'
  <2> SUFFICES ASSUME NEW c \in DOMAIN prices' \cap DOMAIN ask
               PROVE  /\ graph'[<<c, USD>>] = prices'[c][1] /\ ask'[c] = prices'[c][2]
                      /\ Fresh' => graph'[<<USD, c>>] = -prices'[c][2]
    BY <1>1 DEF Refreshed
  <2>1. CASE c \in DOMAIN prices
    BY <2>1, <1>1, <1>2, <1>4, <1>6 DEF RoundInv, Refreshed, InRound, Fresh
  <2>2. CASE c \notin DOMAIN prices
    <3>1. prices'[c][1] = graph[<<c, USD>>] /\ prices'[c][2] = ask[c]
      BY <2>2, <1>5
    <3>2. Fresh' => faults = 0
      BY <2>2, <1>1, <1>2 DEF RoundInv, Refreshing, Fresh, TypeInv, TypeOK
    <3>3. Fresh' => graph[<<USD, c>>] = -ask[c]
      BY <3>2 DEF RoundInv, AsksKept
    <3> QED  BY <3>1, <3>3, <1>1, <1>6
  <2> QED  BY <2>1, <2>2
<1>10. Fresh' => DOMAIN ask \subseteq DOMAIN prices'
  BY <1>2, <1>3 DEF TypeInv, TypeOK
<1>11. Refreshing'
  BY <1>1, <1>10 DEF Refreshing
<1>12. CrossedRates'
  <2> SUFFICES ASSUME Fresh', NEW c \in Cryptos, NEW d \in Cryptos, <<c, d>> \in DOMAIN graph'
               PROVE  graph'[<<c, d>>] = prices'[c][1] - prices'[d][2]
    BY DEF CrossedRates
  <2>1. <<c, d>> \in DOMAIN graph /\ c # d
    BY <1>1 DEF Set, TypeInv, TypeOK, Pairs
  <2>2. c \in DOMAIN ask /\ d \in DOMAIN ask
    BY <2>1, AssetAssumption DEF TypeInv, AskEdges, Beside
  <2>3. <<c, d>> \in DOMAIN CrossBids(prices')
    BY <2>1, <2>2, <1>10 DEF CrossBids, Pairs
  <2> QED  BY <2>1, <2>3, <1>1 DEF Set, CrossBids, Bid, Ask
<1> QED  BY <1>1, <1>8, <1>9, <1>11, <1>12 DEF RoundInv, Idle, FiatRatesSet

LEMMA FiatEdgesRound ==
  ASSUME TypeInv, RoundInv, UpdateFiatEdges \/ UpdateFiatEdgesFails
  PROVE  RoundInv'
<1> DEFINE b == FiatBids(fiat) ++ MixedBids(prices, fiat)
<1>1. /\ pc = "edges" /\ pc' = "sleep" /\ UNCHANGED <<ask, fiat, prices>>
      /\ graph' = Set(b) \/ SetSome(b)
  BY DEF UpdateFiatEdges, UpdateFiatEdgesFails
<1>2. Fresh' => graph' = Set(b) /\ Fresh
  BY DEF UpdateFiatEdges, UpdateFiatEdgesFails, Fault, Fresh, TypeInv, TypeOK
<1>3. \A c, d \in Cryptos :
        <<c, USD>> \notin DOMAIN b /\ <<USD, c>> \notin DOMAIN b /\ <<c, d>> \notin DOMAIN b
  BY Parts, AssetAssumption, SMTT(20) DEF TypeInv, FiatBids, MixedBids, ++, Pairs, QuotesOf, FiatsOf
<1>4. b' = b
  BY <1>1
<1> HIDE DEF b
<1>5. /\ DOMAIN graph' = DOMAIN graph
      /\ \A c \in DOMAIN ask :
           graph'[<<c, USD>>] = graph[<<c, USD>>] /\ graph'[<<USD, c>>] = graph[<<USD, c>>]
  BY <1>1, <1>3, UsdEdgesKept
<1>6. faults' = 0 => faults = 0
  BY DEF UpdateFiatEdges, UpdateFiatEdgesFails, Fault, TypeInv, TypeOK
<1>7. AsksKept'
  BY <1>1, <1>5, <1>6 DEF RoundInv, AsksKept
<1>8. Refreshed'
  BY <1>1, <1>2, <1>5 DEF RoundInv, Refreshed, InRound
<1>9. Refreshing'
  BY <1>1, <1>2 DEF RoundInv, Refreshing, Crossed
<1>10. CrossedRates'
  <2> SUFFICES ASSUME Fresh', NEW c \in Cryptos, NEW d \in Cryptos, <<c, d>> \in DOMAIN graph
               PROVE  graph'[<<c, d>>] = prices[c][1] - prices[d][2]
    BY <1>1, <1>5 DEF CrossedRates
  <2>1. graph'[<<c, d>>] = graph[<<c, d>>]
    BY <1>2, <1>3 DEF Set
  <2> QED  BY <2>1, <1>1, <1>2 DEF RoundInv, CrossedRates, Crossed
<1>11. FiatRatesSet'
  <2>1. Fresh' => \A e \in DOMAIN graph \cap DOMAIN b : graph'[e] = b[e]
    BY <1>2 DEF Set
  <2>2. Fresh' => \A e \in DOMAIN graph' \cap DOMAIN b' : graph'[e] = b'[e]
    BY <2>1, <1>4, <1>5
  <2> QED  BY <2>2, <1>1 DEF FiatRatesSet, b
<1> QED  BY <1>1, <1>7, <1>8, <1>9, <1>10, <1>11 DEF RoundInv, Idle

LEMMA OtherRound ==
  ASSUME TypeInv, RoundInv,
         \/ InitGraphFails \/ Shutdown \/ CrossRatesFail \/ RefreshFiatCache \/ RefreshFails
         \/ CommitFails \/ Wake \/ Detect \/ UNCHANGED vars
  PROVE  RoundInv'
<1> USE DEF RoundInv
<1>1. CASE InitGraphFails
  BY <1>1, Empty DEF InitGraphFails, Launch, edges, TypeInv, TypeOK, Idle, AsksKept, Refreshed,
     Refreshing, CrossedRates, FiatRatesSet, Crossed
<1>2. CASE Shutdown
  BY <1>2, Empty DEF Shutdown, edges, Idle, AsksKept, Refreshed, Refreshing, CrossedRates,
     FiatRatesSet, Crossed, InRound
<1>3. CASE CrossRatesFail
  BY <1>3 DEF CrossRatesFail, Fault, TypeInv, TypeOK, Idle, AsksKept, Refreshed, Refreshing,
     CrossedRates, FiatRatesSet, Crossed, InRound
<1>4. CASE RefreshFiatCache \/ RefreshFails
  BY <1>4 DEF RefreshFiatCache, RefreshFails, edges, Idle, AsksKept, Refreshed, Refreshing,
     CrossedRates, FiatRatesSet, Crossed, InRound, Fresh
<1>5. CASE CommitFails
  BY <1>5 DEF CommitFails, Fault, TypeInv, TypeOK, Idle, AsksKept, Refreshed, Refreshing,
     CrossedRates, FiatRatesSet, Crossed, InRound
<1>6. CASE Wake
  BY <1>6, Empty DEF Wake, edges, Idle, AsksKept, Refreshed, Refreshing, CrossedRates,
     FiatRatesSet, Crossed
<1>7. CASE Detect \/ UNCHANGED vars
  <2>1. UNCHANGED <<pc, pair, prices, fiat, graph, ask, missed, faults>>
    BY <1>7 DEF Detect, vars, edges
  <2> QED  BY <2>1 DEF Idle, AsksKept, Refreshed, Refreshing, CrossedRates, FiatRatesSet, Fresh
<1> QED  BY <1>1, <1>2, <1>3, <1>4, <1>5, <1>6, <1>7

LEMMA RoundInit == Init => RoundInv
BY Empty DEF Init, RoundInv, Idle, AsksKept, Refreshed, Refreshing, CrossedRates, FiatRatesSet,
   Crossed, InRound

LEMMA RoundStep == TypeInv /\ RoundInv /\ [Next]_vars => RoundInv'
BY InitGraphRound, UpdatePairRound, UpdatePairFailsRound, NoQuoteRound, CrossRatesRound,
   FiatEdgesRound, OtherRound
   DEF Next, FromLob, FromTicks

\* Every asset has a worth (in USD, as a logarithm), and no exchange gives more
\* than what it takes is worth: along a path the gains are at most the worth of
\* its start less that of its end, so no cycle gains.
WorthExists ==
  \E worth \in [Assets -> Int] :
    \A e \in DOMAIN graph : graph[e] <= worth[e[1]] - worth[e[2]]

SettledRatesHaveWorth == pc = "sleep" /\ Fresh /\ Uncrossed /\ Known => WorthExists

LEMMA WorthIsFound ==
  ASSUME TypeInv, RoundInv, pc = "sleep", Fresh, Uncrossed, Known
  PROVE  WorthExists
<1> DEFINE worth == [a \in Assets |-> IF a \in DOMAIN ask THEN ask[a]
                                    ELSE IF a \in DOMAIN fiat THEN -fiat[a] ELSE 0]
           b == FiatBids(fiat) ++ MixedBids(prices, fiat)
<1>1. /\ DOMAIN ask \subseteq Cryptos /\ \A c \in DOMAIN ask : ask[c] \in Int
      /\ FiatsOf(fiat) /\ QuotesOf(prices)
  BY Parts DEF TypeInv, TypeOK
<1>2. worth \in [Assets -> Int]
  BY <1>1 DEF FiatsOf
<1>3. worth[USD] = 0
  BY <1>1, AssetAssumption DEF FiatsOf, Assets
<1>4. \A c \in DOMAIN ask : /\ worth[c] = ask[c]
                          /\ c \in DOMAIN prices /\ prices[c][1] <= ask[c] /\ prices[c][2] = ask[c]
                          /\ graph[<<c, USD>>] <= ask[c] /\ graph[<<USD, c>>] = -ask[c]
  <2> SUFFICES ASSUME NEW c \in DOMAIN ask
               PROVE  /\ worth[c] = ask[c]
                      /\ c \in DOMAIN prices /\ prices[c][1] <= ask[c] /\ prices[c][2] = ask[c]
                      /\ graph[<<c, USD>>] <= ask[c] /\ graph[<<USD, c>>] = -ask[c]
    OBVIOUS
  <2>1. worth[c] = ask[c]
    BY <1>1 DEF Assets
  <2>2. c \in DOMAIN prices
    BY DEF RoundInv, Refreshing, Crossed
  <2>3. /\ graph[<<c, USD>>] = prices[c][1] /\ ask[c] = prices[c][2]
        /\ graph[<<USD, c>>] = -prices[c][2]
    BY <2>2 DEF RoundInv, Refreshed, InRound
  <2> QED  BY <2>1, <2>2, <2>3 DEF Uncrossed
<1>5. \A f \in DOMAIN fiat : worth[f] = -fiat[f] /\ fiat[f] \in Int /\ f \in Fiats
  BY <1>1, AssetAssumption DEF FiatsOf, Assets
<1> HIDE DEF worth
<1>6. \A c \in DOMAIN prices : prices[c][1] \in Int /\ prices[c][2] \in Int
  BY <1>1 DEF QuotesOf, Quotes
<1>7. ASSUME NEW e \in DOMAIN graph PROVE graph[e] <= worth[e[1]] - worth[e[2]]
  <2>1. PICK x \in Assets, y \in Assets : e = <<x, y>> /\ x # y
    BY DEF TypeInv, TypeOK, Pairs
  <2>2. x \in Beside(DOMAIN ask) /\ y \in Beside(DOMAIN ask)
    BY <2>1 DEF TypeInv, AskEdges
  <2>3. {x, y} \cap Fiats \subseteq DOMAIN fiat
    BY <2>1 DEF Known, NodesOf
  <2>4. e \in DOMAIN b => graph[e] = b[e]
    BY DEF RoundInv, FiatRatesSet
  <2> SUFFICES graph[<<x, y>>] <= worth[x] - worth[y]
    BY <2>1
  <2> DEFINE Asked(c) == /\ ask[c] \in Int /\ worth[c] = ask[c] /\ c \in DOMAIN prices
                         /\ prices[c][1] \in Int /\ prices[c][1] <= ask[c] /\ prices[c][2] = ask[c]
                         /\ graph[<<c, USD>>] \in Int
                         /\ graph[<<c, USD>>] <= ask[c] /\ graph[<<USD, c>>] = -ask[c]
  <2>a. ASSUME NEW c \in DOMAIN ask PROVE Asked(c)
    <3>1. ask[c] \in Int /\ graph[<<c, USD>>] \in Int
      BY DEF TypeInv, TypeOK
    <3> QED  BY <3>1, <1>4, <1>6
  <2>5. CASE x \in DOMAIN ask /\ y = USD
    <3>1. Asked(x)
      BY <2>5, <2>a
    <3> QED  BY <3>1, <2>5, <1>3
  <2>6. CASE x = USD /\ y \in DOMAIN ask
    <3>1. Asked(y)
      BY <2>6, <2>a
    <3> QED  BY <3>1, <2>6, <1>3
  <2>7. CASE x \in DOMAIN ask /\ y \in DOMAIN ask
    <3>1. graph[<<x, y>>] = prices[x][1] - prices[y][2]
      BY <2>7, <2>1, <1>1 DEF RoundInv, CrossedRates, Crossed
    <3>2. Asked(x) /\ Asked(y)
      BY <2>7, <2>a
    <3> QED  BY <3>1, <3>2
  <2>8. CASE x = USD /\ y \in DOMAIN fiat
    <3>1. <<x, y>> \in DOMAIN b /\ b[<<x, y>>] = fiat[y] - 1
      BY <2>8, <2>1, <1>1 DEF FiatBids, ++, Pairs
    <3> QED  BY <3>1, <2>1, <2>4, <2>8, <1>3, <1>5
  <2>9. CASE x \in DOMAIN fiat /\ y = USD
    <3>1. <<x, y>> \in DOMAIN b /\ b[<<x, y>>] = -(fiat[x] + 1)
      BY <2>9, <2>1, <1>1 DEF FiatBids, ++, Pairs
    <3> QED  BY <3>1, <2>1, <2>4, <2>9, <1>3, <1>5
  <2>10. CASE x \in DOMAIN fiat /\ y \in DOMAIN fiat
    <3>1. <<x, y>> \in DOMAIN b /\ b[<<x, y>>] = fiat[y] - fiat[x] - 2
      BY <2>10, <2>1, <1>5, AssetAssumption, SMTT(20) DEF FiatBids, ++, Pairs
    <3> QED  BY <3>1, <2>1, <2>4, <2>10, <1>5
  <2>11. CASE x \in DOMAIN ask /\ y \in DOMAIN fiat
    <3>1. <<x, y>> \in DOMAIN b /\ b[<<x, y>>] = prices[x][1] + fiat[y]
      BY <2>11, <2>1, <1>1, <1>4, <1>5, AssetAssumption DEF FiatBids, MixedBids, ++, Pairs, Bid
    <3>2. Asked(x) /\ worth[y] = -fiat[y] /\ fiat[y] \in Int
      BY <2>11, <2>a, <1>5
    <3> QED  BY <3>1, <3>2, <2>1, <2>4
  <2>12. CASE x \in DOMAIN fiat /\ y \in DOMAIN ask
    <3>1. <<x, y>> \in DOMAIN b /\ b[<<x, y>>] = -(prices[y][2] + fiat[x])
      <4>1. y \in DOMAIN prices /\ x \in Fiats
        BY <2>12, <2>a, <1>5
      <4>2. DOMAIN prices \subseteq Cryptos /\ DOMAIN fiat \subseteq Fiats
        BY <1>1 DEF QuotesOf, FiatsOf
      <4>3. <<x, y>> \notin DOMAIN FiatBids(fiat)
        BY <4>1, <4>2, AssetAssumption DEF FiatBids, ++, Pairs
      <4>4. /\ <<x, y>> \in DOMAIN MixedBids(prices, fiat)
            /\ MixedBids(prices, fiat)[<<x, y>>] = -(prices[y][2] + fiat[x])
        BY <4>1, <4>2, <2>1, <2>12, AssetAssumption DEF MixedBids, ++, Pairs, Ask
      <4> QED  BY <4>3, <4>4 DEF ++
    <3>2. Asked(y) /\ worth[x] = -fiat[x] /\ fiat[x] \in Int
      BY <2>12, <2>a, <1>5
    <3> QED  BY <3>1, <3>2, <2>1, <2>4
  <2> QED
    BY <2>1, <2>2, <2>3, <2>5, <2>6, <2>7, <2>8, <2>9, <2>10, <2>11, <2>12 DEF Beside
<1> QED  BY <1>2, <1>7 DEF WorthExists

\* A round that had every quote and every fiat rate, and no failure, leaves
\* rates under which every asset has a worth that no exchange raises, whatever
\* the graph held before; while no statement has failed, a round that lacks
\* quotes does so too.
THEOREM SettledRatesAreWorthTheirPrice == Spec => []SettledRatesHaveWorth
<1>1. TypeInv /\ RoundInv => SettledRatesHaveWorth
  BY WorthIsFound DEF SettledRatesHaveWorth
<1> QED  BY <1>1, TypeInit, TypeStep, RoundInit, RoundStep, PTL DEF Spec

\* Nothing is gained on a cycle, if no exchange raises a worth.
LEMMA NoCycleGains ==
  ASSUME TypeInv, WorthExists
  PROVE  Profitable = {}
<1> SUFFICES ASSUME NEW c \in Cycles, IsProfitable(c, graph) PROVE FALSE
  BY DEF Profitable
<1>1. PICK worth \in [Assets -> Int] :
        \A e \in DOMAIN graph : graph[e] <= worth[e[1]] - worth[e[2]]
  BY DEF WorthExists
<1>2. /\ c \in Seq(Assets) /\ Len(c) >= 3 /\ c[1] = c[Len(c)] /\ Len(c) \in Nat \ {0}
  <2>1. c \in Seq(Assets) /\ Len(c) >= 3 /\ c[1] = c[Len(c)]
    BY CycleShape DEF Cycles
  <2> QED  BY <2>1
<1>3. \A i \in 1 .. Len(c) : worth[c[i]] \in Int
  BY <1>2
<1>4. \A i \in 1 .. Len(c) - 1 : <<c[i], c[i + 1]>> \in DOMAIN graph
  BY DEF IsProfitable
<1>5. \A e \in DOMAIN graph : graph[e] \in Int
  BY DEF TypeInv, TypeOK
<1>6. GainsOf(graph, c)
  BY <1>4, <1>5 DEF GainsOf, Gain
<1> DEFINE w == [i \in 1 .. Len(c) |-> worth[c[i]]]
<1>7. w \in [1 .. Len(c) -> Int]
  BY <1>3
<1>8. CycleProfit(c, graph) <= w[1] - w[Len(c)]
  <2>1. ASSUME NEW i \in 1 .. Len(c) - 1 PROVE Gain(graph, c, i) <= w[i] - w[i + 1]
    <3>1. <<c[i], c[i + 1]>>[1] = c[i] /\ <<c[i], c[i + 1]>>[2] = c[i + 1]
      OBVIOUS
    <3>2. i \in 1 .. Len(c) /\ i + 1 \in 1 .. Len(c)
      BY <1>2
    <3> QED  BY <1>1, <1>4, <3>1, <3>2 DEF Gain
  <2> HIDE DEF w
  <2> QED  BY <1>2, <1>6, <1>7, <2>1, GainsAtMost
<1>9. w[1] \in Int /\ w[Len(c)] = w[1]
  <2>1. 1 \in 1 .. Len(c) /\ Len(c) \in 1 .. Len(c)
    BY <1>2
  <2> QED  BY <1>2, <1>3, <2>1
<1>10. CycleProfit(c, graph) \in Int
  <2>1. PICK sum : SumsUp(sum, graph, c)
    BY <1>2, <1>6, ProfitSums
  <2>2. Len(c) \in 1 .. Len(c)
    BY <1>2
  <2> QED  BY <2>1, <2>2 DEF SumsUp
<1>11. CycleProfit(c, graph) > 0
  BY DEF IsProfitable
<1>12. \A x, y, z \in Int : (x <= y - z /\ y = z) => ~(x > 0)
  OBVIOUS
<1> QED  BY <1>8, <1>9, <1>10, <1>11, <1>12

\* Once a round without a failed statement has settled the rates no cycle
\* gains, whatever the graph held before it: what worth each asset has then
\* telescopes along the cycle. Nothing is left for the detector to find.
THEOREM SettledRatesHaveNoArbitrage == Spec => []SettledRatesAreFair
<1>1. TypeInv /\ RoundInv => SettledRatesAreFair
  BY WorthIsFound, NoCycleGains DEF SettledRatesAreFair, Fresh
<1> QED  BY <1>1, TypeInit, TypeStep, RoundInit, RoundStep, PTL DEF Spec

-----------------------------------------------------------------------------
(* The detector.                                                           *)

LEMMA AssetsAreFinite == IsFiniteSet(Assets)
<1> DEFINE n == Len(SortedAssets)
           f == [i \in 1 .. n |-> SortedAssets[i]]
<1>1. SortedAssets \in Seq(Assets) /\ ToSet(SortedAssets) = Assets
  BY AssetAssumption, OrderAssumption
<1>2. n \in Nat /\ f \in [1 .. n -> Assets] /\ \A a \in Assets : \E i \in 1 .. n : f[i] = a
  BY <1>1 DEF ToSet
<1> HIDE DEF n, f
<1>3. f \in Surjection(1 .. n, Assets)
  BY <1>2 DEF Surjection
<1>4. IsFiniteSet(1 .. n)
  BY <1>2, FS_Interval
<1> QED  BY <1>3, <1>4, FS_Surjection

LEMMA GraphIsRated ==
  ASSUME TypeInv
  PROVE  Rated(graph) /\ NodesOf(graph) \subseteq Assets
<1>1. \A e \in DOMAIN graph : /\ e = <<e[1], e[2]>> /\ e[1] \in Assets /\ e[2] \in Assets /\ e[1] # e[2]
                              /\ graph[e] \in Int
  BY DEF TypeInv, TypeOK, Pairs
<1>2. NodesOf(graph) \subseteq Assets
  BY <1>1 DEF NodesOf
<1>3. IsFiniteSet(NodesOf(graph))
  BY <1>2, AssetsAreFinite, FS_Subset
<1> QED  BY <1>1, <1>2, <1>3, OrderAssumption DEF Rated

\* The detector reads every edge and tries every node.
LEMMA AllAreRead ==
  ASSUME TypeInv, NEW order \in RowOrders
  PROVE  /\ Listing(graph, Rows(order))
         /\ Nodes \in Seq(NodesOf(graph))
         /\ \A v \in NodesOf(graph) : \E i \in 1 .. Len(Nodes) : Nodes[i] = v
<1>1. Listing(graph, Rows(order))
  <2>1. order \in Seq(Assets \X Assets)
    BY OrderAssumption
  <2>2. /\ Rows(order) \in Seq(DOMAIN graph)
        /\ \A i \in 1 .. Len(order) : order[i] \in DOMAIN graph =>
              \E j \in 1 .. Len(Rows(order)) : Rows(order)[j] = order[i]
    BY <2>1, OnlyThese DEF Rows
  <2>3. ASSUME NEW e \in DOMAIN graph PROVE \E j \in 1 .. Len(Rows(order)) : Rows(order)[j] = e
    <3>1. e = <<e[1], e[2]>> /\ e[1] \in Assets /\ e[2] \in Assets /\ e[1] # e[2]
      BY DEF TypeInv, TypeOK, Pairs
    <3>2. <<e[1], e[2]>> \in ToSet(order)
      BY <3>1, OrderAssumption
    <3>3. PICK i \in 1 .. Len(order) : order[i] = e
      BY <2>1, <3>1, <3>2, SMTT(20) DEF ToSet
    <3> QED  BY <2>2, <3>3
  <2> QED  BY <2>2, <2>3 DEF Listing
<1>2. /\ Nodes \in Seq(NodesOf(graph))
      /\ \A v \in NodesOf(graph) : \E i \in 1 .. Len(Nodes) : Nodes[i] = v
  <2>1. SortedAssets \in Seq(Assets) /\ ToSet(SortedAssets) = Assets
    BY AssetAssumption, OrderAssumption
  <2>2. /\ Nodes \in Seq(NodesOf(graph))
        /\ \A i \in 1 .. Len(SortedAssets) : SortedAssets[i] \in NodesOf(graph) =>
              \E j \in 1 .. Len(Nodes) : Nodes[j] = SortedAssets[i]
    BY <2>1, OnlyThese DEF Nodes
  <2>3. ASSUME NEW v \in NodesOf(graph) PROVE \E j \in 1 .. Len(Nodes) : Nodes[j] = v
    <3>1. v \in ToSet(SortedAssets)
      BY <2>1, GraphIsRated
    <3>2. PICK i \in 1 .. Len(SortedAssets) : SortedAssets[i] = v
      BY <2>1, <3>1 DEF ToSet
    <3> QED  BY <2>2, <3>2
  <2> QED  BY <2>2, <2>3
<1> QED  BY <1>1, <1>2

\* The profitable cycles are the circuits with a gain that the search is for.
LEMMA ProfitableIsLucrative ==
  ASSUME TypeInv, NEW c
  PROVE  c \in Profitable <=> Lucrative(graph, c)
<1>1. ASSUME c \in Profitable PROVE Lucrative(graph, c)
  <2>1. c \in SimpleCycles(Assets) /\ IsProfitable(c, graph)
    BY <1>1 DEF Profitable, Cycles
  <2>2. /\ c \in Seq(Assets) /\ Len(c) >= 3 /\ c[1] = c[Len(c)]
        /\ \A i, j \in 1 .. Len(c) - 1 : c[i] = c[j] => i = j
    BY <2>1, CycleShape
  <2>3. \A i \in 1 .. Len(c) - 1 : <<c[i], c[i + 1]>> \in DOMAIN graph
    BY <2>1 DEF IsProfitable
  <2>4. \A i \in 1 .. Len(c) : c[i] \in NodesOf(graph)
    <3>1. ASSUME NEW i \in 1 .. Len(c) - 1 PROVE c[i] \in NodesOf(graph)
      <4>1. <<c[i], c[i + 1]>>[1] = c[i]
        OBVIOUS
      <4> QED  BY <2>3, <4>1 DEF NodesOf
    <3>2. 1 \in 1 .. Len(c) - 1 /\ \A i \in 1 .. Len(c) : i \in 1 .. Len(c) - 1 \/ i = Len(c)
      BY <2>2
    <3> QED  BY <2>2, <3>1, <3>2
  <2>5. c \in Seq(NodesOf(graph))
    BY <2>2, <2>4
  <2>6. ClosedPath(graph, c)
    BY <2>2, <2>3, <2>5 DEF ClosedPath
  <2>7. Simple(c) /\ CycleProfit(c, graph) > 0
    BY <2>1, <2>2 DEF Simple, IsProfitable
  <2> QED  BY <2>6, <2>7 DEF Lucrative
<1>2. ASSUME Lucrative(graph, c) PROVE c \in Profitable
  <2>1. /\ c \in Seq(NodesOf(graph)) /\ Len(c) >= 3 /\ c[1] = c[Len(c)]
        /\ \A i \in 1 .. Len(c) - 1 : <<c[i], c[i + 1]>> \in DOMAIN graph
        /\ CycleProfit(c, graph) > 0 /\ Simple(c)
    BY <1>2 DEF Lucrative, ClosedPath
  <2>2. c \in Seq(Assets)
    BY <2>1, GraphIsRated
  <2>3. PICK m \in Nat : m = Len(c) - 1
    BY <2>1
  <2> DEFINE s == [i \in 1 .. m |-> c[i]]
  <2>4. m \in 2 .. Cardinality(Assets)
    <3>1. Len(c) <= Cardinality(Assets) + 1 /\ Cardinality(Assets) \in Nat
      BY <2>1, <2>2, AssetsAreFinite, ShortEnough, FS_CardinalityType
    <3> QED  BY <2>1, <2>3, <3>1
  <2>5. s \in [1 .. m -> Assets] /\ s \in Seq(Assets) /\ Len(s) = m /\ s[1] = c[1]
    BY <2>1, <2>2, <2>3, <2>4
  <2>6. IsInjective(s)
    BY <2>1, <2>3 DEF IsInjective, Simple
  <2>7. c = Append(s, s[1])
    <3>1. Append(s, s[1]) = [i \in 1 .. m + 1 |-> IF i = m + 1 THEN s[1] ELSE s[i]]
      BY <2>5
    <3>2. \A i \in 1 .. m + 1 : c[i] = IF i = m + 1 THEN s[1] ELSE s[i]
      <4>1. Len(c) = m + 1 /\ \A i \in 1 .. m + 1 : i # m + 1 => i \in 1 .. m
        BY <2>3
      <4> QED  BY <2>1, <2>5, <4>1
    <3>3. c = [i \in 1 .. m + 1 |-> c[i]]
      BY <2>2, <2>3
    <3> HIDE DEF s
    <3> QED  BY <3>1, <3>2, <3>3
  <2> HIDE DEF s
  <2>8. c \in SimpleCycles(Assets)
    BY <2>4, <2>5, <2>6, <2>7 DEF SimpleCycles
  <2>9. IsProfitable(c, graph)
    BY <2>1 DEF IsProfitable
  <2> QED  BY <2>8, <2>9 DEF Profitable, Cycles
<1> QED  BY <1>1, <1>2

-----------------------------------------------------------------------------
(* The queries.                                                            *)

LEMMA TwoProfit ==
  ASSUME NEW r, NEW a, NEW b, r[<<a, b>>] \in Int
  PROVE  CycleProfit(<<a, b>>, r) = r[<<a, b>>]
<1> DEFINE p == <<a, b>>
<1>1. Len(p) = 2 /\ p[1] = a /\ p[2] = b
  OBVIOUS
<1> HIDE DEF p
<1>2. GainsOf(r, p) /\ Len(p) \in Nat \ {0}
  <2>1. \A i \in 1 .. 1 : i = 1
    OBVIOUS
  <2> QED  BY <1>1, <2>1 DEF GainsOf, Gain
<1>3. PICK s : SumsUp(s, r, p)
  BY <1>2, ProfitSums
<1>4. s[1] = 0 /\ s[2] = CycleProfit(p, r) /\ s[1 + 1] = s[1] + Gain(r, p, 1)
  BY <1>1, <1>3 DEF SumsUp
<1>5. Gain(r, p, 1) = r[<<a, b>>]
  BY <1>1 DEF Gain
<1> QED  BY <1>4, <1>5 DEF p

LEMMA ThreeProfit ==
  ASSUME NEW r, NEW a, NEW b, NEW c, r[<<a, b>>] \in Int, r[<<b, c>>] \in Int
  PROVE  CycleProfit(<<a, b, c>>, r) = r[<<a, b>>] + r[<<b, c>>]
<1> DEFINE p == <<a, b, c>>
<1>1. Len(p) = 3 /\ p[1] = a /\ p[2] = b /\ p[3] = c
  OBVIOUS
<1> HIDE DEF p
<1>2. Gain(r, p, 1) = r[<<a, b>>] /\ Gain(r, p, 2) = r[<<b, c>>]
  BY <1>1 DEF Gain
<1>3. GainsOf(r, p) /\ Len(p) \in Nat \ {0}
  <2>1. \A i \in 1 .. 2 : i = 1 \/ i = 2
    OBVIOUS
  <2> QED  BY <1>1, <1>2, <2>1 DEF GainsOf
<1>4. PICK s : SumsUp(s, r, p)
  BY <1>3, ProfitSums
<1>5. /\ s[1] = 0 /\ s[3] = CycleProfit(p, r)
      /\ s[1 + 1] = s[1] + Gain(r, p, 1) /\ s[2 + 1] = s[2] + Gain(r, p, 2)
  BY <1>1, <1>4 DEF SumsUp
<1> QED  BY <1>2, <1>5 DEF p

LEMMA FourProfit ==
  ASSUME NEW r, NEW a, NEW b, NEW c, NEW d,
         r[<<a, b>>] \in Int, r[<<b, c>>] \in Int, r[<<c, d>>] \in Int
  PROVE  CycleProfit(<<a, b, c, d>>, r) = r[<<a, b>>] + r[<<b, c>>] + r[<<c, d>>]
<1> DEFINE p == <<a, b, c, d>>
<1>1. Len(p) = 4 /\ p[1] = a /\ p[2] = b /\ p[3] = c /\ p[4] = d
  OBVIOUS
<1> HIDE DEF p
<1>2. Gain(r, p, 1) = r[<<a, b>>] /\ Gain(r, p, 2) = r[<<b, c>>] /\ Gain(r, p, 3) = r[<<c, d>>]
  BY <1>1 DEF Gain
<1>3. GainsOf(r, p) /\ Len(p) \in Nat \ {0}
  <2>1. \A i \in 1 .. 3 : i = 1 \/ i = 2 \/ i = 3
    OBVIOUS
  <2> QED  BY <1>1, <1>2, <2>1 DEF GainsOf
<1>4. PICK s : SumsUp(s, r, p)
  BY <1>3, ProfitSums
<1>5. /\ s[1] = 0 /\ s[4] = CycleProfit(p, r)
      /\ s[1 + 1] = s[1] + Gain(r, p, 1) /\ s[2 + 1] = s[2] + Gain(r, p, 2)
      /\ s[3 + 1] = s[3] + Gain(r, p, 3)
  BY <1>1, <1>4 DEF SumsUp
<1> QED  BY <1>2, <1>5 DEF p

LEMMA FiveProfit ==
  ASSUME NEW r, NEW a, NEW b, NEW c, NEW d, NEW e,
         r[<<a, b>>] \in Int, r[<<b, c>>] \in Int, r[<<c, d>>] \in Int, r[<<d, e>>] \in Int
  PROVE  CycleProfit(<<a, b, c, d, e>>, r) = r[<<a, b>>] + r[<<b, c>>] + r[<<c, d>>] + r[<<d, e>>]
<1> DEFINE p == <<a, b, c, d, e>>
<1>1. Len(p) = 5 /\ p[1] = a /\ p[2] = b /\ p[3] = c /\ p[4] = d /\ p[5] = e
  OBVIOUS
<1> HIDE DEF p
<1>2. /\ Gain(r, p, 1) = r[<<a, b>>] /\ Gain(r, p, 2) = r[<<b, c>>]
      /\ Gain(r, p, 3) = r[<<c, d>>] /\ Gain(r, p, 4) = r[<<d, e>>]
  BY <1>1 DEF Gain
<1>3. GainsOf(r, p) /\ Len(p) \in Nat \ {0}
  <2>1. \A i \in 1 .. 4 : i = 1 \/ i = 2 \/ i = 3 \/ i = 4
    OBVIOUS
  <2> QED  BY <1>1, <1>2, <2>1 DEF GainsOf
<1>4. PICK s : SumsUp(s, r, p)
  BY <1>3, ProfitSums
<1>5. /\ s[1] = 0 /\ s[5] = CycleProfit(p, r)
      /\ s[1 + 1] = s[1] + Gain(r, p, 1) /\ s[2 + 1] = s[2] + Gain(r, p, 2)
      /\ s[3 + 1] = s[3] + Gain(r, p, 3) /\ s[4 + 1] = s[4] + Gain(r, p, 4)
  BY <1>1, <1>4 DEF SumsUp
<1> QED  BY <1>2, <1>5 DEF p

LEMMA EdgeOf ==
  ASSUME TypeInv, NEW a, NEW b, <<a, b>> \in DOMAIN graph
  PROVE  a \in NodesOf(graph) /\ b \in NodesOf(graph) /\ a # b /\ graph[<<a, b>>] \in Int
<1>1. <<a, b>>[1] = a /\ <<a, b>>[2] = b
  OBVIOUS
<1> QED  BY <1>1, GraphIsRated, EdgeTypes

\* Where no cycle is profitable, two, three or four exchanges around gain nothing.
LEMMA NoGainInTwo ==
  ASSUME TypeInv, Profitable = {}, NEW a, NEW b,
         <<a, b>> \in DOMAIN graph, <<b, a>> \in DOMAIN graph
  PROVE  graph[<<a, b>>] + graph[<<b, a>>] <= 0
<1> DEFINE p == <<a, b, a>>
<1>1. Len(p) = 3 /\ p[1] = a /\ p[2] = b /\ p[3] = a
  OBVIOUS
<1>2. p \in Seq(NodesOf(graph)) /\ a # b /\ graph[<<a, b>>] \in Int /\ graph[<<b, a>>] \in Int
  BY EdgeOf
<1>3. CycleProfit(p, graph) = graph[<<a, b>>] + graph[<<b, a>>]
  BY <1>2, ThreeProfit
<1> HIDE DEF p
<1>4. \A i \in 1 .. 2 : i = 1 \/ i = 2
  OBVIOUS
<1>5. ClosedPath(graph, p) /\ Simple(p)
  BY <1>1, <1>2, <1>4 DEF ClosedPath, Simple
<1>6. ~Lucrative(graph, p)
  BY ProfitableIsLucrative
<1>7. ~(CycleProfit(p, graph) > 0)
  BY <1>5, <1>6 DEF Lucrative
<1> QED  BY <1>2, <1>3, <1>7

LEMMA NoGainInThree ==
  ASSUME TypeInv, Profitable = {}, NEW a, NEW b, NEW c, a # c,
         <<a, b>> \in DOMAIN graph, <<b, c>> \in DOMAIN graph, <<c, a>> \in DOMAIN graph
  PROVE  graph[<<a, b>>] + graph[<<b, c>>] + graph[<<c, a>>] <= 0
<1> DEFINE p == <<a, b, c, a>>
<1>1. Len(p) = 4 /\ p[1] = a /\ p[2] = b /\ p[3] = c /\ p[4] = a
  OBVIOUS
<1>2. /\ p \in Seq(NodesOf(graph)) /\ a # b /\ b # c
      /\ graph[<<a, b>>] \in Int /\ graph[<<b, c>>] \in Int /\ graph[<<c, a>>] \in Int
  BY EdgeOf
<1>3. CycleProfit(p, graph) = graph[<<a, b>>] + graph[<<b, c>>] + graph[<<c, a>>]
  BY <1>2, FourProfit
<1> HIDE DEF p
<1>4. \A i \in 1 .. 3 : i = 1 \/ i = 2 \/ i = 3
  OBVIOUS
<1>5. ClosedPath(graph, p) /\ Simple(p)
  BY <1>1, <1>2, <1>4, SMTT(20) DEF ClosedPath, Simple
<1>6. ~Lucrative(graph, p)
  BY ProfitableIsLucrative
<1>7. ~(CycleProfit(p, graph) > 0)
  BY <1>5, <1>6 DEF Lucrative
<1> QED  BY <1>2, <1>3, <1>7

LEMMA NoGainInFour ==
  ASSUME TypeInv, Profitable = {}, NEW a, NEW b, NEW c, NEW d, a # c, b # d,
         <<a, b>> \in DOMAIN graph, <<b, c>> \in DOMAIN graph,
         <<c, d>> \in DOMAIN graph, <<d, a>> \in DOMAIN graph
  PROVE  graph[<<a, b>>] + graph[<<b, c>>] + graph[<<c, d>>] + graph[<<d, a>>] <= 0
<1> DEFINE p == <<a, b, c, d, a>>
<1>1. Len(p) = 5 /\ p[1] = a /\ p[2] = b /\ p[3] = c /\ p[4] = d /\ p[5] = a
  OBVIOUS
<1>2. /\ p \in Seq(NodesOf(graph)) /\ a # b /\ b # c /\ c # d /\ d # a
      /\ graph[<<a, b>>] \in Int /\ graph[<<b, c>>] \in Int
      /\ graph[<<c, d>>] \in Int /\ graph[<<d, a>>] \in Int
  BY EdgeOf
<1>3. CycleProfit(p, graph) = graph[<<a, b>>] + graph[<<b, c>>] + graph[<<c, d>>] + graph[<<d, a>>]
  BY <1>2, FiveProfit
<1> HIDE DEF p
<1>4. \A i \in 1 .. 4 : i = 1 \/ i = 2 \/ i = 3 \/ i = 4
  OBVIOUS
<1>5. ClosedPath(graph, p) /\ Simple(p)
  <2>1. \A i \in 1 .. 4 : <<p[i], p[i + 1]>> \in DOMAIN graph
    <3>1. 1 + 1 = 2 /\ 2 + 1 = 3 /\ 3 + 1 = 4 /\ 4 + 1 = 5
      OBVIOUS
    <3> QED  BY <1>1, <1>4, <3>1
  <2>2. \A i, j \in 1 .. 4 : p[i] = p[j] => i = j
    BY <1>1, <1>2, <1>4
  <2>3. Len(p) - 1 = 4 /\ Len(p) >= 3 /\ Len(p) >= 2 /\ p[1] = p[Len(p)]
    BY <1>1
  <2> QED  BY <1>2, <2>1, <2>2, <2>3 DEF ClosedPath, Simple
<1>6. ~Lucrative(graph, p)
  BY ProfitableIsLucrative
<1>7. ~(CycleProfit(p, graph) > 0)
  BY <1>5, <1>6 DEF Lucrative
<1> QED  BY <1>2, <1>3, <1>7

\* The profit p of an exchange, and of two by way of m.
Direct(p, a, b) == <<a, b>> \in DOMAIN graph /\ graph[<<a, b>>] \in Int /\ p = graph[<<a, b>>]

Via(p, a, m, b) ==
  /\ m # a /\ m # b /\ <<a, m>> \in DOMAIN graph /\ <<m, b>> \in DOMAIN graph
  /\ graph[<<a, m>>] \in Int /\ graph[<<m, b>>] \in Int
  /\ p = graph[<<a, m>>] + graph[<<m, b>>]

LEMMA RouteShape ==
  ASSUME TypeInv, NEW a, NEW b, NEW route \in Routes(a, b), NEW p, p = CycleProfit(route, graph)
  PROVE  Direct(p, a, b) \/ \E m : Via(p, a, m, b)
<1>1. /\ route = <<a, b>> \/ \E m \in NodesOf(graph) \ {a, b} : route = <<a, m, b>>
      /\ \A i \in 1 .. Len(route) - 1 : <<route[i], route[i + 1]>> \in DOMAIN graph
  BY DEF Routes
<1>2. CASE route = <<a, b>>
  <2>1. Len(route) = 2 /\ route[1] = a /\ route[2] = b
    BY <1>2
  <2>2. 1 \in 1 .. Len(route) - 1 /\ 1 + 1 = 2
    BY <2>1
  <2>3. <<a, b>> \in DOMAIN graph
    BY <1>1, <2>1, <2>2
  <2> QED  BY <1>2, <2>3, EdgeOf, TwoProfit DEF Direct
<1>3. ASSUME NEW m \in NodesOf(graph) \ {a, b}, route = <<a, m, b>>
      PROVE  Via(p, a, m, b)
  <2>1. Len(route) = 3 /\ route[1] = a /\ route[2] = m /\ route[3] = b
    BY <1>3
  <2>2. 1 \in 1 .. Len(route) - 1 /\ 1 + 1 = 2 /\ 2 \in 1 .. Len(route) - 1 /\ 2 + 1 = 3
    BY <2>1
  <2>3. <<a, m>> \in DOMAIN graph /\ <<m, b>> \in DOMAIN graph
    BY <1>1, <2>1, <2>2
  <2> QED  BY <1>3, <2>3, EdgeOf, ThreeProfit DEF Via
<1> QED  BY <1>1, <1>2, <1>3

\* A way there and back, of two exchanges each at most, is made of such cycles.
LEMMA RoutesGainNothing ==
  ASSUME TypeInv, Profitable = {}, NEW a, NEW b, NEW there \in Routes(a, b), NEW back \in Routes(b, a)
  PROVE  /\ CycleProfit(there, graph) \in Int /\ CycleProfit(back, graph) \in Int
         /\ CycleProfit(there, graph) + CycleProfit(back, graph) <= 0
<1> DEFINE E(x, y) == <<x, y>> \in DOMAIN graph
           g(x, y) == graph[<<x, y>>]
           T == CycleProfit(there, graph)
           B == CycleProfit(back, graph)
<1>a. Direct(T, a, b) \/ \E m : Via(T, a, m, b)
  BY RouteShape
<1>b. Direct(B, b, a) \/ \E m : Via(B, b, m, a)
  BY RouteShape
<1> HIDE DEF T, B
<1>1. \/ E(a, b) /\ T = g(a, b)
      \/ \E m : m # a /\ m # b /\ E(a, m) /\ E(m, b) /\ T = g(a, m) + g(m, b)
  BY <1>a DEF Direct, Via
<1>2. \/ E(b, a) /\ B = g(b, a)
      \/ \E m : m # a /\ m # b /\ E(b, m) /\ E(m, a) /\ B = g(b, m) + g(m, a)
  BY <1>b DEF Direct, Via
<1>3. \A x, y : E(x, y) => x # y /\ g(x, y) \in Int
  BY EdgeOf
<1>4. \A x, y : E(x, y) /\ E(y, x) => g(x, y) + g(y, x) <= 0
  BY NoGainInTwo
<1>5. \A x, y, z : x # z /\ E(x, y) /\ E(y, z) /\ E(z, x) => g(x, y) + g(y, z) + g(z, x) <= 0
  BY NoGainInThree
<1>6. \A x, y, z, v : x # z /\ y # v /\ E(x, y) /\ E(y, z) /\ E(z, v) /\ E(v, x) =>
        g(x, y) + g(y, z) + g(z, v) + g(v, x) <= 0
  BY NoGainInFour
<1> HIDE DEF E, g
<1>7. T \in Int /\ B \in Int /\ T + B <= 0
  <2>1. CASE E(a, b) /\ T = g(a, b) /\ E(b, a) /\ B = g(b, a)
    BY <2>1, <1>3, <1>4
  <2>2. ASSUME NEW m, m # a, m # b, E(a, m), E(m, b), T = g(a, m) + g(m, b), E(b, a), B = g(b, a)
        PROVE  T \in Int /\ B \in Int /\ T + B <= 0
    <3>1. g(a, m) + g(m, b) + g(b, a) <= 0 /\ g(a, m) \in Int /\ g(m, b) \in Int /\ g(b, a) \in Int
      <4>1. b # a
        BY <2>2, <1>3
      <4> QED  BY <2>2, <4>1, <1>3, <1>5
    <3> QED  BY <2>2, <3>1
  <2>3. ASSUME NEW m, m # a, m # b, E(b, m), E(m, a), B = g(b, m) + g(m, a), E(a, b), T = g(a, b)
        PROVE  T \in Int /\ B \in Int /\ T + B <= 0
    <3>1. g(b, m) + g(m, a) + g(a, b) <= 0 /\ g(b, m) \in Int /\ g(m, a) \in Int /\ g(a, b) \in Int
      <4>1. b # a
        BY <2>3, <1>3
      <4> QED  BY <2>3, <4>1, <1>3, <1>5
    <3> QED  BY <2>3, <3>1
  <2>4. ASSUME NEW m, m # a, m # b, E(a, m), E(m, b), T = g(a, m) + g(m, b),
               NEW k, k # a, k # b, E(b, k), E(k, a), B = g(b, k) + g(k, a)
        PROVE  T \in Int /\ B \in Int /\ T + B <= 0
    <3>1. g(a, m) \in Int /\ g(m, b) \in Int /\ g(b, k) \in Int /\ g(k, a) \in Int
      BY <2>4, <1>3
    <3>2. CASE a = b
      <4>1. g(a, m) + g(m, a) <= 0 /\ g(a, k) + g(k, a) <= 0
        BY <2>4, <3>2, <1>4
      <4> QED  BY <2>4, <3>1, <3>2, <4>1
    <3>3. CASE a # b /\ m = k
      <4>1. g(a, m) + g(m, a) <= 0 /\ g(m, b) + g(b, m) <= 0
        BY <2>4, <3>3, <1>4
      <4> QED  BY <2>4, <3>1, <3>3, <4>1
    <3>4. CASE a # b /\ m # k
      <4>1. g(a, m) + g(m, b) + g(b, k) + g(k, a) <= 0
        BY <2>4, <3>4, <1>6
      <4> QED  BY <2>4, <3>1, <4>1
    <3> QED  BY <3>2, <3>3, <3>4
  <2> QED  BY <1>1, <1>2, <2>1, <2>2, <2>3, <2>4
<1> QED  BY <1>7 DEF T, B

\* If there is a way back, a best way there can be chosen.
LEMMA BestRoute ==
  ASSUME TypeInv, Profitable = {}, NEW a, NEW b, Routes(a, b) # {}, Routes(b, a) # {}
  PROVE  ShortestPath(a, b) \in Routes(a, b)
<1>1. PICK back \in Routes(b, a) : TRUE
  OBVIOUS
<1> DEFINE P(r) == CycleProfit(r, graph)
           S == {-P(back) - P(r) : r \in Routes(a, b)}
<1>2. \A r \in Routes(a, b) : P(r) \in Int /\ P(back) \in Int /\ P(r) + P(back) <= 0
  BY RoutesGainNothing
<1> HIDE DEF P
<1>3. S \subseteq Nat /\ S # {}
  BY <1>2
<1>4. PICK x \in S : \A y \in S : x <= y
  <2> HIDE DEF S
  <2> QED  BY <1>3, LeastMember
<1>5. PICK best \in Routes(a, b) : x = -P(back) - P(best)
  OBVIOUS
<1>6. \A other \in Routes(a, b) : P(best) >= P(other)
  <2> SUFFICES ASSUME NEW other \in Routes(a, b) PROVE P(best) >= P(other)
    OBVIOUS
  <2>1. -P(back) - P(best) <= -P(back) - P(other)
    BY <1>4, <1>5
  <2>2. P(back) \in Int /\ P(best) \in Int /\ P(other) \in Int
    BY <1>2
  <2> QED  BY <2>1, <2>2
<1>7. \E route \in Routes(a, b) : \A other \in Routes(a, b) :
        CycleProfit(route, graph) >= CycleProfit(other, graph)
  BY <1>6 DEF P
<1> QED  BY <1>7 DEF ShortestPath

LEMMA QueriesGainNothing ==
  ASSUME TypeInv, Profitable = {}
  PROVE  ~QueriesGain
<1>1. ASSUME NEW a \in NodesOf(graph), Find3HopCycles(a) # {} PROVE FALSE
  <2>1. PICK cycle \in Find3HopCycles(a) : TRUE
    BY <1>1
  <2>2. PICK b \in NodesOf(graph), c \in NodesOf(graph) : cycle = <<a, b, c, a>>
    BY <2>1 DEF Find3HopCycles
  <2>3. IsInjective(Tail(cycle)) /\ IsProfitable(cycle, graph)
    BY <2>1 DEF Find3HopCycles
  <2>4. /\ Len(cycle) = 4 /\ cycle[1] = a /\ cycle[2] = b /\ cycle[3] = c /\ cycle[4] = a
        /\ Tail(cycle) = <<b, c, a>>
    BY <2>2
  <2>5. <<a, b>> \in DOMAIN graph /\ <<b, c>> \in DOMAIN graph /\ <<c, a>> \in DOMAIN graph
    <3>1. \A i \in 1 .. 3 : <<cycle[i], cycle[i + 1]>> \in DOMAIN graph
      BY <2>3, <2>4 DEF IsProfitable
    <3>2. 1 \in 1 .. 3 /\ 2 \in 1 .. 3 /\ 3 \in 1 .. 3 /\ 1 + 1 = 2 /\ 2 + 1 = 3 /\ 3 + 1 = 4
      OBVIOUS
    <3> QED  BY <2>4, <3>1, <3>2
  <2>6. /\ graph[<<a, b>>] \in Int /\ graph[<<b, c>>] \in Int /\ graph[<<c, a>>] \in Int /\ a # c
    BY <2>5, EdgeOf
  <2>7. CycleProfit(cycle, graph) = graph[<<a, b>>] + graph[<<b, c>>] + graph[<<c, a>>]
    BY <2>2, <2>6, FourProfit
  <2>8. graph[<<a, b>>] + graph[<<b, c>>] + graph[<<c, a>>] <= 0
    BY <2>5, <2>6, NoGainInThree
  <2>9. CycleProfit(cycle, graph) > 0
    BY <2>3 DEF IsProfitable
  <2>10. \A x \in Int : x <= 0 => ~(x > 0)
    OBVIOUS
  <2> QED  BY <2>6, <2>7, <2>8, <2>9, <2>10
<1>2. ASSUME NEW a, NEW b, Routes(a, b) # {}, Routes(b, a) # {}
      PROVE  ~(CycleProfit(ShortestPath(a, b), graph) + CycleProfit(ShortestPath(b, a), graph) > 0)
  <2>1. ShortestPath(a, b) \in Routes(a, b) /\ ShortestPath(b, a) \in Routes(b, a)
    BY <1>2, BestRoute
  <2>2. /\ CycleProfit(ShortestPath(a, b), graph) \in Int /\ CycleProfit(ShortestPath(b, a), graph) \in Int
        /\ CycleProfit(ShortestPath(a, b), graph) + CycleProfit(ShortestPath(b, a), graph) <= 0
    BY <2>1, RoutesGainNothing
  <2> QED  BY <2>2
<1> QED  BY <1>1, <1>2 DEF QueriesGain

LEMMA TypeInvDetects == TypeInv => DetectorIsExact
<1> SUFFICES ASSUME TypeInv, NEW order \in RowOrders, NEW cycle,
                    cycle = BellmanFordArbitrage(graph, Rows(order), Nodes)
             PROVE  IF Profitable = {} THEN cycle = <<>> /\ ~QueriesGain
                    ELSE cycle # <<>> /\ IsProfitable(cycle, graph) /\ Head(cycle) = Last(cycle)
  BY DEF DetectorIsExact
<1>1. IF \E p : Lucrative(graph, p) THEN cycle # <<>> /\ Lucrative(graph, cycle) ELSE cycle = <<>>
  BY GraphIsRated, AllAreRead, SearchIsExact
<1>2. (\E p : Lucrative(graph, p)) <=> Profitable # {}
  BY ProfitableIsLucrative
<1>3. CASE Profitable = {}
  BY <1>1, <1>2, <1>3, QueriesGainNothing
<1>4. CASE Profitable # {}
  <2>1. cycle # <<>> /\ Lucrative(graph, cycle)
    BY <1>1, <1>2, <1>4
  <2>2. IsProfitable(cycle, graph)
    BY <2>1, ProfitableIsLucrative DEF Profitable
  <2>3. cycle \in Seq(NodesOf(graph)) /\ Len(cycle) >= 3 /\ cycle[1] = cycle[Len(cycle)]
    BY <2>1 DEF Lucrative, ClosedPath
  <2>4. Head(cycle) = Last(cycle)
    BY <2>3 DEF Last
  <2> QED  BY <1>4, <2>1, <2>2, <2>4
<1> QED  BY <1>3, <1>4

\* bellman_ford_arbitrage answers exactly when some cycle of the graph gains,
\* however long it is and whatever order the rows and the nodes come in, and
\* answers with one that does; the queries gain nothing in a graph without one.
THEOREM DetectorIsAlwaysExact == Spec => []DetectorIsExact
BY TypeInvDetects, TypeInit, TypeStep, PTL DEF Spec

LEMMA SequenceIsFinite ==
  ASSUME NEW S, NEW s \in Seq(S), ToSet(s) = S
  PROVE  IsFiniteSet(S)
<1> DEFINE n == Len(s)
           f == [i \in 1 .. n |-> s[i]]
<1>1. n \in Nat /\ f \in [1 .. n -> S] /\ \A a \in S : \E i \in 1 .. n : f[i] = a
  BY DEF ToSet
<1> HIDE DEF n, f
<1>2. f \in Surjection(1 .. n, S)
  BY <1>1 DEF Surjection
<1>3. IsFiniteSet(1 .. n)
  BY <1>1, FS_Interval
<1> QED  BY <1>2, <1>3, FS_Surjection

-----------------------------------------------------------------------------
(* The rates the quantum service fetches.                                  *)

LEMMA MatrixIsRated ==
  ASSUME NEW r \in Matrices
  PROVE  Rated(r) /\ NodesOf(r) \subseteq ToSet(Symbols)
<1>1. /\ Symbols \in Seq(ToSet(Symbols)) /\ <<>> \notin ToSet(Symbols)
      /\ \A e \in DOMAIN r : /\ e = <<e[1], e[2]>> /\ e[1] \in ToSet(Symbols) /\ e[2] \in ToSet(Symbols)
                             /\ e[1] # e[2] /\ r[e] \in Int
  BY MatrixAssumption
<1>2. NodesOf(r) \subseteq ToSet(Symbols)
  BY <1>1 DEF NodesOf
<1>3. IsFiniteSet(ToSet(Symbols))
  BY <1>1, SequenceIsFinite
<1>4. IsFiniteSet(NodesOf(r))
  BY <1>2, <1>3, FS_Subset
<1> QED  BY <1>1, <1>2, <1>4 DEF Rated

LEMMA Quotient ==
  ASSUME NEW n \in Nat \ {0}, NEW q \in Nat, NEW c \in 0 .. n - 1
  PROVE  (q * n + c) \div n = q
OBVIOUS

LEMMA Remainder ==
  ASSUME NEW n \in Nat \ {0}, NEW q \in Nat, NEW c \in 0 .. n - 1
  PROVE  (q * n + c) % n = c
OBVIOUS

\* Each of n rows of n columns has its place in a list of n * n.
LEMMA Place ==
  ASSUME NEW n \in Nat, NEW i \in 1 .. n, NEW j \in 1 .. n
  PROVE  \E k \in 1 .. n * n : (k - 1) \div n = i - 1 /\ (k - 1) % n = j - 1
<1>k. PICK k : k = (i - 1) * n + j
  OBVIOUS
<1>1. PICK q \in Nat : q = i - 1 /\ q <= n - 1
  OBVIOUS
<1>2. PICK c \in 0 .. n - 1 : c = j - 1
  OBVIOUS
<1>3. n \in Nat \ {0} /\ k - 1 = q * n + c
  BY <1>k, <1>1, <1>2
<1>4. (q * n + c) \div n = q
  BY <1>3, Quotient
<1>5. (q * n + c) % n = c
  BY <1>3, Remainder
<1>6. k \in 1 .. n * n
  <2>1. q * n >= 0 /\ q * n \in Int /\ n * n \in Int
    BY <1>1
  <2>2. q * n <= (n - 1) * n
    BY <1>1
  <2>3. (n - 1) * n = n * n - n
    OBVIOUS
  <2> QED  BY <1>k, <1>1, <2>1, <2>2, <2>3
<1> QED  BY <1>1, <1>2, <1>3, <1>4, <1>5, <1>6

LEMMA MatrixIsRead ==
  ASSUME NEW r \in Matrices
  PROVE  /\ Listing(r, RateRows(r))
         /\ NodeList(r) \in Seq(NodesOf(r))
         /\ \A v \in NodesOf(r) : \E i \in 1 .. Len(NodeList(r)) : NodeList(r)[i] = v
<1> DEFINE S == ToSet(Symbols)
<1>1. PICK n \in Nat :
        /\ n = Len(Symbols) /\ Symbols \in Seq(S)
        /\ \A a \in S : \E i \in 1 .. n : Symbols[i] = a
        /\ \A i \in 1 .. n : Symbols[i] \in S
  <2>1. Symbols \in Seq(S)
    BY MatrixAssumption
  <2>2. S = {Symbols[i] : i \in DOMAIN Symbols}
    BY DEF ToSet
  <2> HIDE DEF S
  <2>3. /\ Len(Symbols) \in Nat /\ \A a \in S : \E i \in 1 .. Len(Symbols) : Symbols[i] = a
        /\ \A i \in 1 .. Len(Symbols) : Symbols[i] \in S
    BY <2>1, <2>2
  <2> QED  BY <2>1, <2>3
<1>2. PICK m \in Nat : m = n * n
  BY <1>1
<1> DEFINE l == Len(Symbols)
           listed == [i \in 1 .. l * l |-> <<Symbols[((i - 1) \div l) + 1], Symbols[((i - 1) % l) + 1]>>]
<1>a. RateRows(r) = Only(DOMAIN r, listed)
  BY DEF RateRows
<1>b. listed = [i \in 1 .. m |-> <<Symbols[((i - 1) \div n) + 1], Symbols[((i - 1) % n) + 1]>>]
  BY <1>1, <1>2
<1> HIDE DEF listed
<1>3. PICK all : /\ all = [i \in 1 .. m |-> <<Symbols[((i - 1) \div n) + 1], Symbols[((i - 1) % n) + 1]>>]
                 /\ RateRows(r) = Only(DOMAIN r, all)
  BY <1>a, <1>b, Zenon
<1>4. /\ all \in Seq({all[i] : i \in 1 .. m}) /\ Len(all) = m
      /\ RateRows(r) = Only(DOMAIN r, all)
  <2>1. all \in [1 .. m -> {all[i] : i \in 1 .. m}]
    BY <1>3
  <2>2. \A T : all \in [1 .. m -> T] => all \in Seq(T) /\ Len(all) = m
    BY <1>2
  <2> QED  BY <1>3, <2>1, <2>2
<1>5. \A i, j \in 1 .. n : \E k \in 1 .. m : all[k] = <<Symbols[i], Symbols[j]>>
  <2> SUFFICES ASSUME NEW i \in 1 .. n, NEW j \in 1 .. n
               PROVE  \E k \in 1 .. m : all[k] = <<Symbols[i], Symbols[j]>>
    OBVIOUS
  <2>2. PICK k \in 1 .. n * n : (k - 1) \div n = i - 1 /\ (k - 1) % n = j - 1
    BY Place
  <2>3. (i - 1) + 1 = i /\ (j - 1) + 1 = j
    BY <1>1
  <2>4. k \in 1 .. m
    BY <1>2, <2>2
  <2>5. all[k] = <<Symbols[((k - 1) \div n) + 1], Symbols[((k - 1) % n) + 1]>>
    BY <1>3, <2>4
  <2> QED  BY <2>2, <2>3, <2>4, <2>5
<1>6. /\ RateRows(r) \in Seq(DOMAIN r)
      /\ \A i \in 1 .. Len(all) : all[i] \in DOMAIN r =>
           \E j \in 1 .. Len(RateRows(r)) : RateRows(r)[j] = all[i]
  BY <1>4, OnlyThese, SMTT(20)
<1>7. ASSUME NEW e \in DOMAIN r PROVE \E j \in 1 .. Len(RateRows(r)) : RateRows(r)[j] = e
  <2>1. e = <<e[1], e[2]>> /\ e[1] \in S /\ e[2] \in S
    BY MatrixAssumption
  <2>2. PICK i \in 1 .. n, j \in 1 .. n : Symbols[i] = e[1] /\ Symbols[j] = e[2]
    BY <1>1, <2>1
  <2>3. PICK k \in 1 .. m : all[k] = e
    BY <1>5, <2>1, <2>2, ZenonT(40)
  <2> QED  BY <1>4, <1>6, <2>3
<1>8. /\ NodeList(r) \in Seq(NodesOf(r))
      /\ \A i \in 1 .. n : Symbols[i] \in NodesOf(r) =>
           \E j \in 1 .. Len(NodeList(r)) : NodeList(r)[j] = Symbols[i]
  BY <1>1, OnlyThese DEF NodeList
<1>9. \A v \in NodesOf(r) : \E i \in 1 .. Len(NodeList(r)) : NodeList(r)[i] = v
  BY <1>1, <1>8, MatrixIsRated, SMTT(20)
<1> QED  BY <1>6, <1>7, <1>8, <1>9 DEF Listing

\* What Bellman-Ford gives the loop is exact: a path with a gain, where there is
\* one, and no profit where there is none.
LEMMA ClassicalGains ==
  ASSUME NEW r \in Matrices, NEW bf, bf = Classical[r]
  PROVE  /\ bf.profit_pct > 0 => Len(bf.path) >= 3 /\ IsProfitable(bf.path, r)
                                 /\ bf.profit_pct = CycleProfit(bf.path, r)
         /\ (\E p : Lucrative(r, p)) => bf.profit_pct > 0
<1> DEFINE path == BellmanFordArbitrage(r, RateRows(r), NodeList(r))
<1>1. bf = IF Len(path) >= 3 THEN [path |-> path, profit_pct |-> CycleProfit(path, r)] ELSE None
  BY DEF Classical
<1>2. IF \E p : Lucrative(r, p) THEN path # <<>> /\ Lucrative(r, path) ELSE path = <<>>
  BY MatrixIsRated, MatrixIsRead, SearchIsExact
<1> HIDE DEF path
<1>3. CASE \E p : Lucrative(r, p)
  <2>1. Len(path) >= 3 /\ CycleProfit(path, r) > 0 /\ ClosedPath(r, path)
    BY <1>2, <1>3 DEF Lucrative, ClosedPath
  <2>2. IsProfitable(path, r)
    BY <2>1 DEF IsProfitable, ClosedPath
  <2>3. bf.path = path /\ bf.profit_pct = CycleProfit(path, r)
    BY <1>1, <2>1
  <2> QED  BY <2>1, <2>2, <2>3
<1>4. CASE ~ \E p : Lucrative(r, p)
  <2>1. Len(path) = 0
    BY <1>2, <1>4
  <2>2. bf.profit_pct = 0
    BY <1>1, <2>1 DEF None
  <2> QED  BY <1>4, <2>2
<1> QED  BY <1>3, <1>4

-----------------------------------------------------------------------------
(* The search of the quantum service.                                      *)

\* The doublings that Pow2(n) ends.
Doublings(f, n) == f \in [0 .. n -> Nat] /\ f[0] = 1 /\ \A i \in 1 .. n : f[i] = 2 * f[i - 1]

LEMMA PowerSteps ==
  ASSUME NEW n \in Nat
  PROVE  \E f : Doublings(f, n) /\ f[n] = Pow2(n)
<1> DEFINE Eq(h) == h = [i \in 0 .. n |-> IF i = 0 THEN 1 ELSE 2 * h[i - 1]]
           h == CHOOSE h : Eq(h)
           F == [i \in 1 .. n |-> [x \in Nat |-> 2 * x]]
<1>1. Pow2(n) = h[n]
  BY DEF Pow2
<1>2. F \in [1 .. n -> [Nat -> Nat]] /\ 1 \in Nat
  OBVIOUS
<1>3. PICK f : Runs(f, F, Nat, 1, n)
  <2> HIDE DEF F
  <2> QED  BY <1>2, Recursion
<1>4. \A i \in 1 .. n : f[i] = 2 * f[i - 1]
  <2> SUFFICES ASSUME NEW i \in 1 .. n PROVE f[i] = 2 * f[i - 1]
    OBVIOUS
  <2>1. i - 1 \in 0 .. n
    OBVIOUS
  <2>2. f[i - 1] \in Nat /\ f[i] = F[i][f[i - 1]]
    BY <1>3, <2>1 DEF Runs
  <2> QED  BY <2>2
<1>5. f \in [0 .. n -> Nat] /\ f[0] = 1
  BY <1>3 DEF Runs
<1> HIDE DEF F
<1>6. Eq(f)
  <2>1. ASSUME NEW i \in 0 .. n PROVE f[i] = IF i = 0 THEN 1 ELSE 2 * f[i - 1]
    <3>1. i # 0 => i \in 1 .. n
      OBVIOUS
    <3> QED  BY <1>4, <1>5, <3>1
  <2> QED  BY <1>5, <2>1
<1>7. Eq(h)
  <2> HIDE DEF Eq
  <2> QED  BY <1>6
<1> HIDE DEF h
<1>8. h = [i \in 0 .. n |-> IF i = 0 THEN 1 ELSE 2 * h[i - 1]]
  BY <1>7
<1> HIDE DEF Eq
<1>9. h[0] = 1 /\ \A i \in 1 .. n : h[i] = 2 * h[i - 1]
  <2>1. 0 \in 0 .. n /\ \A i \in 1 .. n : i \in 0 .. n /\ i # 0
    OBVIOUS
  <2> QED  BY <1>8, <2>1
<1> DEFINE G == {i \in 0 .. n : h[i] = f[i]}
<1>10. 0 \in G
  BY <1>5, <1>9
<1>11. ASSUME NEW i \in 0 .. n - 1, i \in G PROVE i + 1 \in G
  <2>1. i + 1 \in 1 .. n /\ i + 1 \in 0 .. n /\ (i + 1) - 1 = i
    OBVIOUS
  <2>2. h[i + 1] = 2 * h[i] /\ f[i + 1] = 2 * f[i] /\ h[i] = f[i]
    BY <1>4, <1>9, <1>11, <2>1
  <2> QED  BY <2>1, <2>2
<1> HIDE DEF G
<1>12. n \in G
  <2>1. 0 \in Nat /\ n \in Int /\ n \in 0 .. n
    OBVIOUS
  <2> QED  BY <1>10, <1>11, <2>1, UpTo
<1>13. Pow2(n) = f[n]
  BY <1>1, <1>12 DEF G
<1> QED  BY <1>4, <1>5, <1>13 DEF Doublings

LEMMA PowersOfTwo ==
  ASSUME NEW n \in Nat
  PROVE  Pow2(n) \in Nat \ {0} /\ Pow2(n) > n
<1>1. PICK f : Doublings(f, n) /\ f[n] = Pow2(n)
  BY PowerSteps
<1> DEFINE G == {i \in 0 .. n : f[i] \in Nat /\ f[i] > i}
<1>2. 0 \in G
  BY <1>1 DEF Doublings
<1>3. ASSUME NEW i \in 0 .. n - 1, i \in G PROVE i + 1 \in G
  <2>1. i + 1 \in 1 .. n /\ (i + 1) - 1 = i /\ i \in Nat
    OBVIOUS
  <2>2. f[i + 1] = 2 * f[i]
    BY <1>1, <2>1 DEF Doublings
  <2>3. f[i] \in Nat /\ f[i] > i
    BY <1>3
  <2> QED  BY <2>1, <2>2, <2>3
<1> HIDE DEF G
<1>4. n \in G
  <2>1. 0 \in Nat /\ n \in Int /\ n \in 0 .. n
    OBVIOUS
  <2> QED  BY <1>2, <1>3, <2>1, UpTo
<1> QED  BY <1>1, <1>4 DEF G

\* Doublings agree as far as they both go.
LEMMA SameDoublings ==
  ASSUME NEW n \in Nat, NEW m \in 0 .. n, NEW f, Doublings(f, m), NEW g, Doublings(g, n)
  PROVE  f[m] = g[m]
<1> DEFINE G == {i \in 0 .. m : f[i] = g[i]}
<1>1. 0 \in G
  BY DEF Doublings
<1>2. ASSUME NEW i \in 0 .. m - 1, i \in G PROVE i + 1 \in G
  <2>1. i + 1 \in 1 .. m /\ i + 1 \in 1 .. n /\ i + 1 \in 0 .. m /\ (i + 1) - 1 = i
    OBVIOUS
  <2>2. f[i + 1] = 2 * f[i] /\ g[i + 1] = 2 * g[i] /\ f[i] = g[i]
    BY <1>2, <2>1 DEF Doublings
  <2> QED  BY <2>1, <2>2
<1> HIDE DEF G
<1>3. m \in G
  <2>1. 0 \in Nat /\ m \in Int /\ m \in 0 .. m
    OBVIOUS
  <2> QED  BY <1>1, <1>2, <2>1, UpTo
<1> QED  BY <1>3 DEF G

LEMMA PowerDoubles ==
  ASSUME NEW n \in Nat
  PROVE  Pow2(n + 1) = 2 * Pow2(n)
<1>1. n + 1 \in Nat /\ n \in 0 .. n + 1 /\ n + 1 \in 1 .. n + 1 /\ (n + 1) - 1 = n
  OBVIOUS
<1>2. PICK f : Doublings(f, n) /\ f[n] = Pow2(n)
  BY PowerSteps
<1>3. PICK g : Doublings(g, n + 1) /\ g[n + 1] = Pow2(n + 1)
  BY <1>1, PowerSteps
<1>4. f[n] = g[n]
  BY <1>1, <1>2, <1>3, SameDoublings
<1>5. g[n + 1] = 2 * g[n]
  BY <1>1, <1>3 DEF Doublings
<1> QED  BY <1>2, <1>3, <1>4, <1>5

\* Three never divides a power of two.
LEMMA PowerIsNoTriple ==
  ASSUME NEW n \in Nat, NEW c \in Nat
  PROVE  Pow2(n) # 3 * c
<1>1. PICK f : Doublings(f, n) /\ f[n] = Pow2(n)
  BY PowerSteps
<1> DEFINE G == {i \in 0 .. n : \A x \in Int : f[i] # 3 * x}
<1>2. 0 \in G
  <2>1. f[0] = 1 /\ \A x \in Int : 1 # 3 * x
    BY <1>1 DEF Doublings
  <2> QED  BY <2>1
<1>3. ASSUME NEW i \in 0 .. n - 1, i \in G PROVE i + 1 \in G
  <2>1. i + 1 \in 1 .. n /\ i + 1 \in 0 .. n /\ (i + 1) - 1 = i /\ i \in 0 .. n
    OBVIOUS
  <2>2. PICK y \in Int : y = f[i]
    BY <1>1, <2>1 DEF Doublings
  <2>3. f[i + 1] = 2 * y
    BY <1>1, <2>1, <2>2 DEF Doublings
  <2>4. \A x \in Int : y # 3 * x
    BY <1>3, <2>2
  <2>5. ASSUME NEW x \in Int, 2 * y = 3 * x PROVE FALSE
    <3>1. y - x \in Int /\ x = 2 * (y - x) /\ y = 3 * (y - x)
      BY <2>5
    <3> QED  BY <2>4, <3>1
  <2> QED  BY <2>1, <2>3, <2>5
<1> HIDE DEF G
<1>4. n \in G
  <2>1. 0 \in Nat /\ n \in Int /\ n \in 0 .. n
    OBVIOUS
  <2> QED  BY <1>2, <1>3, <2>1, UpTo
<1> QED  BY <1>1, <1>4 DEF G

\* There are bits enough.
LEMMA BitsSuffice ==
  ASSUME NEW n \in Nat \ {0}
  PROVE  NData(n) \in 1 .. n /\ n <= Pow2(NData(n))
<1> DEFINE S == {d \in 1 .. n : Pow2(d) >= n}
           Fits(d) == Pow2(d) >= n /\ \A c \in 1 .. d - 1 : Pow2(c) < n
<1>1. n \in S
  BY PowersOfTwo
<1>2. S \subseteq Nat /\ S # {}
  BY <1>1
<1> HIDE DEF S
<1>3. PICK d \in S : \A c \in S : d <= c
  BY <1>2, LeastMember
<1>4. d \in 1 .. n /\ Pow2(d) >= n
  BY <1>3 DEF S
<1>5. ASSUME NEW c \in 1 .. d - 1 PROVE Pow2(c) < n
  <2>1. c \in 1 .. n /\ ~(d <= c) /\ c \in Nat
    BY <1>4
  <2>2. c \notin S
    BY <1>3, <2>1
  <2>3. Pow2(c) \in Nat
    BY <2>1, PowersOfTwo
  <2> QED  BY <2>1, <2>2, <2>3 DEF S
<1>6. NData(n) = CHOOSE b \in 1 .. n : Fits(b)
  BY DEF NData
<1>7. Fits(d)
  BY <1>4, <1>5
<1>8. NData(n) \in 1 .. n /\ Fits(NData(n))
  <2> HIDE DEF Fits
  <2> QED  BY <1>4, <1>6, <1>7
<1>9. NData(n) \in Nat
  BY <1>8
<1>10. Pow2(NData(n)) \in Nat
  BY <1>9, PowersOfTwo
<1> QED  BY <1>8, <1>10

LEMMA Modulo ==
  ASSUME NEW x \in Int, NEW n \in Nat \ {0}
  PROVE  x % n \in 0 .. n - 1
OBVIOUS

\* A basis state is decoded to a cycle's index, whatever the state.
LEMMA DecodeIsIndex ==
  ASSUME NEW s \in Int, NEW n \in Nat \ {0}
  PROVE  Decode(s, NData(n), n) \in 0 .. n - 1
<1>1. NData(n) \in Nat
  BY BitsSuffice
<1>2. PICK p \in Nat \ {0} : p = Pow2(NData(n))
  BY <1>1, PowersOfTwo
<1>3. PICK x \in Int : x = s % p
  BY Modulo
<1>4. Decode(s, NData(n), n) = x % n
  BY <1>2, <1>3 DEF Decode
<1> QED  BY <1>4, Modulo

\* The sums of bits that Reversed(i, n) ends.
BitOf(i, b) == (i \div Pow2(b)) % 2

Reversals(f, i, n) ==
  /\ f \in [0 .. n -> Int] /\ f[0] = 0
  /\ \A b \in 1 .. n : f[b] = f[b - 1] + BitOf(i, b - 1) * Pow2(n - b)

LEMMA BitIsBit ==
  ASSUME NEW i \in Nat, NEW b \in Nat
  PROVE  BitOf(i, b) \in 0 .. 1
<1>1. PICK p \in Nat \ {0} : p = Pow2(b)
  BY PowersOfTwo
<1>2. PICK q \in Int : q = i \div p
  BY <1>1
<1>3. q % 2 \in 0 .. 1
  OBVIOUS
<1> QED  BY <1>1, <1>2, <1>3 DEF BitOf

LEMMA ReversedSteps ==
  ASSUME NEW i \in Nat, NEW n \in Nat
  PROVE  \E f : Reversals(f, i, n) /\ f[n] = Reversed(i, n)
<1> DEFINE Bit(b) == (i \div Pow2(b)) % 2
           Eq(h) == h = [b \in 0 .. n |-> IF b = 0 THEN 0 ELSE h[b - 1] + Bit(b - 1) * Pow2(n - b)]
           h == CHOOSE h : Eq(h)
           F == [b \in 1 .. n |-> [x \in Int |-> x + Bit(b - 1) * Pow2(n - b)]]
<1>1. Reversed(i, n) = h[n]
  BY DEF Reversed
<1>a. \A b : Bit(b) = BitOf(i, b)
  BY DEF BitOf
<1> HIDE DEF Bit
<1>b. ASSUME NEW b \in 1 .. n PROVE Bit(b - 1) * Pow2(n - b) \in Int
  <2>1. b - 1 \in Nat /\ n - b \in Nat
    OBVIOUS
  <2>2. Pow2(n - b) \in Nat
    BY <2>1, PowersOfTwo
  <2>3. Bit(b - 1) \in Int
    BY <1>a, <2>1, BitIsBit
  <2> QED  BY <2>2, <2>3
<1>2. F \in [1 .. n -> [Int -> Int]] /\ 0 \in Int
  BY <1>b
<1>3. PICK f : Runs(f, F, Int, 0, n)
  <2> HIDE DEF F
  <2> QED  BY <1>2, Recursion
<1>4. \A b \in 1 .. n : f[b] = f[b - 1] + Bit(b - 1) * Pow2(n - b)
  <2> SUFFICES ASSUME NEW b \in 1 .. n PROVE f[b] = f[b - 1] + Bit(b - 1) * Pow2(n - b)
    OBVIOUS
  <2>1. b - 1 \in 0 .. n
    OBVIOUS
  <2>2. f[b - 1] \in Int /\ f[b] = F[b][f[b - 1]]
    BY <1>3, <2>1 DEF Runs
  <2> QED  BY <2>2
<1>5. f \in [0 .. n -> Int] /\ f[0] = 0
  BY <1>3 DEF Runs
<1> HIDE DEF F
<1>6. Eq(f)
  <2>1. ASSUME NEW b \in 0 .. n PROVE f[b] = IF b = 0 THEN 0 ELSE f[b - 1] + Bit(b - 1) * Pow2(n - b)
    <3>1. b # 0 => b \in 1 .. n
      OBVIOUS
    <3> QED  BY <1>4, <1>5, <3>1
  <2> QED  BY <1>5, <2>1
<1>7. Eq(h)
  <2> HIDE DEF Eq
  <2> QED  BY <1>6
<1> HIDE DEF h
<1>8. h = [b \in 0 .. n |-> IF b = 0 THEN 0 ELSE h[b - 1] + Bit(b - 1) * Pow2(n - b)]
  BY <1>7
<1> HIDE DEF Eq
<1>9. h[0] = 0 /\ \A b \in 1 .. n : h[b] = h[b - 1] + Bit(b - 1) * Pow2(n - b)
  <2>1. 0 \in 0 .. n /\ \A b \in 1 .. n : b \in 0 .. n /\ b # 0
    OBVIOUS
  <2> QED  BY <1>8, <2>1
<1> DEFINE G == {b \in 0 .. n : h[b] = f[b]}
<1>10. 0 \in G
  BY <1>5, <1>9
<1>11. ASSUME NEW b \in 0 .. n - 1, b \in G PROVE b + 1 \in G
  <2>1. b + 1 \in 1 .. n /\ b + 1 \in 0 .. n /\ (b + 1) - 1 = b
    OBVIOUS
  <2>2. h[b + 1] = h[b] + Bit(b) * Pow2(n - (b + 1)) /\ f[b + 1] = f[b] + Bit(b) * Pow2(n - (b + 1))
    BY <1>4, <1>9, <2>1
  <2>3. h[b] = f[b]
    BY <1>11
  <2> QED  BY <2>1, <2>2, <2>3
<1> HIDE DEF G
<1>12. n \in G
  <2>1. 0 \in Nat /\ n \in Int /\ n \in 0 .. n
    OBVIOUS
  <2> QED  BY <1>10, <1>11, <2>1, UpTo
<1>13. Reversed(i, n) = f[n]
  BY <1>1, <1>12 DEF G
<1>14. \A b \in 1 .. n : f[b] = f[b - 1] + BitOf(i, b - 1) * Pow2(n - b)
  BY <1>4, <1>a
<1> QED  BY <1>5, <1>13, <1>14 DEF Reversals

LEMMA ReversedIsNumber ==
  ASSUME NEW i \in Nat, NEW n \in Nat
  PROVE  Reversed(i, n) \in Int
<1>1. n \in 0 .. n
  OBVIOUS
<1> QED  BY <1>1, ReversedSteps, SMTT(20) DEF Reversals

LEMMA TriplesAreFinite ==
  ASSUME NEW n \in Nat, NEW T \in SUBSET [1 .. 3 -> 1 .. n]
  PROVE  IsFiniteSet(T) /\ Cardinality(T) \in Nat
<1> DEFINE N == 1 .. n
           P == N \X (N \X N)
           f == [p \in T |-> <<p[1], <<p[2], p[3]>>>>]
<1>1. IsFiniteSet(N)
  BY FS_Interval
<1>2. IsFiniteSet(P)
  BY <1>1, FS_Product
<1>3. f \in Injection(T, P)
  <2>1. \A p \in T : p \in [1 .. 3 -> N] /\ p[1] \in N /\ p[2] \in N /\ p[3] \in N
    OBVIOUS
  <2>2. f \in [T -> P]
    BY <2>1
  <2>3. ASSUME NEW p \in T, NEW q \in T, f[p] = f[q] PROVE p = q
    <3>1. p[1] = q[1] /\ p[2] = q[2] /\ p[3] = q[3]
      BY <2>3
    <3>2. \A i \in 1 .. 3 : i = 1 \/ i = 2 \/ i = 3
      OBVIOUS
    <3>3. p \in [1 .. 3 -> N] /\ q \in [1 .. 3 -> N]
      BY <2>1
    <3> QED  BY <3>1, <3>2, <3>3
  <2> HIDE DEF f
  <2> QED  BY <2>2, <2>3 DEF Injection, IsInjective
<1> HIDE DEF f, P
<1> QED  BY <1>2, <1>3, FS_Injection, FS_CardinalityType

\* Two maps that undo each other: the sets are of one size.
LEMMA Matched ==
  ASSUME NEW S, NEW T, IsFiniteSet(S), NEW f \in [S -> T], NEW g \in [T -> S],
         \A x \in S : g[f[x]] = x, \A y \in T : f[g[y]] = y
  PROVE  Cardinality(S) = Cardinality(T)
<1>1. \A x, y \in S : f[x] = f[y] => x = y
  OBVIOUS
<1>2. \A y \in T : \E x \in S : f[x] = y
  OBVIOUS
<1>3. f \in Bijection(S, T)
  BY <1>1, <1>2 DEF Bijection, Injection, Surjection, IsInjective
<1> QED  BY <1>3, FS_Bijection DEF ExistsBijection

\* The triples of different positions whose least one comes at place k, and a
\* triple turned by one place.
LeastAt(T, k) == {p \in T : \A i \in 1 .. 3 : p[k] <= p[i]}

Turn(p) == [i \in 1 .. 3 |-> IF i = 1 THEN p[3] ELSE p[i - 1]]

TurnBack(p) == [i \in 1 .. 3 |-> IF i = 3 THEN p[1] ELSE p[i + 1]]

LEMMA TurnsAround ==
  ASSUME NEW N, NEW T, T = {p \in [1 .. 3 -> N] : IsInjective(p)}, NEW p \in T
  PROVE  /\ Turn(p) \in T /\ TurnBack(p) \in T
         /\ TurnBack(Turn(p)) = p /\ Turn(TurnBack(p)) = p
         /\ Turn(p)[1] = p[3] /\ Turn(p)[2] = p[1] /\ Turn(p)[3] = p[2]
         /\ TurnBack(p)[1] = p[2] /\ TurnBack(p)[2] = p[3] /\ TurnBack(p)[3] = p[1]
<1>1. \A i : i \in 1 .. 3 <=> i = 1 \/ i = 2 \/ i = 3
  OBVIOUS
<1>2. /\ p \in [1 .. 3 -> N] /\ p[1] \in N /\ p[2] \in N /\ p[3] \in N
      /\ p[1] # p[2] /\ p[1] # p[3] /\ p[2] # p[3]
  BY <1>1 DEF IsInjective
<1>3. /\ Turn(p)[1] = p[3] /\ Turn(p)[2] = p[1] /\ Turn(p)[3] = p[2]
      /\ TurnBack(p)[1] = p[2] /\ TurnBack(p)[2] = p[3] /\ TurnBack(p)[3] = p[1]
  BY DEF Turn, TurnBack
<1>4. \A q : DOMAIN q = 1 .. 3 /\ q[1] \in N /\ q[2] \in N /\ q[3] \in N
             /\ q[1] # q[2] /\ q[1] # q[3] /\ q[2] # q[3] => IsInjective(q)
  BY <1>1 DEF IsInjective
<1>5. DOMAIN Turn(p) = 1 .. 3 /\ DOMAIN TurnBack(p) = 1 .. 3
  BY DEF Turn, TurnBack
<1>6. IsInjective(Turn(p)) /\ IsInjective(TurnBack(p))
  BY <1>2, <1>3, <1>4, <1>5
<1>7. Turn(p) \in [1 .. 3 -> N] /\ TurnBack(p) \in [1 .. 3 -> N]
  BY <1>1, <1>2 DEF Turn, TurnBack
<1>8. TurnBack(Turn(p)) = p
  <2>1. \A i \in 1 .. 3 : TurnBack(Turn(p))[i] = p[i]
    BY <1>1, <1>3 DEF TurnBack
  <2>2. TurnBack(Turn(p)) \in [1 .. 3 -> {TurnBack(Turn(p))[i] : i \in 1 .. 3}]
    BY DEF TurnBack
  <2> QED  BY <1>2, <2>1, <2>2
<1>9. Turn(TurnBack(p)) = p
  <2>1. \A i \in 1 .. 3 : Turn(TurnBack(p))[i] = p[i]
    BY <1>1, <1>3 DEF Turn
  <2>2. Turn(TurnBack(p)) \in [1 .. 3 -> {Turn(TurnBack(p))[i] : i \in 1 .. 3}]
    BY DEF Turn
  <2> QED  BY <1>2, <2>1, <2>2
<1> QED  BY <1>3, <1>6, <1>7, <1>8, <1>9

LEMMA TurnedLeast ==
  ASSUME NEW N, NEW T, T = {p \in [1 .. 3 -> N] : IsInjective(p)}, IsFiniteSet(T), NEW k \in 1 .. 2
  PROVE  Cardinality(LeastAt(T, k)) = Cardinality(LeastAt(T, k + 1))
<1> DEFINE S == LeastAt(T, k)
           R == LeastAt(T, k + 1)
           f == [p \in S |-> Turn(p)]
           g == [p \in R |-> TurnBack(p)]
<1>1. S \subseteq T /\ R \subseteq T
  BY DEF LeastAt
<1>2. IsFiniteSet(S)
  BY <1>1, FS_Subset
<1>3. \A i : i \in 1 .. 3 <=> i = 1 \/ i = 2 \/ i = 3
  OBVIOUS
<1>4. k = 1 \/ k = 2
  OBVIOUS
<1>5. ASSUME NEW p \in S PROVE Turn(p) \in R /\ TurnBack(Turn(p)) = p
  <2>1. /\ Turn(p) \in T /\ TurnBack(Turn(p)) = p
        /\ Turn(p)[1] = p[3] /\ Turn(p)[2] = p[1] /\ Turn(p)[3] = p[2]
    <3>1. p \in T
      BY <1>1
    <3> HIDE DEF S, R
    <3> QED  BY <3>1, TurnsAround, ZenonT(40)
  <2>2. p[k] <= p[1] /\ p[k] <= p[2] /\ p[k] <= p[3]
    BY <1>3 DEF LeastAt
  <2>3. Turn(p)[k + 1] = p[k]
    BY <1>4, <2>1
  <2>4. \A i \in 1 .. 3 : Turn(p)[k + 1] <= Turn(p)[i]
    BY <1>3, <2>1, <2>2, <2>3
  <2> QED  BY <2>1, <2>4 DEF LeastAt
<1>6. ASSUME NEW p \in R PROVE TurnBack(p) \in S /\ Turn(TurnBack(p)) = p
  <2>1. /\ TurnBack(p) \in T /\ Turn(TurnBack(p)) = p
        /\ TurnBack(p)[1] = p[2] /\ TurnBack(p)[2] = p[3] /\ TurnBack(p)[3] = p[1]
    <3>1. p \in T
      BY <1>1
    <3> HIDE DEF S, R
    <3> QED  BY <3>1, TurnsAround, ZenonT(40)
  <2>2. p[k + 1] <= p[1] /\ p[k + 1] <= p[2] /\ p[k + 1] <= p[3]
    BY <1>3 DEF LeastAt
  <2>3. TurnBack(p)[k] = p[k + 1]
    BY <1>4, <2>1
  <2>4. \A i \in 1 .. 3 : TurnBack(p)[k] <= TurnBack(p)[i]
    BY <1>3, <2>1, <2>2, <2>3
  <2> QED  BY <2>1, <2>4 DEF LeastAt
<1> HIDE DEF S, R
<1>7. f \in [S -> R] /\ g \in [R -> S]
  BY <1>5, <1>6
<1>8. (\A x \in S : g[f[x]] = x) /\ \A y \in R : f[g[y]] = y
  BY <1>5, <1>6
<1> HIDE DEF f, g
<1>9. Cardinality(S) = Cardinality(R)
  BY <1>2, <1>7, <1>8, Matched
<1> QED  BY <1>9 DEF S, R

\* The triples of different positions come in threes.
LEMMA TriplesInThrees ==
  ASSUME NEW n \in Nat, NEW T, T = {p \in [1 .. 3 -> 1 .. n] : IsInjective(p)}
  PROVE  \E c \in Nat : Cardinality(T) = 3 * c
<1> DEFINE A == LeastAt(T, 1)
           B == LeastAt(T, 2)
           C == LeastAt(T, 3)
<1>1. IsFiniteSet(T)
  BY TriplesAreFinite
<1>2. A \subseteq T /\ B \subseteq T /\ C \subseteq T
  BY DEF LeastAt
<1>3. IsFiniteSet(A) /\ IsFiniteSet(B) /\ IsFiniteSet(C) /\ IsFiniteSet(A \cup B)
  BY <1>1, <1>2, FS_Subset, FS_Union
<1>4. Cardinality(A) = Cardinality(B) /\ Cardinality(B) = Cardinality(C)
  <2>1. 1 \in 1 .. 2 /\ 2 \in 1 .. 2 /\ 1 + 1 = 2 /\ 2 + 1 = 3
    OBVIOUS
  <2>2. PICK N : N = 1 .. n
    OBVIOUS
  <2>3. T = {p \in [1 .. 3 -> N] : IsInjective(p)}
    BY <2>2
  <2>4. Cardinality(LeastAt(T, 1)) = Cardinality(LeastAt(T, 1 + 1))
    BY <1>1, <2>1, <2>3, TurnedLeast
  <2>5. Cardinality(LeastAt(T, 2)) = Cardinality(LeastAt(T, 2 + 1))
    BY <1>1, <2>1, <2>3, TurnedLeast
  <2> QED  BY <2>1, <2>4, <2>5
<1>5. ASSUME NEW p \in T
      PROVE  /\ p[1] \in Int /\ p[2] \in Int /\ p[3] \in Int
             /\ p[1] # p[2] /\ p[1] # p[3] /\ p[2] # p[3]
  <2>1. 1 \in 1 .. 3 /\ 2 \in 1 .. 3 /\ 3 \in 1 .. 3
    OBVIOUS
  <2> QED  BY <2>1 DEF IsInjective
<1>6. \A i : i \in 1 .. 3 <=> i = 1 \/ i = 2 \/ i = 3
  OBVIOUS
<1>7. A \cap B = {} /\ (A \cup B) \cap C = {}
  <2>1. ASSUME NEW p \in A PROVE p \in T /\ p[1] <= p[2] /\ p[1] <= p[3]
    BY <1>6 DEF LeastAt
  <2>2. ASSUME NEW p \in B PROVE p \in T /\ p[2] <= p[1] /\ p[2] <= p[3]
    BY <1>6 DEF LeastAt
  <2>3. ASSUME NEW p \in C PROVE p \in T /\ p[3] <= p[1] /\ p[3] <= p[2]
    BY <1>6 DEF LeastAt
  <2> HIDE DEF A, B, C
  <2> QED  BY <1>5, <2>1, <2>2, <2>3
<1>8. T = (A \cup B) \cup C
  <2>1. ASSUME NEW p \in T PROVE p \in A \/ p \in B \/ p \in C
    <3>1. \/ p[1] <= p[1] /\ p[1] <= p[2] /\ p[1] <= p[3]
          \/ p[2] <= p[1] /\ p[2] <= p[2] /\ p[2] <= p[3]
          \/ p[3] <= p[1] /\ p[3] <= p[2] /\ p[3] <= p[3]
      BY <1>5
    <3> QED  BY <1>6, <3>1 DEF LeastAt
  <2> HIDE DEF A, B, C
  <2> QED  BY <1>2, <2>1
<1> HIDE DEF A, B, C
<1>9. PICK c \in Nat : c = Cardinality(A)
  BY <1>3, FS_CardinalityType
<1>10. Cardinality({}) = 0
  BY FS_EmptySet
<1>11. Cardinality(A \cup B) = Cardinality(A) + Cardinality(B) - Cardinality(A \cap B)
  BY <1>3, FS_Union
<1>12. Cardinality((A \cup B) \cup C) = Cardinality(A \cup B) + Cardinality(C) - Cardinality((A \cup B) \cap C)
  BY <1>3, FS_Union
<1>13. Cardinality(A \cap B) = 0 /\ Cardinality((A \cup B) \cap C) = 0
  BY <1>7, <1>10, Zenon
<1>14. Cardinality(B) = c /\ Cardinality(C) = c
  BY <1>4, <1>9, Zenon
<1>15. Cardinality(A \cup B) = c + c - 0
  BY <1>9, <1>11, <1>13, <1>14, Zenon
<1>16. Cardinality((A \cup B) \cup C) = (c + c - 0) + c - 0
  BY <1>12, <1>13, <1>14, <1>15, Zenon
<1>17. (c + c - 0) + c - 0 = 3 * c
  OBVIOUS
<1> QED  BY <1>8, <1>16, <1>17, Zenon

\* The cycles that are enumerated are triples of nodes, and come in threes.
LEMMA CyclesAreTriples ==
  ASSUME NEW nodes, Len(nodes) \in Nat, NEW cycles, cycles = EnumerateCycles(nodes)
  PROVE  /\ Len(cycles) \in Nat
         /\ \E c \in Nat : Len(cycles) = 3 * c
         /\ \A i \in 1 .. Len(cycles) : \E x, y, z : cycles[i] = <<x, y, z>>
<1> DEFINE triples == {p \in [1 .. 3 -> 1 .. Len(nodes)] : IsInjective(p)}
<1>1. Cardinality(triples) \in Nat
  BY TriplesAreFinite
<1>2. PICK c \in Nat : c = Cardinality(triples)
  BY <1>1
<1> DEFINE Rank(p) == (p[1] * Len(nodes) + p[2]) * Len(nodes) + p[3]
           At(i) == CHOOSE p \in triples : Cardinality({q \in triples : Rank(q) <= Rank(p)}) = i
<1>3. cycles = [i \in 1 .. c |-> <<nodes[At(i)[1]], nodes[At(i)[2]], nodes[At(i)[3]]>>]
  BY <1>2 DEF EnumerateCycles
<1>a. \E b \in Nat : Cardinality(triples) = 3 * b
  <2> HIDE DEF triples
  <2>1. triples = {p \in [1 .. 3 -> 1 .. Len(nodes)] : IsInjective(p)}
    BY DEF triples
  <2> QED  BY <2>1, TriplesInThrees
<1> HIDE DEF triples, At
<1>4. DOMAIN cycles = 1 .. c
  BY <1>3
<1>5. cycles \in [1 .. c -> {cycles[i] : i \in 1 .. c}]
  BY <1>3
<1>6. \A T : cycles \in [1 .. c -> T] => Len(cycles) = c
  OBVIOUS
<1>7. Len(cycles) = c
  BY <1>5, <1>6
<1>8. \E b \in Nat : Len(cycles) = 3 * b
  BY <1>a, <1>2, <1>7, Zenon
<1>9. \A i \in 1 .. c : \E x, y, z : cycles[i] = <<x, y, z>>
  BY <1>3
<1> QED  BY <1>7, <1>8, <1>9, Zenon

LEMMA Appended ==
  ASSUME NEW T, NEW s \in Seq(T), NEW e \in T, NEW p, p = Append(s, e)
  PROVE  /\ p \in Seq(T) /\ Len(p) = Len(s) + 1 /\ Len(s) \in Nat
         /\ \A i \in 1 .. Len(s) : p[i] = s[i]
         /\ p[Len(s) + 1] = e
OBVIOUS

LEMMA ClosedTriple ==
  ASSUME NEW x, NEW y, NEW z, NEW p, p = Closed(<<x, y, z>>)
  PROVE  /\ p = <<x, y, z, x>> /\ Len(p) = 4
         /\ p[1] = x /\ p[2] = y /\ p[3] = z /\ p[4] = x
<1>0. PICK T : T = {x, y, z}
  OBVIOUS
<1>1. PICK s : s = <<x, y, z>>
  OBVIOUS
<1>2. s \in Seq(T) /\ Len(s) = 3 /\ s[1] = x /\ s[2] = y /\ s[3] = z /\ x \in T
  BY <1>0, <1>1
<1>a. s \in Seq(T) /\ x \in T
  BY <1>2
<1>3. p = Append(s, x)
  BY <1>1, <1>2 DEF Closed
<1>4. p \in Seq(T) /\ Len(p) = 4 /\ (\A i \in 1 .. 3 : p[i] = s[i]) /\ p[4] = x
  <2>1. Len(p) = Len(s) + 1 /\ p \in Seq(T) /\ (\A i \in 1 .. Len(s) : p[i] = s[i]) /\ p[Len(s) + 1] = x
    BY <1>a, <1>3, Appended
  <2> QED  BY <1>2, <2>1
<1>5. p[1] = x /\ p[2] = y /\ p[3] = z
  BY <1>2, <1>4
<1>6. p = <<x, y, z, x>>
  BY <1>4, <1>5
<1> QED  BY <1>4, <1>5, <1>6

\* A triple that gains is a cycle that gains.
LEMMA ClosedGains ==
  ASSUME NEW r, Rated(r), NEW x, NEW y, NEW z, IsProfitableCycle(<<x, y, z>>, r)
  PROVE  \E p : Lucrative(r, p)
<1> DEFINE p == Closed(<<x, y, z>>)
<1>1. p = <<x, y, z, x>> /\ Len(p) = 4 /\ p[1] = x /\ p[2] = y /\ p[3] = z /\ p[4] = x
  BY ClosedTriple
<1>2. (\A i \in 1 .. Len(p) - 1 : <<p[i], p[i + 1]>> \in DOMAIN r) /\ CycleProfit(p, r) > 0
  BY DEF IsProfitableCycle, IsProfitable
<1> HIDE DEF p
<1>3. 1 \in 1 .. 3 /\ 2 \in 1 .. 3 /\ 3 \in 1 .. 3 /\ 1 + 1 = 2 /\ 2 + 1 = 3 /\ 3 + 1 = 4 /\ 4 - 1 = 3
  OBVIOUS
<1>4. <<x, y>> \in DOMAIN r /\ <<y, z>> \in DOMAIN r /\ <<z, x>> \in DOMAIN r
  BY <1>1, <1>2, <1>3
<1>5. /\ x \in NodesOf(r) /\ y \in NodesOf(r) /\ z \in NodesOf(r)
      /\ x # y /\ y # z /\ z # x
  BY <1>4 DEF NodesOf, Rated
<1>6. p \in Seq(NodesOf(r))
  BY <1>1, <1>5
<1>7. ClosedPath(r, p)
  BY <1>1, <1>2, <1>6 DEF ClosedPath
<1>8. Simple(p)
  <2>1. \A i, j \in 1 .. 3 : p[i] = p[j] => i = j
    <3>1. \A i \in 1 .. 3 : i = 1 \/ i = 2 \/ i = 3
      OBVIOUS
    <3> QED  BY <1>1, <1>5, <3>1
  <2> QED  BY <1>1, <1>3, <2>1 DEF Simple
<1> QED  BY <1>2, <1>7, <1>8 DEF Lucrative

\* What the search returns is no path, or a path whose profit is its own; and
\* it reports or counts cycles that gain only where there is one.
Honest(found, r) ==
  /\ found.profit_pct > 0 => /\ Len(found.path) >= 3 /\ IsProfitable(found.path, r)
                             /\ found.profit_pct = CycleProfit(found.path, r)
  /\ found.profit_pct > 0 \/ found.n_profitable > 0 => \E p : Lucrative(r, p)

LEMMA NoPathIsHonest ==
  ASSUME NEW r PROVE Honest(NoPath(0), r)
BY DEF NoPath, Honest

LEMMA SearchIsHonest ==
  ASSUME NEW r \in Matrices, NEW found \in Search[r]
  PROVE  Honest(found, r)
<1> DEFINE nodes == NodeList(r)
           cycles == EnumerateCycles(nodes)
           idxs == ProfitableIdxs(cycles, r)
           n == Len(cycles)
           States == Likeliest(Circuit(cycles, r))
           Chosen(s) == cycles[Decode(s, NData(n), n) + 1]
<1>1. found \in IF Len(nodes) < 3 \/ idxs = {} THEN {NoPath(0)}
                ELSE {[path |-> Closed(Chosen(s)), profit_pct |-> ProfitPct(Chosen(s), r),
                       n_profitable |-> Cardinality(idxs)] : s \in States}
  BY DEF Search, RunGrover
<1>2. Rated(r) /\ Len(nodes) \in Nat
  BY MatrixIsRated, MatrixIsRead
<1>3. n \in Nat /\ \A i \in 1 .. n : \E x, y, z : cycles[i] = <<x, y, z>>
  <2> HIDE DEF nodes
  <2> QED  BY <1>2, CyclesAreTriples
<1>4. idxs = {i \in 0 .. n - 1 : IsProfitableCycle(cycles[i + 1], r)}
  BY DEF ProfitableIdxs
<1>5. CASE Len(nodes) < 3 \/ idxs = {}
  BY <1>1, <1>5, NoPathIsHonest
<1>6. CASE ~(Len(nodes) < 3 \/ idxs = {})
  <2>1. PICK s \in States : found = [path |-> Closed(Chosen(s)), profit_pct |-> ProfitPct(Chosen(s), r),
                                     n_profitable |-> Cardinality(idxs)]
    BY <1>1, <1>6
  <2>2. PICK i \in 0 .. n - 1 : IsProfitableCycle(cycles[i + 1], r)
    BY <1>4, <1>6
  <2>3. n \in Nat \ {0} /\ i + 1 \in 1 .. n
    BY <1>3, <2>2
  <2>4. \E p : Lucrative(r, p)
    <3>1. PICK x, y, z : cycles[i + 1] = <<x, y, z>>
      BY <1>3, <2>3
    <3> QED  BY <1>2, <2>2, <3>1, ClosedGains
  <2>5. s \in Int
    <3>1. NData(n) \in Nat
      BY <2>3, BitsSuffice
    <3>2. NData(n) + 1 \in Nat
      BY <3>1
    <3>3. Pow2(NData(n)) \in Nat /\ Pow2(NData(n) + 1) \in Nat
      BY <3>1, <3>2, PowersOfTwo
    <3>4. s \in BuildOracle(idxs, NData(n)) \cup 0 .. Pow2(NData(n) + 1) - 1
      BY DEF Likeliest, Circuit
    <3>5. CASE s \in 0 .. Pow2(NData(n) + 1) - 1
      BY <3>5
    <3>6. CASE s \in BuildOracle(idxs, NData(n))
      <4>1. PICK j \in idxs : s = Pow2(NData(n)) + Reversed(j, NData(n))
        BY <3>6 DEF BuildOracle
      <4>2. j \in Nat
        BY <1>3, <1>4
      <4>3. Reversed(j, NData(n)) \in Int
        BY <3>1, <4>2, ReversedIsNumber
      <4> QED  BY <3>3, <4>1, <4>3
    <3> QED  BY <3>4, <3>5, <3>6
  <2> HIDE DEF n, States, idxs, nodes, cycles
  <2>6. Decode(s, NData(n), n) \in 0 .. n - 1
    BY <2>3, <2>5, DecodeIsIndex
  <2>7. PICK x, y, z : Chosen(s) = <<x, y, z>>
    <3>1. Decode(s, NData(n), n) + 1 \in 1 .. n
      BY <2>3, <2>6
    <3> QED  BY <1>3, <3>1
  <2>8. PICK p : p = Closed(Chosen(s))
    OBVIOUS
  <2>9. Len(p) = 4
    BY <2>7, <2>8, ClosedTriple
  <2>10. found.path = p /\ found.profit_pct = ProfitPct(Chosen(s), r)
    BY <2>1, <2>8
  <2>11. ASSUME found.profit_pct > 0
         PROVE  Len(p) >= 3 /\ IsProfitable(p, r) /\ found.profit_pct = CycleProfit(p, r)
    <3>1. found.profit_pct = IF \A k \in 1 .. 3 : <<p[k], p[k + 1]>> \in DOMAIN r
                             THEN CycleProfit(p, r) ELSE -100
      BY <2>8, <2>10 DEF ProfitPct
    <3>2. (\A k \in 1 .. 3 : <<p[k], p[k + 1]>> \in DOMAIN r) /\ found.profit_pct = CycleProfit(p, r)
      BY <2>11, <3>1
    <3> QED  BY <2>9, <2>11, <3>2 DEF IsProfitable
  <2> QED  BY <2>4, <2>10, <2>11 DEF Honest
<1> QED  BY <1>5, <1>6

\* Only(S, s) is s, where S has all of its elements.
LEMMA OnlyAll ==
  ASSUME NEW S, NEW s \in Seq(S)
  PROVE  Only(S, s) = s
<1> DEFINE n == Len(s)
           V == Seq(S)
           Eq(h) == h = [i \in 0 .. n |->
                      IF i = 0 THEN <<>> ELSE IF s[i] \in S THEN Append(h[i - 1], s[i]) ELSE h[i - 1]]
           h == CHOOSE h : Eq(h)
           F == [i \in 1 .. n |-> [x \in V |-> IF s[i] \in S THEN Append(x, s[i]) ELSE x]]
<1>1. Only(S, s) = h[n]
  BY DEF Only
<1>2. F \in [1 .. n -> [V -> V]] /\ n \in Nat /\ <<>> \in V
  OBVIOUS
<1>3. PICK f : Runs(f, F, V, <<>>, n)
  <2> HIDE DEF F, V
  <2> QED  BY <1>2, Recursion
<1>4. \A i \in 1 .. n : f[i] = IF s[i] \in S THEN Append(f[i - 1], s[i]) ELSE f[i - 1]
  <2> SUFFICES ASSUME NEW i \in 1 .. n
               PROVE  f[i] = IF s[i] \in S THEN Append(f[i - 1], s[i]) ELSE f[i - 1]
    OBVIOUS
  <2>1. i - 1 \in 0 .. n
    OBVIOUS
  <2>2. f[i - 1] \in V /\ f[i] = F[i][f[i - 1]]
    BY <1>3, <2>1 DEF Runs
  <2> HIDE DEF V
  <2> QED  BY <2>2
<1>5. f \in [0 .. n -> V] /\ f[0] = <<>>
  BY <1>3 DEF Runs
<1> HIDE DEF F, V
<1>6. Eq(f)
  <2>1. ASSUME NEW i \in 0 .. n
        PROVE  f[i] = IF i = 0 THEN <<>> ELSE IF s[i] \in S THEN Append(f[i - 1], s[i]) ELSE f[i - 1]
    <3>1. i # 0 => i \in 1 .. n
      OBVIOUS
    <3> QED  BY <1>4, <1>5, <3>1
  <2> QED  BY <1>5, <2>1
<1>7. Eq(h)
  <2> HIDE DEF Eq
  <2> QED  BY <1>6
<1> HIDE DEF h
<1>8. h = [i \in 0 .. n |->
             IF i = 0 THEN <<>> ELSE IF s[i] \in S THEN Append(h[i - 1], s[i]) ELSE h[i - 1]]
  BY <1>7
<1>a. \A i \in 1 .. n : s[i] \in S
  OBVIOUS
<1> HIDE DEF Eq, n
<1>9. h[0] = <<>>
  <2>1. 0 \in 0 .. n
    BY <1>2
  <2> QED  BY <1>8, <2>1
<1>10. \A i \in 1 .. n : h[i] = Append(h[i - 1], s[i])
  <2>1. \A i \in 1 .. n : i \in 0 .. n /\ i # 0
    BY <1>2
  <2> QED  BY <1>8, <1>a, <2>1
<1> DEFINE Good(i) == h[i] \in Seq(S) /\ Len(h[i]) = i /\ \A k \in 1 .. i : h[i][k] = s[k]
           G == {i \in 0 .. n : Good(i)}
<1>11. 0 \in G
  <2>1. (\A k \in 1 .. 0 : FALSE) /\ <<>> \in Seq(S) /\ Len(<<>>) = 0 /\ 0 \in 0 .. n
    BY <1>2
  <2>2. Good(0)
    BY <1>9, <2>1
  <2> QED  BY <2>1, <2>2
<1>12. ASSUME NEW i \in 0 .. n - 1, i \in G PROVE i + 1 \in G
  <2>1. i + 1 \in 0 .. n /\ i + 1 \in 1 .. n /\ (i + 1) - 1 = i /\ i \in Nat
        /\ \A k \in 1 .. i + 1 : k = i + 1 \/ k \in 1 .. i
    BY <1>2
  <2>2. h[i] \in Seq(S) /\ Len(h[i]) = i /\ \A k \in 1 .. i : h[i][k] = s[k]
    BY <1>12
  <2>3. h[i + 1] = Append(h[i], s[i + 1]) /\ s[i + 1] \in S /\ h[i] \in Seq(S)
    BY <1>10, <1>a, <2>1, <2>2
  <2>4. /\ h[i + 1] \in Seq(S) /\ Len(h[i + 1]) = Len(h[i]) + 1
        /\ \A k \in 1 .. Len(h[i]) : h[i + 1][k] = h[i][k]
        /\ h[i + 1][Len(h[i]) + 1] = s[i + 1]
    BY <2>3, Appended
  <2>5. Good(i + 1)
    BY <2>1, <2>2, <2>4
  <2> QED  BY <2>1, <2>5
<1> HIDE DEF G
<1>13. n \in G
  <2>1. 0 \in Nat /\ n \in Int /\ n \in 0 .. n
    BY <1>2
  <2> QED  BY <1>11, <1>12, <2>1, UpTo
<1>14. h[n] \in Seq(S) /\ Len(h[n]) = Len(s) /\ \A k \in 1 .. Len(s) : h[n][k] = s[k]
  BY <1>13 DEF G, n
<1>15. \A t \in Seq(S) : Len(t) = Len(s) /\ (\A k \in 1 .. Len(s) : t[k] = s[k]) => t = s
  OBVIOUS
<1> QED  BY <1>1, <1>14, <1>15

\* A page of all signals has the newest ones, newest first.
LEMMA PageShows ==
  ASSUME signals \in Seq(ToSet(signals)), NEW limit \in 1 .. Len(signals),
         NEW page, page = GetSignals(limit, "ALL")
  PROVE  \A i \in 1 .. limit : page[i] = signals[Len(signals) + 1 - i]
<1> DEFINE chosen == {s \in ToSet(signals) : "ALL" = "ALL" \/ s.method = "ALL"}
           newest == Reverse(Only(chosen, signals))
<1>1. page = SubSeq(newest, 1, IF limit < Len(newest) THEN limit ELSE Len(newest))
  BY DEF GetSignals
<1>2. PICK T : T = ToSet(signals) /\ chosen = T
  OBVIOUS
<1>3. Only(T, signals) = signals
  BY <1>2, OnlyAll
<1>4. newest = Reverse(signals)
  BY <1>2, <1>3
<1> HIDE DEF chosen, newest
<1>5. PICK n \in Nat : n = Len(signals) /\ signals \in Seq(T) /\ limit \in 1 .. n
  BY <1>2
<1>6. newest = [i \in 1 .. n |-> signals[(n - i) + 1]]
  BY <1>4, <1>5 DEF Reverse
<1>7. \A i \in 1 .. n : signals[(n - i) + 1] \in T
  <2>1. \A i \in 1 .. n : (n - i) + 1 \in 1 .. n
    OBVIOUS
  <2> QED  BY <1>5, <2>1
<1>8. newest \in Seq(T) /\ Len(newest) = n
  BY <1>6, <1>7
<1>9. page = SubSeq(newest, 1, limit)
  BY <1>1, <1>5, <1>8
<1>10. \A q \in Seq(T) : \A k \in 1 .. Len(q) : \A i \in 1 .. k : SubSeq(q, 1, k)[i] = q[i]
  OBVIOUS
<1>11. \A i \in 1 .. limit : page[i] = newest[i]
  BY <1>5, <1>8, <1>9, <1>10
<1>12. \A i \in 1 .. limit : i \in 1 .. n /\ (n - i) + 1 = n + 1 - i
  BY <1>5
<1> QED  BY <1>5, <1>6, <1>11, <1>12

-----------------------------------------------------------------------------
(* The table of signals.                                                   *)

Sound(s, rounds) ==
  /\ s.method \in {"CLASSICAL", "QUANTUM"} /\ s.round \in 1 .. Len(rounds)
  /\ IsProfitable(s.path, rounds[s.round]) /\ s.profit_pct = CycleProfit(s.path, rounds[s.round])

\* A row of the graph service's detector.
Foreign(s) == s.method = "CLASSICAL" /\ s.round = 0

Precedes(s, t) ==
  \/ s.round < t.round
  \/ s.round = t.round /\ s.method = "CLASSICAL" /\ t.method = "QUANTUM"

\* The loop's last row among the first n is the classical one of a round.
ClassicalLast(table, n, round) ==
  \E h \in 1 .. n : /\ table[h].method = "CLASSICAL" /\ table[h].round = round
                    /\ \A k \in h + 1 .. n : ~Own(table[k])

\* Every signal of the loop is sound, they are in order, and one of the search
\* comes right after that of Bellman-Ford but for the detector's, unless
\* Bellman-Ford raised.
Kept(table, rounds, cut) ==
  /\ table \in Seq(ToSet(table))
  /\ \A i \in 1 .. Len(table) : Foreign(table[i]) \/ Sound(table[i], rounds)
  /\ \A i, j \in 1 .. Len(table) :
       i < j /\ Own(table[i]) /\ Own(table[j]) => Precedes(table[i], table[j])
  /\ \A i \in 1 .. Len(table) : table[i].method = "QUANTUM" /\ table[i].round \notin cut =>
       ClassicalLast(table, i - 1, table[i].round)

LEMMA KeptIsKept ==
  ASSUME NEW table, NEW rounds, NEW cut, Kept(table, rounds, cut), Len(rounds) \in Nat,
         NEW later, NEW more, cut \subseteq more, Len(later) \in Nat, Len(rounds) <= Len(later),
         \A k \in 1 .. Len(rounds) : later[k] = rounds[k]
  PROVE  Kept(table, later, more)
<1>1. ASSUME NEW i \in 1 .. Len(table) PROVE Foreign(table[i]) \/ Sound(table[i], later)
  <2>1. CASE Foreign(table[i])
    BY <2>1
  <2>2. CASE Sound(table[i], rounds)
    <3>1. table[i].round \in 1 .. Len(later) /\ later[table[i].round] = rounds[table[i].round]
      BY <2>2 DEF Sound
    <3> QED  BY <2>2, <3>1 DEF Sound
  <2> QED  BY <2>1, <2>2 DEF Kept
<1> QED  BY <1>1 DEF Kept

LEMMA AppendedToAny ==
  ASSUME NEW s, s \in Seq(ToSet(s)), NEW e, NEW p, p = Append(s, e)
  PROVE  /\ p \in Seq(ToSet(p)) /\ Len(p) = Len(s) + 1 /\ Len(s) \in Nat
         /\ \A i \in 1 .. Len(s) : p[i] = s[i]
         /\ p[Len(s) + 1] = e
<1>1. PICK T : T = ToSet(s) \cup {e}
  OBVIOUS
<1>2. s \in Seq(T) /\ e \in T
  BY <1>1
<1>3. /\ p \in Seq(T) /\ Len(p) = Len(s) + 1 /\ Len(s) \in Nat
      /\ \A i \in 1 .. Len(s) : p[i] = s[i]
      /\ p[Len(s) + 1] = e
  BY <1>2, Appended
<1>4. p \in Seq(ToSet(p))
  <2>1. PICK R : R = ToSet(p)
    OBVIOUS
  <2>2. \A i \in 1 .. Len(p) : p[i] \in R
    BY <1>3, <2>1 DEF ToSet
  <2> QED  BY <1>3, <2>1, <2>2
<1> QED  BY <1>3, <1>4

\* The rows after the first n do not matter to which of those is the last one
\* of the loop, and a row of the detector does not change it.
LEMMA ClassicalLastStays ==
  ASSUME NEW table, NEW new, NEW n \in Nat, NEW round, ClassicalLast(table, n, round),
         \A k \in 1 .. n : new[k] = table[k]
  PROVE  /\ ClassicalLast(new, n, round)
         /\ ~Own(new[n + 1]) => ClassicalLast(new, n + 1, round)
<1>1. PICK h \in 1 .. n : /\ table[h].method = "CLASSICAL" /\ table[h].round = round
                          /\ \A k \in h + 1 .. n : ~Own(table[k])
  BY DEF ClassicalLast
<1>2. new[h] = table[h] /\ h \in 1 .. n + 1
  OBVIOUS
<1>3. ASSUME NEW k \in h + 1 .. n PROVE ~Own(new[k])
  <2>1. k \in 1 .. n
    OBVIOUS
  <2> QED  BY <1>1, <2>1
<1>4. \A k \in h + 1 .. n + 1 : k = n + 1 \/ k \in h + 1 .. n
  OBVIOUS
<1>5. ClassicalLast(new, n, round)
  BY <1>1, <1>2, <1>3 DEF ClassicalLast
<1>6. ASSUME ~Own(new[n + 1]) PROVE ClassicalLast(new, n + 1, round)
  <2>1. \A k \in h + 1 .. n + 1 : ~Own(new[k])
    BY <1>3, <1>4, <1>6
  <2> QED  BY <1>1, <1>2, <2>1 DEF ClassicalLast
<1> QED  BY <1>5, <1>6

\* A row that may be stored next.
Fits(s, table, rounds, cut) ==
  /\ Foreign(s) \/ Sound(s, rounds)
  /\ \A i \in 1 .. Len(table) : Own(table[i]) /\ Own(s) => Precedes(table[i], s)
  /\ s.method = "QUANTUM" /\ s.round \notin cut => ClassicalLast(table, Len(table), s.round)

LEMMA StoredIsKept ==
  ASSUME NEW table, NEW rounds, NEW cut, Kept(table, rounds, cut),
         NEW s, Fits(s, table, rounds, cut), NEW new, new = Append(table, s)
  PROVE  Kept(new, rounds, cut)
<1>a. table \in Seq(ToSet(table))
  BY DEF Kept
<1>b. /\ Len(table) \in Nat /\ Len(new) = Len(table) + 1 /\ new \in Seq(ToSet(new))
      /\ new[Len(table) + 1] = s
  BY <1>a, AppendedToAny, Zenon
<1>c. \A i \in 1 .. Len(table) : new[i] = table[i]
  BY <1>a, AppendedToAny
<1>1. PICK n \in Nat : /\ n = Len(table) /\ Len(new) = n + 1 /\ new \in Seq(ToSet(new))
                       /\ (\A i \in 1 .. n : new[i] = table[i]) /\ new[n + 1] = s
  BY <1>b, <1>c
<1>2. \A i \in 1 .. n + 1 : i = n + 1 \/ i \in 1 .. n
  OBVIOUS
<1>3. \A i \in 1 .. n + 1 : Foreign(new[i]) \/ Sound(new[i], rounds)
  BY <1>1, <1>2 DEF Kept, Fits
<1>4. ASSUME NEW i \in 1 .. n + 1, NEW j \in 1 .. n + 1, i < j, Own(new[i]), Own(new[j])
      PROVE  Precedes(new[i], new[j])
  <2>1. i \in 1 .. n
    BY <1>4
  <2>2. CASE j = n + 1
    BY <1>1, <1>4, <2>1, <2>2 DEF Fits
  <2>3. CASE j \in 1 .. n
    <3>1. Precedes(table[i], table[j])
      BY <1>1, <1>4, <2>1, <2>3 DEF Kept
    <3> QED  BY <1>1, <2>1, <2>3, <3>1
  <2> QED  BY <1>2, <2>2, <2>3
<1>5. ASSUME NEW i \in 1 .. n + 1, new[i].method = "QUANTUM", new[i].round \notin cut
      PROVE  ClassicalLast(new, i - 1, new[i].round)
  <2>1. i - 1 \in Nat /\ \A k \in 1 .. i - 1 : k \in 1 .. n
    OBVIOUS
  <2>2. \A k \in 1 .. i - 1 : new[k] = table[k]
    BY <1>1, <2>1
  <2>3. ClassicalLast(table, i - 1, new[i].round)
    <3>1. CASE i = n + 1
      <4>1. i - 1 = n
        BY <3>1
      <4> QED  BY <1>1, <1>5, <3>1, <4>1 DEF Fits
    <3>2. CASE i \in 1 .. n
      BY <1>1, <1>5, <3>2 DEF Kept
    <3> QED  BY <1>2, <3>1, <3>2
  <2> QED  BY <2>1, <2>2, <2>3, ClassicalLastStays
<1> QED  BY <1>1, <1>3, <1>4, <1>5 DEF Kept

-----------------------------------------------------------------------------
(* The loop.                                                               *)

QTypeOK ==
  /\ matrix \in Matrices /\ rates \in Matrices /\ fetched \in Seq(Matrices)
  /\ loop \in {"fetch", "grover", "classical", "quantum", "sleep", "cancelled"}

\* What is known of the rates of the round under way.
RoundKnown ==
  /\ loop \in {"grover", "classical", "quantum"} =>
       /\ Round > 0 /\ rates = fetched[Round]
       /\ classical = None \/ classical = Classical[rates]
       /\ Round \notin raised => classical = Classical[rates]
  /\ Blocked => Honest(grover_result, rates)

\* Where the table is before each of the inserts.
TableReady ==
  /\ loop \in {"grover", "classical"} => \A i \in 1 .. Len(signals) : signals[i].round < Round
  /\ loop = "quantum" =>
       \A i \in 1 .. Len(signals) : signals[i].round < Round \/ signals[i].method = "CLASSICAL"
  /\ loop = "quantum" /\ Round \notin raised /\ Worth(classical) =>
       ClassicalLast(signals, Len(signals), Round)

TableKept == Kept(signals, fetched, raised)

ResponsesAgree ==
  /\ DOMAIN request = Requests /\ DOMAIN result = Requests
  /\ \A q \in Requests :
       /\ result[q].rates \in Matrices
       /\ request[q] = "done" => Agree(result[q].grover, result[q].classical, result[q].rates)

QuantumInv == QTypeOK /\ RoundKnown /\ TableReady /\ TableKept /\ ResponsesAgree

LEMMA HonestAgrees ==
  ASSUME NEW r \in Matrices, NEW found, Honest(found, r), NEW bf, bf = Classical[r]
  PROVE  Agree(found, bf, r)
BY ClassicalGains DEF Honest, Agree

\* The insert that quantum_loop is at.
StoreNext ==
  \/ loop = "classical" /\ Worth(classical) /\ Insert("CLASSICAL", classical)
  \/ loop = "quantum" /\ Worth(grover_result) /\ Insert("QUANTUM", grover_result)

LEMMA StoreKeeps ==
  ASSUME QuantumInv, StoreNext
  PROVE  Kept(signals', fetched, raised)
<1>1. /\ rates \in Matrices /\ fetched \in Seq(Matrices) /\ Kept(signals, fetched, raised)
      /\ Round = Len(fetched) /\ Len(fetched) \in Nat
      /\ \A i \in 1 .. Len(signals) : Foreign(signals[i]) \/ Sound(signals[i], fetched)
  BY DEF QuantumInv, QTypeOK, TableKept, Round, Kept
<1>2. /\ Round > 0 /\ rates = fetched[Round] /\ Blocked
      /\ classical = None \/ classical = Classical[rates]
      /\ Round \notin raised => classical = Classical[rates]
      /\ Honest(grover_result, rates)
  BY DEF QuantumInv, RoundKnown, StoreNext, Blocked
<1>3. Round \in 1 .. Len(fetched)
  BY <1>1, <1>2
<1>4. CASE loop = "classical" /\ Worth(classical) /\ Insert("CLASSICAL", classical)
  <2> DEFINE s == Signal("CLASSICAL", classical.path, classical.profit_pct)
  <2>1. /\ s.method = "CLASSICAL" /\ s.round = Round
        /\ s.path = classical.path /\ s.profit_pct = classical.profit_pct
        /\ signals' = Append(signals, s)
    BY <1>4 DEF Insert, Signal
  <2>2. classical.profit_pct > 0 /\ classical = Classical[rates]
    BY <1>2, <1>4 DEF Worth, None
  <2>3. IsProfitable(classical.path, rates) /\ classical.profit_pct = CycleProfit(classical.path, rates)
    BY <1>1, <2>2, ClassicalGains
  <2> HIDE DEF s
  <2>4. Sound(s, fetched)
    BY <1>2, <1>3, <2>1, <2>3 DEF Sound
  <2>5. \A i \in 1 .. Len(signals) : Precedes(signals[i], s)
    BY <1>4, <2>1 DEF QuantumInv, TableReady, Precedes
  <2>6. Fits(s, signals, fetched, raised)
    BY <2>1, <2>4, <2>5 DEF Fits
  <2> QED  BY <1>1, <2>1, <2>6, StoredIsKept
<1>5. CASE loop = "quantum" /\ Worth(grover_result) /\ Insert("QUANTUM", grover_result)
  <2> DEFINE s == Signal("QUANTUM", grover_result.path, grover_result.profit_pct)
  <2>1. /\ s.method = "QUANTUM" /\ s.round = Round
        /\ s.path = grover_result.path /\ s.profit_pct = grover_result.profit_pct
        /\ signals' = Append(signals, s)
    BY <1>5 DEF Insert, Signal
  <2>2. /\ IsProfitable(grover_result.path, rates)
        /\ grover_result.profit_pct = CycleProfit(grover_result.path, rates)
        /\ \E p : Lucrative(rates, p)
    BY <1>2, <1>5 DEF Worth, Honest
  <2> HIDE DEF s
  <2>3. Sound(s, fetched)
    BY <1>2, <1>3, <2>1, <2>2 DEF Sound
  <2>4. ASSUME NEW i \in 1 .. Len(signals), Own(signals[i]) PROVE Precedes(signals[i], s)
    <3>1. signals[i].round \in 1 .. Len(fetched)
      BY <1>1, <2>4 DEF Foreign, Own, Sound
    <3>2. signals[i].round < Round \/ signals[i].method = "CLASSICAL"
      BY <1>5 DEF QuantumInv, TableReady
    <3> QED  BY <1>1, <2>1, <3>1, <3>2 DEF Precedes
  <2>5. ASSUME Round \notin raised
        PROVE  ClassicalLast(signals, Len(signals), Round)
    <3>1. classical = Classical[rates]
      BY <1>2, <2>5
    <3>2. classical.profit_pct > 0 /\ Len(classical.path) >= 3
      BY <1>1, <2>2, <3>1, ClassicalGains
    <3> QED  BY <1>5, <2>5, <3>2 DEF QuantumInv, TableReady, Worth
  <2>6. Fits(s, signals, fetched, raised)
    BY <2>1, <2>3, <2>4, <2>5 DEF Fits
  <2> QED  BY <1>1, <2>1, <2>6, StoredIsKept
<1> QED  BY <1>4, <1>5 DEF StoreNext

LEMMA TableKeptOn ==
  ASSUME QuantumInv, signals' = signals \/ StoreNext, UNCHANGED begun
  PROVE  TableKept'
<1>1. Kept(signals', fetched, raised)
  BY StoreKeeps DEF QuantumInv, TableKept
<1>2. fetched' = fetched /\ raised' = raised
  BY DEF begun
<1> QED  BY <1>1, <1>2 DEF TableKept

\* The steps after which no round is under way.
LEMMA Quiet ==
  ASSUME QuantumInv, loop' \in {"fetch", "sleep", "cancelled"},
         signals' = signals \/ StoreNext, UNCHANGED begun,
         matrix' \in Matrices, rates' = rates
  PROVE  (QTypeOK /\ RoundKnown /\ TableReady /\ TableKept)'
<1>1. TableKept'
  BY TableKeptOn
<1>2. QTypeOK'
  BY DEF QuantumInv, QTypeOK, begun
<1>3. RoundKnown' /\ TableReady'
  BY DEF RoundKnown, TableReady, Blocked
<1> QED  BY <1>1, <1>2, <1>3

LEMMA ResponsesStay ==
  ASSUME QuantumInv, UNCHANGED api \/ Abandon
  PROVE  ResponsesAgree'
<1>1. ResponsesAgree
  BY DEF QuantumInv
<1>2. CASE UNCHANGED api
  BY <1>1, <1>2 DEF ResponsesAgree, api
<1>3. CASE Abandon
  <2>1. SomeRates \in Matrices
    BY DEF SomeRates, QuantumInv, QTypeOK
  <2>2. Unanswered.rates \in Matrices
    BY <2>1 DEF Unanswered
  <2> QED  BY <1>1, <1>3, <2>2 DEF ResponsesAgree, Abandon, Answered
<1> QED  BY <1>2, <1>3

LEMMA FetchRatesKeeps ==
  ASSUME QuantumInv, FetchRates
  PROVE  QuantumInv'
<1>1. /\ QTypeOK /\ RoundKnown /\ TableReady /\ TableKept /\ ResponsesAgree
      /\ matrix \in Matrices /\ rates \in Matrices /\ fetched \in Seq(Matrices) /\ Round = Len(fetched)
      /\ Len(fetched) \in Nat
  BY DEF QuantumInv, QTypeOK, Round
<1>2. /\ UNCHANGED <<world, grover_result, signals, failed, api>>
      /\ matrix' = matrix /\ signals' = signals /\ UNCHANGED api
  BY DEF FetchRates, world
<1>3. ResponsesAgree'
  BY <1>2, ResponsesStay
<1>4. CASE loop' = "sleep" /\ UNCHANGED <<rates, classical, thread, begun, failures>>
  <2>1. (QTypeOK /\ RoundKnown /\ TableReady /\ TableKept)'
    BY <1>1, <1>2, <1>4, Quiet
  <2> QED  BY <1>3, <2>1 DEF QuantumInv
<1>5. CASE /\ rates' = matrix /\ fetched' = Append(fetched, matrix)
           /\ loop' = "grover" /\ thread' = TRUE
           /\ \/ classical' = Classical[matrix] /\ UNCHANGED <<raised, failures>>
              \/ /\ classical' = None /\ raised' = raised \cup {Round + 1}
                 /\ failures < MaxFailures /\ failures' = failures + 1
  <2>1. /\ fetched' \in Seq(Matrices) /\ Len(fetched') = Len(fetched) + 1
        /\ \A k \in 1 .. Len(fetched) : fetched'[k] = fetched[k]
        /\ fetched'[Len(fetched) + 1] = matrix
    BY <1>1, <1>5, Appended
  <2>2. Round' = Round + 1 /\ Round' > 0 /\ fetched'[Round'] = matrix /\ raised \subseteq raised'
        /\ Len(fetched') \in Nat
    BY <1>1, <1>5, <2>1 DEF Round
  <2>3. Kept(signals, fetched, raised) /\ Len(fetched) <= Len(fetched')
    BY <1>1, <2>1 DEF TableKept
  <2>4. Kept(signals, fetched', raised')
    BY <1>1, <2>1, <2>2, <2>3, KeptIsKept
  <2>5. TableKept'
    BY <1>2, <2>4 DEF TableKept
  <2>6. QTypeOK'
    BY <1>1, <1>2, <1>5, <2>1 DEF QTypeOK
  <2>7. RoundKnown'
    BY <1>5, <2>2 DEF RoundKnown, Blocked
  <2>8. TableReady'
    <3>1. \A i \in 1 .. Len(signals) : signals[i].round \in 0 .. Len(fetched)
      BY <1>1, <2>3 DEF Kept, Sound, Foreign
    <3>2. \A i \in 1 .. Len(signals') : signals'[i].round < Round'
      BY <1>1, <1>2, <2>2, <3>1
    <3> QED  BY <1>5, <3>2 DEF TableReady
  <2> QED  BY <1>3, <2>5, <2>6, <2>7, <2>8 DEF QuantumInv
<1> QED  BY <1>4, <1>5 DEF FetchRates

LEMMA GroverEnds ==
  ASSUME QuantumInv, GroverDone \/ GroverFails
  PROVE  QuantumInv'
<1>1. /\ QTypeOK /\ RoundKnown /\ TableReady /\ TableKept /\ rates \in Matrices
      /\ loop = "grover" /\ loop' = "classical"
  BY DEF QuantumInv, QTypeOK, GroverDone, GroverFails
<1>2. /\ matrix' = matrix /\ rates' = rates /\ fetched' = fetched /\ classical' = classical
      /\ signals' = signals /\ raised' = raised /\ UNCHANGED begun /\ UNCHANGED api /\ Round' = Round
  BY DEF GroverDone, GroverFails, world, begun, Round
<1>3. Honest(grover_result', rates)
  BY <1>1, SearchIsHonest, NoPathIsHonest DEF GroverDone, GroverFails
<1>4. QTypeOK' /\ RoundKnown' /\ TableReady'
  <2>1. QTypeOK'
    BY <1>1, <1>2 DEF QTypeOK
  <2>2. RoundKnown'
    BY <1>1, <1>2, <1>3 DEF RoundKnown
  <2>3. TableReady'
    BY <1>1, <1>2 DEF TableReady
  <2> QED  BY <2>1, <2>2, <2>3
<1>5. TableKept'
  BY <1>2, TableKeptOn
<1>6. ResponsesAgree'
  BY <1>2, ResponsesStay
<1> QED  BY <1>4, <1>5, <1>6 DEF QuantumInv

LEMMA InsertClassicalKeeps ==
  ASSUME QuantumInv, InsertClassical
  PROVE  QuantumInv'
<1>1. /\ QTypeOK /\ RoundKnown /\ TableReady /\ TableKept
      /\ loop = "classical" /\ loop' = "quantum"
  BY DEF QuantumInv, InsertClassical
<1>2. /\ matrix' = matrix /\ rates' = rates /\ fetched' = fetched /\ classical' = classical
      /\ grover_result' = grover_result /\ raised' = raised /\ UNCHANGED begun /\ UNCHANGED api /\ Round' = Round
  BY DEF InsertClassical, world, begun, Round
<1>3. IF Worth(classical) THEN Insert("CLASSICAL", classical) ELSE signals' = signals
  BY DEF InsertClassical
<1>4. TableKept'
  BY <1>1, <1>2, <1>3, TableKeptOn DEF StoreNext
<1>5. QTypeOK'
  BY <1>1, <1>2 DEF QTypeOK
<1>6. RoundKnown'
  BY <1>1, <1>2 DEF RoundKnown, Blocked
<1>7. TableReady'
  <2>1. \A i \in 1 .. Len(signals) : signals[i].round < Round
    BY <1>1 DEF TableReady
  <2>2. CASE ~Worth(classical)
    BY <1>1, <1>2, <1>3, <2>1, <2>2 DEF TableReady, Worth
  <2>3. CASE Worth(classical)
    <3>1. /\ signals \in Seq(ToSet(signals))
          /\ signals' = Append(signals, Signal("CLASSICAL", classical.path, classical.profit_pct))
      BY <1>1, <1>3, <2>3 DEF TableKept, Kept, Insert
    <3>2. PICK s : s = Signal("CLASSICAL", classical.path, classical.profit_pct)
      OBVIOUS
    <3>3. s.method = "CLASSICAL" /\ s.round = Round
      BY <3>2 DEF Signal
    <3>4. PICK p : p = Append(signals, s) /\ p = signals'
      BY <3>1, <3>2
    <3>a. p = Append(signals, s)
      BY <3>4
    <3>5. Len(p) = Len(signals) + 1 /\ Len(signals) \in Nat /\ p[Len(signals) + 1] = s
      BY <3>1, <3>a, AppendedToAny, Zenon
    <3>6. \A i \in 1 .. Len(signals) : p[i] = signals[i]
      BY <3>1, <3>a, AppendedToAny
    <3>7. \A i \in 1 .. Len(p) : p[i].round < Round \/ p[i].method = "CLASSICAL"
      BY <2>1, <3>3, <3>5, <3>6
    <3>8. ClassicalLast(p, Len(p), Round)
      BY <3>3, <3>5 DEF ClassicalLast
    <3>9. signals' = p
      BY <3>4
    <3> QED  BY <1>1, <1>2, <3>7, <3>8, <3>9 DEF TableReady
  <2> QED  BY <2>2, <2>3
<1>8. ResponsesAgree'
  BY <1>2, ResponsesStay
<1> QED  BY <1>4, <1>5, <1>6, <1>7, <1>8 DEF QuantumInv

\* The other steps of the loop end the round, if there is one, or go on
\* between the rounds.
QuietStep ==
  \/ InsertQuantum \/ WakeLoop \/ ThreadEnds \/ Restart \/ FetchFails \/ InsertFails
  \/ Cancel \/ Crash

LEMMA QuietStepKeeps ==
  ASSUME QuantumInv, QuietStep
  PROVE  QuantumInv'
<1>1. matrix \in Matrices /\ ResponsesAgree
  BY DEF QuantumInv, QTypeOK
<1>2. /\ loop' \in {"fetch", "sleep", "cancelled"} /\ rates' = rates /\ UNCHANGED begun
      /\ matrix' = matrix
  BY DEF QuietStep, InsertQuantum, WakeLoop, ThreadEnds, Restart, FetchFails, InsertFails,
         Cancel, Crash, Sleep, world
<1>3. signals' = signals \/ StoreNext
  BY DEF QuietStep, InsertQuantum, WakeLoop, ThreadEnds, Restart, FetchFails, InsertFails,
         Cancel, Crash, StoreNext
<1>4. UNCHANGED api \/ Abandon
  BY DEF QuietStep, InsertQuantum, WakeLoop, ThreadEnds, Restart, FetchFails, InsertFails,
         Cancel, Crash
<1>5. (QTypeOK /\ RoundKnown /\ TableReady /\ TableKept)'
  BY <1>1, <1>2, <1>3, Quiet
<1>6. ResponsesAgree'
  BY <1>4, ResponsesStay
<1> QED  BY <1>5, <1>6 DEF QuantumInv

\* Nothing of the loop changes.
LEMMA LoopStays ==
  ASSUME QuantumInv, UNCHANGED loopvars, matrix' \in Matrices
  PROVE  (QTypeOK /\ RoundKnown /\ TableReady /\ TableKept)'
<1>1. /\ loop' = loop /\ rates' = rates /\ classical' = classical /\ grover_result' = grover_result
      /\ signals' = signals /\ fetched' = fetched /\ raised' = raised /\ Round' = Round
  BY DEF loopvars, begun, Round
<1>2. QTypeOK'
  BY <1>1 DEF QuantumInv, QTypeOK
<1>3. RoundKnown'
  BY <1>1 DEF QuantumInv, RoundKnown, Blocked
<1>4. TableReady'
  BY <1>1 DEF QuantumInv, TableReady
<1>5. TableKept'
  BY <1>1 DEF QuantumInv, TableKept
<1> QED  BY <1>2, <1>3, <1>4, <1>5

LEMMA PostRunGroverKeeps ==
  ASSUME QuantumInv, NEW q \in Requests, PostRunGrover(q)
  PROVE  QuantumInv'
<1>1. /\ ResponsesAgree /\ matrix \in Matrices /\ matrix' = matrix /\ UNCHANGED loopvars
  BY DEF QuantumInv, QTypeOK, PostRunGrover, world
<1>2. PICK r \in Synthetic, method \in Methods :
        IF method = "CLASSICAL"
        THEN /\ request' = [request EXCEPT ![q] = "done"]
             /\ result' = [result EXCEPT ![q] =
                             [rates |-> r, grover |-> NoPath(0), classical |-> Classical[r]]]
        ELSE /\ request' = [request EXCEPT ![q] = method]
             /\ result' = [result EXCEPT ![q] =
                             [rates |-> r, grover |-> NoPath(0), classical |-> None]]
  BY DEF PostRunGrover
<1>3. r \in Matrices
  BY MatrixAssumption
<1>4. Agree(NoPath(0), Classical[r], r)
  BY <1>3, NoPathIsHonest, HonestAgrees
<1>5. method # "done"
  BY DEF Methods
<1>6. ResponsesAgree'
  BY <1>1, <1>2, <1>3, <1>4, <1>5 DEF ResponsesAgree
<1>7. (QTypeOK /\ RoundKnown /\ TableReady /\ TableKept)'
  BY <1>1, LoopStays
<1> QED  BY <1>6, <1>7 DEF QuantumInv

LEMMA RespondRunGroverKeeps ==
  ASSUME QuantumInv, NEW q \in Requests, RespondRunGrover(q)
  PROVE  QuantumInv'
<1>1. /\ ResponsesAgree /\ matrix \in Matrices /\ matrix' = matrix /\ UNCHANGED loopvars
  BY DEF QuantumInv, QTypeOK, RespondRunGrover, world
<1>2. PICK r : r = result[q].rates
  OBVIOUS
<1>3. PICK found \in Search[r] :
        result' = [result EXCEPT ![q] =
                     [rates |-> r, grover |-> found,
                      classical |-> IF request[q] = "BOTH" THEN Classical[r] ELSE None]]
  BY <1>2 DEF RespondRunGrover
<1>4. request' = [request EXCEPT ![q] = IF request[q] = "BOTH" THEN "done" ELSE "grover_done"]
  BY DEF RespondRunGrover
<1>5. r \in Matrices
  BY <1>1, <1>2 DEF ResponsesAgree
<1>6. Agree(found, Classical[r], r)
  BY <1>5, SearchIsHonest, HonestAgrees
<1>7. ResponsesAgree'
  BY <1>1, <1>3, <1>4, <1>5, <1>6 DEF ResponsesAgree
<1>8. (QTypeOK /\ RoundKnown /\ TableReady /\ TableKept)'
  BY <1>1, LoopStays
<1> QED  BY <1>7, <1>8 DEF QuantumInv

LEMMA ChangeKeeps ==
  ASSUME QuantumInv, Change
  PROVE  QuantumInv'
<1>1. UNCHANGED loopvars /\ UNCHANGED api /\ matrix' \in Matrices
  BY DEF Change
<1> QED  BY <1>1, LoopStays, ResponsesStay DEF QuantumInv

\* A row of the detector goes between those of the loop.
LEMMA DetectorInsertsKeeps ==
  ASSUME QuantumInv, DetectorInserts
  PROVE  QuantumInv'
<1>1. /\ QTypeOK /\ RoundKnown /\ TableReady /\ TableKept
      /\ Round = Len(fetched) /\ Len(fetched) \in Nat
  BY DEF QuantumInv, QTypeOK, Round
<1>2. /\ matrix' = matrix /\ loop' = loop /\ rates' = rates /\ classical' = classical
      /\ grover_result' = grover_result /\ fetched' = fetched /\ raised' = raised
      /\ UNCHANGED api /\ Round' = Round
  BY DEF DetectorInserts, world, begun, Round
<1>3. PICK d : Foreign(d) /\ signals' = Append(signals, d)
  BY DEF DetectorInserts, Foreign
<1>4. ~Own(d) /\ d.round = 0
  BY <1>3 DEF Foreign, Own
<1>5. signals \in Seq(ToSet(signals)) /\ Kept(signals, fetched, raised)
  BY <1>1 DEF TableKept, Kept
<1>6. PICK p : p = Append(signals, d) /\ p = signals'
  BY <1>3
<1>a. p = Append(signals, d) /\ signals \in Seq(ToSet(signals))
  BY <1>5, <1>6
<1>7. Len(p) = Len(signals) + 1 /\ Len(signals) \in Nat /\ p[Len(signals) + 1] = d
  BY <1>a, AppendedToAny, Zenon
<1>8. \A i \in 1 .. Len(signals) : p[i] = signals[i]
  BY <1>a, AppendedToAny
<1>9. Fits(d, signals, fetched, raised)
  BY <1>3, <1>4 DEF Fits, Foreign
<1>10. TableKept'
  <2>1. Kept(p, fetched, raised)
    BY <1>5, <1>6, <1>9, StoredIsKept
  <2> QED  BY <1>2, <1>6, <2>1 DEF TableKept
<1>11. QTypeOK' /\ RoundKnown'
  BY <1>1, <1>2 DEF QTypeOK, RoundKnown, Blocked
<1>12. \A i \in 1 .. Len(p) : i \in 1 .. Len(signals) \/ i = Len(signals) + 1
  BY <1>7
<1>13. TableReady'
  <2>1. ASSUME loop \in {"grover", "classical"}, NEW i \in 1 .. Len(p) PROVE p[i].round < Round
    <3>1. 0 < Round
      BY <1>1, <2>1 DEF RoundKnown
    <3>2. \A k \in 1 .. Len(signals) : signals[k].round < Round
      BY <1>1, <2>1 DEF TableReady
    <3> QED  BY <1>4, <1>7, <1>8, <1>12, <3>1, <3>2
  <2>2. ASSUME loop = "quantum", NEW i \in 1 .. Len(p)
        PROVE  p[i].round < Round \/ p[i].method = "CLASSICAL"
    BY <1>1, <1>3, <1>7, <1>8, <1>12, <2>2 DEF TableReady, Foreign
  <2>3. ASSUME loop = "quantum", Round \notin raised, Worth(classical)
        PROVE  ClassicalLast(p, Len(p), Round)
    <3>1. ClassicalLast(signals, Len(signals), Round)
      BY <1>1, <2>3 DEF TableReady
    <3> QED  BY <1>4, <1>7, <1>8, <3>1, ClassicalLastStays
  <2> QED  BY <1>2, <1>6, <2>1, <2>2, <2>3 DEF TableReady, Worth
<1>14. ResponsesAgree'
  BY <1>2, ResponsesStay
<1> QED  BY <1>10, <1>11, <1>13, <1>14 DEF QuantumInv

LEMMA QuantumStarts ==
  ASSUME QuantumInit
  PROVE  QuantumInv
<1>1. /\ matrix \in Matrices /\ rates = SomeRates /\ loop = "fetch" /\ signals = <<>> /\ fetched = <<>>
      /\ request = [q \in Requests |-> "none"] /\ result = [q \in Requests |-> Unanswered]
  BY DEF QuantumInit
<1>a. SomeRates \in Matrices /\ Unanswered.rates \in Matrices
  BY <1>1 DEF SomeRates, Unanswered
<1>2. signals \in Seq(ToSet(signals)) /\ Len(signals) = 0 /\ fetched \in Seq(Matrices)
  BY <1>1
<1>3. TableKept
  BY <1>2 DEF TableKept, Kept
<1>4. QTypeOK /\ RoundKnown /\ TableReady
  BY <1>1, <1>2, <1>a DEF QTypeOK, RoundKnown, TableReady, Blocked
<1>5. ResponsesAgree
  BY <1>1, <1>a DEF ResponsesAgree
<1> QED  BY <1>3, <1>4, <1>5 DEF QuantumInv

LEMMA QuantumStays ==
  ASSUME QuantumInv, UNCHANGED quantumvars
  PROVE  QuantumInv'
<1>1. UNCHANGED loopvars /\ UNCHANGED api /\ matrix' \in Matrices
  BY DEF quantumvars, QuantumInv, QTypeOK, world
<1> QED  BY <1>1, LoopStays, ResponsesStay DEF QuantumInv

-----------------------------------------------------------------------------
\* The rounds of the loop, the table and the responses fit together in every
\* state, whatever fails (quantum_loop and quantum_api.py).
THEOREM RoundsFitTogether == QuantumSpec => []QuantumInv
<1>1. QuantumInit => QuantumInv
  BY QuantumStarts
<1>2. QuantumInv /\ [QuantumNext]_quantumvars => QuantumInv'
  <2> SUFFICES ASSUME QuantumInv, [QuantumNext]_quantumvars PROVE QuantumInv'
    OBVIOUS
  <2>1. CASE LoopStep
    BY <2>1, FetchRatesKeeps, GroverEnds, InsertClassicalKeeps, QuietStepKeeps DEF LoopStep, QuietStep
  <2>2. CASE GroverFails
    BY <2>2, GroverEnds
  <2>3. CASE FetchFails \/ InsertFails \/ Cancel \/ Crash
    BY <2>3, QuietStepKeeps DEF QuietStep
  <2>4. CASE ApiStep
    BY <2>4, PostRunGroverKeeps, RespondRunGroverKeeps DEF ApiStep
  <2>5. CASE Change \/ DetectorInserts
    BY <2>5, ChangeKeeps, DetectorInsertsKeeps
  <2>6. CASE UNCHANGED quantumvars
    BY <2>6, QuantumStays
  <2> QED  BY <2>1, <2>2, <2>3, <2>4, <2>5, <2>6 DEF QuantumNext
<1> QED  BY <1>1, <1>2, PTL DEF QuantumSpec

LEMMA TableIsSound ==
  ASSUME QuantumInv
  PROVE  /\ signals \in Seq(ToSet(signals)) /\ DOMAIN signals = 1 .. Len(signals) /\ Len(signals) \in Nat
         /\ \A i \in 1 .. Len(signals) : Own(signals[i]) => Sound(signals[i], fetched)
         /\ \A i, j \in 1 .. Len(signals) :
              i < j /\ Own(signals[i]) /\ Own(signals[j]) => Precedes(signals[i], signals[j])
         /\ \A i \in 1 .. Len(signals) : signals[i].method = "QUANTUM" /\ signals[i].round \notin raised =>
              ClassicalLast(signals, i - 1, signals[i].round)
<1>1. Kept(signals, fetched, raised)
  BY DEF QuantumInv, TableKept
<1>2. signals \in Seq(ToSet(signals))
  BY <1>1 DEF Kept
<1>3. PICK T : T = ToSet(signals)
  OBVIOUS
<1>4. DOMAIN signals = 1 .. Len(signals) /\ Len(signals) \in Nat
  BY <1>2, <1>3
<1>5. \A i \in 1 .. Len(signals) : Own(signals[i]) => Sound(signals[i], fetched)
  BY <1>1 DEF Kept, Foreign, Own
<1> QED  BY <1>1, <1>4, <1>5 DEF Kept

\* Every signal that quantum_loop stores is a cycle that gained at the rates
\* its own round fetched, with the profit it had there, however the rates
\* change while the search runs in its thread.
THEOREM StoredSignalsGain == QuantumSpec => []SignalsWereProfitable
<1>1. QuantumInv => SignalsWereProfitable
  BY TableIsSound DEF SignalsWereProfitable, Sound
<1> QED  BY <1>1, RoundsFitTogether, PTL

LEMMA OneOfEachMethod ==
  ASSUME QuantumInv, NEW i \in DOMAIN signals, NEW j \in DOMAIN signals, Own(signals[i]),
         signals[i].round = signals[j].round, signals[i].method = signals[j].method
  PROVE  i = j
<1>1. i \in 1 .. Len(signals) /\ j \in 1 .. Len(signals) /\ Len(signals) \in Nat
  BY TableIsSound
<1>2. Own(signals[j])
  BY DEF Own
<1>3. signals[i].round \in Int /\ signals[j].round \in Int
  BY <1>1, <1>2, TableIsSound DEF Sound
<1>4. /\ i < j => Precedes(signals[i], signals[j])
      /\ j < i => Precedes(signals[j], signals[i])
  BY <1>1, <1>2, TableIsSound
<1>5. ~(i < j)
  BY <1>3, <1>4 DEF Precedes
<1>6. ~(j < i)
  BY <1>3, <1>4 DEF Precedes
<1> QED  BY <1>1, <1>5, <1>6

\* Rows and places on a page are numbered from opposite ends.
LEMMA PlacesMirrorRows ==
  ASSUME NEW n \in Nat, NEW i \in 1 .. n, NEW m \in 1 .. n, m = n + 1 - i, NEW h \in 1 .. m - 1
  PROVE  /\ n + 1 - h \in i + 1 .. n /\ h = n + 1 - (n + 1 - h)
         /\ \A k \in i + 1 .. n : k < n + 1 - h => n + 1 - k \in h + 1 .. m - 1
  OBVIOUS

LEMMA PagesShowPairs ==
  ASSUME QuantumInv, NEW limit \in 1 .. Len(signals), NEW page, page = GetSignals(limit, "ALL"),
         NEW i \in 1 .. limit, page[i].method = "QUANTUM", page[i].round \notin raised
  PROVE  \/ limit < Len(signals) /\ \A j \in i + 1 .. limit : ~Own(page[j])
         \/ \E j \in i + 1 .. limit :
              /\ page[j].method = "CLASSICAL" /\ page[j].round = page[i].round
              /\ \A k \in i + 1 .. j - 1 : ~Own(page[k])
<1>a. Len(signals) \in Nat /\ signals \in Seq(ToSet(signals))
  BY TableIsSound
<1>1. PICK n \in Nat : n = Len(signals) /\ limit \in 1 .. n
  BY <1>a
<1>2. \A k \in 1 .. limit : page[k] = signals[n + 1 - k]
  BY <1>a, <1>1, PageShows
<1>3. PICK m \in 1 .. n : m = n + 1 - i /\ page[i] = signals[m]
  <2>1. n + 1 - i \in 1 .. n
    BY <1>1
  <2> QED  BY <1>2, <2>1
<1>4. ClassicalLast(signals, m - 1, page[i].round)
  BY <1>1, <1>3, TableIsSound
<1>5. PICK h \in 1 .. m - 1 : /\ signals[h].method = "CLASSICAL" /\ signals[h].round = page[i].round
                              /\ \A k \in h + 1 .. m - 1 : ~Own(signals[k])
  BY <1>4 DEF ClassicalLast
<1>6. PICK j \in i + 1 .. n : j = n + 1 - h /\ h = n + 1 - j
  <2>1. i \in 1 .. n /\ m = n + 1 - i
    BY <1>1, <1>3
  <2>2. n + 1 - h \in i + 1 .. n /\ h = n + 1 - (n + 1 - h)
    BY <2>1, PlacesMirrorRows
  <2> QED  BY <2>2
<1>7. ASSUME NEW k \in i + 1 .. limit, k < j PROVE ~Own(page[k])
  <2>a. i \in 1 .. n /\ m = n + 1 - i
    BY <1>1, <1>3
  <2>b. k \in 1 .. limit /\ k \in i + 1 .. n /\ k < n + 1 - h
    BY <1>1, <1>6, <1>7
  <2>1. k \in 1 .. limit /\ n + 1 - k \in h + 1 .. m - 1
    BY <2>a, <2>b, PlacesMirrorRows
  <2>2. page[k] = signals[n + 1 - k]
    BY <1>2, <2>1
  <2> QED  BY <1>5, <2>1, <2>2
<1>8. CASE j > limit
  <2>1. limit < n /\ \A k \in i + 1 .. limit : k < j
    BY <1>1, <1>6, <1>8
  <2> QED  BY <1>1, <1>7, <2>1
<1>9. CASE j <= limit
  <2>1. j \in i + 1 .. limit /\ j \in 1 .. limit
    BY <1>1, <1>6, <1>9
  <2>2. page[j] = signals[h]
    BY <1>2, <1>6, <2>1
  <2>3. \A k \in i + 1 .. j - 1 : k \in i + 1 .. limit /\ k < j
    BY <1>1, <1>6, <1>9
  <2> QED  BY <1>5, <1>7, <2>1, <2>2, <2>3
<1> QED  BY <1>1, <1>6, <1>8, <1>9

\* quantum_loop stores one signal of each method per round at most and no quantum
\* one without the classical one of its round, unless Bellman-Ford raised there,
\* whichever insert fails; and GET /quantum/signals shows the two in that order,
\* with nothing but rows of the graph service's detector between them.
THEOREM RoundsStoreWholePairs == QuantumSpec => []RoundsAreWhole
<1>1. QuantumInv => RoundsAreWhole
  <2> SUFFICES ASSUME QuantumInv PROVE RoundsAreWhole
    OBVIOUS
  <2>1. \A i, j \in DOMAIN signals :
          /\ Own(signals[i])
          /\ signals[i].round = signals[j].round /\ signals[i].method = signals[j].method
          => i = j
    BY OneOfEachMethod
  <2>2. \A limit \in 1 .. Len(signals) :
          LET page == GetSignals(limit, "ALL") IN
            \A i \in 1 .. limit :
              page[i].method = "QUANTUM" /\ page[i].round \notin raised =>
                \/ limit < Len(signals) /\ \A j \in i + 1 .. limit : ~Own(page[j])
                \/ \E j \in i + 1 .. limit :
                     /\ page[j].method = "CLASSICAL" /\ page[j].round = page[i].round
                     /\ \A k \in i + 1 .. j - 1 : ~Own(page[k])
    BY PagesShowPairs
  <2> QED  BY <2>1, <2>2 DEF RoundsAreWhole
<1> QED  BY <1>1, RoundsFitTogether, PTL

\* Grover's search counts profitable cycles only where Bellman-Ford finds one,
\* in quantum_loop as in the responses of POST /run_grover, and the profit it
\* reports is that of its path.
THEOREM SearchesAlwaysAgree == QuantumSpec => []AlgorithmsAgree
<1>1. QuantumInv => AlgorithmsAgree
  <2> SUFFICES ASSUME QuantumInv PROVE AlgorithmsAgree
    OBVIOUS
  <2>1. ASSUME loop = "classical", Round \notin raised PROVE Agree(grover_result, classical, rates)
    <3>1. /\ rates \in Matrices /\ Honest(grover_result, rates) /\ classical = Classical[rates]
      BY <2>1 DEF QuantumInv, QTypeOK, RoundKnown, Blocked
    <3> QED  BY <3>1, HonestAgrees
  <2>2. ResponsesAgree
    BY DEF QuantumInv
  <2> QED  BY <2>1, <2>2 DEF AlgorithmsAgree, ResponsesAgree
<1> QED  BY <1>1, RoundsFitTogether, PTL

-----------------------------------------------------------------------------
(* The number of repetitions.                                              *)

LEMMA Tripled ==
  ASSUME NEW h \in Nat \ {0}, NEW m \in 1 .. h, NEW k \in Nat, k >= 2,
         160000 * k * k * m <= 98696 * h
  PROVE  m * ((k + 1) * (k + 1)) <= 3 * h
<1>1. PICK s \in Nat : s = k * k
  OBVIOUS
<1>2. (k + 1) * (k + 1) = s + 2 * k + 1
  BY <1>1
<1>3. s >= 2 * k
  BY <1>1
<1>4. PICK t \in Nat : t = (k + 1) * (k + 1)
  BY <1>2
<1>5. t <= 3 * s
  BY <1>1, <1>2, <1>3, <1>4
<1>6. m * t <= m * (3 * s)
  BY <1>4, <1>5
<1>7. PICK p \in Nat : p = m * s
  OBVIOUS
<1>8. m * (3 * s) = 3 * p
  BY <1>7
<1>9. 160000 * k * k * m = 160000 * p
  <2>1. 160000 * k * k * m = 160000 * (m * (k * k))
    OBVIOUS
  <2> QED  BY <1>1, <1>7, <2>1
<1>10. 3 * p <= 3 * h
  BY <1>9
<1>11. PICK q \in Nat : q = m * t
  OBVIOUS
<1>12. q <= 3 * h
  BY <1>6, <1>8, <1>10, <1>11
<1> QED  BY <1>4, <1>11, <1>12

\* There is a number of repetitions, and it leaves the angle below pi / 2.
LEMMA RepetitionsSuffice ==
  ASSUME NEW h \in Nat \ {0}, NEW m \in 1 .. h
  PROVE  LET k == NIter(h, m)
         IN k \in 1 .. h /\ (k = 1 \/ m * ((k + 1) * (k + 1)) <= 3 * h)
<1> DEFINE Over(k) == 160000 * (k + 1) * (k + 1) * m > 98696 * h
           Under(k) == k = 1 \/ 160000 * k * k * m <= 98696 * h
           S == {k \in 1 .. h : Over(k)}
<1>1. h \in S
  <2>1. PICK s \in Nat : s = (h + 1) * (h + 1)
    OBVIOUS
  <2>2. s >= h
    BY <2>1
  <2>3. s * m >= s
    BY <2>1
  <2>4. 160000 * (h + 1) * (h + 1) * m = 160000 * (s * m)
    BY <2>1
  <2>5. PICK p \in Nat : p = s * m
    OBVIOUS
  <2>6. 160000 * p > 98696 * h
    BY <2>2, <2>3, <2>5
  <2> QED  BY <2>4, <2>5, <2>6
<1>2. S \subseteq Nat /\ S # {}
  BY <1>1
<1> HIDE DEF S
<1>3. PICK d \in S : \A c \in S : d <= c
  BY <1>2, LeastMember
<1>4. d \in 1 .. h /\ Over(d)
  BY <1>3 DEF S
<1>5. Under(d)
  <2> SUFFICES ASSUME d # 1 PROVE Under(d)
    OBVIOUS
  <2>1. d - 1 \in 1 .. h /\ ~(d <= d - 1) /\ (d - 1) + 1 = d
    BY <1>4
  <2>2. ~Over(d - 1)
    <3> HIDE DEF Over
    <3> QED  BY <1>3, <2>1 DEF S
  <2>3. ~(160000 * d * d * m > 98696 * h)
    BY <2>1, <2>2
  <2>4. PICK p \in Int : p = 160000 * d * d * m
    BY <1>4
  <2>5. p <= 98696 * h
    BY <2>3, <2>4
  <2> QED  BY <2>4, <2>5
<1>6. NIter(h, m) = CHOOSE k \in 1 .. h : Under(k) /\ Over(k)
  BY DEF NIter
<1> HIDE DEF Under, Over
<1>7. PICK k \in 1 .. h : k = NIter(h, m) /\ Under(k)
  BY <1>4, <1>5, <1>6
<1>8. k = 1 \/ (k >= 2 /\ k \in Nat)
  BY <1>7
<1>9. k = 1 \/ m * ((k + 1) * (k + 1)) <= 3 * h
  BY <1>7, <1>8, Tripled DEF Under
<1> QED  BY <1>7, <1>9

\* What the repetitions do to the sum and the difference of the amplitudes of a
\* marked state and of another one, for m marked states among 2 * h.
Rotates(s, d, h, m, k) ==
  /\ s \in [0 .. k -> Int] /\ d \in [0 .. k -> Int]
  /\ s[0] = 2 /\ d[0] = 0
  /\ \A i \in 1 .. k : s[i] = 2 * ((h - m) * s[i - 1]) - h * d[i - 1] /\ d[i] = h * s[i - 1]

RotatesTo(amp, h, m, k) ==
  \E s, d : /\ Rotates(s, d, h, m, k) /\ amp.marked \in Int /\ amp.other \in Int
            /\ s[k] = amp.marked + amp.other /\ d[k] = amp.marked - amp.other

LEMMA OneRepetition ==
  ASSUME NEW h \in Nat, NEW m \in Nat, NEW n, n = 2 * h, NEW a \in Int, NEW b \in Int,
         NEW amp, amp = Repetition([marked |-> a, other |-> b], m, n)
  PROVE  /\ amp \in [marked : Int, other : Int]
         /\ amp.marked - amp.other = h * (a + b)
         /\ amp.marked + amp.other = 2 * ((h - m) * (a + b)) - h * (a - b)
<1>1. n \div 2 = h
  OBVIOUS
<1> DEFINE total == (n - m) * b - m * a
<1>2. amp = [marked |-> total + h * a, other |-> total - h * b]
  BY <1>1 DEF Repetition
<1>3. PICK ha \in Int, hb \in Int, ma \in Int, mb \in Int :
        ha = h * a /\ hb = h * b /\ ma = m * a /\ mb = m * b
  OBVIOUS
<1>4. total = 2 * hb - mb - ma
  BY <1>3
<1>5. h * (a + b) = ha + hb /\ h * (a - b) = ha - hb /\ (h - m) * (a + b) = ha + hb - ma - mb
  BY <1>3
<1> HIDE DEF total
<1>6. amp.marked = total + ha /\ amp.other = total - hb /\ total \in Int
  BY <1>2, <1>3, <1>4
<1>7. amp \in [marked : Int, other : Int]
  BY <1>2, <1>3, <1>6
<1> QED  BY <1>4, <1>5, <1>6, <1>7

LEMMA AmplitudeSteps ==
  ASSUME NEW h \in Nat, NEW m \in Nat, NEW k \in Nat, NEW amp, amp = Amplitudes(m, 2 * h, k)
  PROVE  RotatesTo(amp, h, m, k)
<1> DEFINE V == [marked : Int, other : Int]
           n == 2 * h
           Eq(g) == g = [i \in 0 .. k |-> IF i = 0 THEN Uniform ELSE Repetition(g[i - 1], m, n)]
           g == CHOOSE g : Eq(g)
           F == [i \in 1 .. k |-> [x \in V |-> Repetition(x, m, n)]]
<1>1. amp = g[k]
  BY DEF Amplitudes
<1>a. ASSUME NEW x \in V
      PROVE  /\ Repetition(x, m, n) \in V
             /\ Repetition(x, m, n).marked - Repetition(x, m, n).other = h * (x.marked + x.other)
             /\ Repetition(x, m, n).marked + Repetition(x, m, n).other
                  = 2 * ((h - m) * (x.marked + x.other)) - h * (x.marked - x.other)
  <2>1. PICK a \in Int, b \in Int : x = [marked |-> a, other |-> b]
    OBVIOUS
  <2>2. a = x.marked /\ b = x.other
    BY <2>1
  <2> HIDE DEF n
  <2>3. n = 2 * h
    BY DEF n
  <2> QED  BY <2>1, <2>2, <2>3, OneRepetition
<1>2. F \in [1 .. k -> [V -> V]] /\ Uniform \in V /\ Uniform.marked = 1 /\ Uniform.other = 1
  <2>1. \A x \in V : Repetition(x, m, n) \in V
    BY <1>a
  <2>2. Uniform \in V /\ Uniform.marked = 1 /\ Uniform.other = 1
    BY DEF Uniform
  <2> HIDE DEF V, n
  <2> QED  BY <2>1, <2>2
<1>3. PICK f : Runs(f, F, V, Uniform, k)
  <2> HIDE DEF F, V
  <2> QED  BY <1>2, Recursion
<1>v. PICK W : W = V
  OBVIOUS
<1>4. \A i \in 1 .. k : f[i] = Repetition(f[i - 1], m, n) /\ f[i - 1] \in V
  <2> SUFFICES ASSUME NEW i \in 1 .. k PROVE f[i] = Repetition(f[i - 1], m, n) /\ f[i - 1] \in V
    OBVIOUS
  <2>1. i - 1 \in 0 .. k
    OBVIOUS
  <2>2. f[i - 1] \in V /\ f[i] = F[i][f[i - 1]]
    <3> HIDE DEF V, F
    <3> QED  BY <1>3, <2>1 DEF Runs
  <2> HIDE DEF V, n
  <2> QED  BY <2>2
<1>5. f \in [0 .. k -> V] /\ f[0] = Uniform
  BY <1>3 DEF Runs
<1> HIDE DEF F
<1>6. Eq(f)
  <2>1. ASSUME NEW i \in 0 .. k PROVE f[i] = IF i = 0 THEN Uniform ELSE Repetition(f[i - 1], m, n)
    <3>1. i # 0 => i \in 1 .. k
      OBVIOUS
    <3> HIDE DEF V, n
    <3> QED  BY <1>4, <1>5, <3>1
  <2> HIDE DEF V, n
  <2> QED  BY <1>5, <2>1
<1>7. Eq(g)
  <2> HIDE DEF Eq
  <2> QED  BY <1>6
<1> HIDE DEF g
<1>8. g = [i \in 0 .. k |-> IF i = 0 THEN Uniform ELSE Repetition(g[i - 1], m, n)]
  BY <1>7
<1> HIDE DEF Eq, n
<1>9. g[0] = Uniform /\ \A i \in 1 .. k : g[i] = Repetition(g[i - 1], m, n)
  <2>1. 0 \in 0 .. k /\ \A i \in 1 .. k : i \in 0 .. k /\ i # 0
    OBVIOUS
  <2> QED  BY <1>8, <2>1
<1> DEFINE G == {i \in 0 .. k : g[i] \in V}
<1> HIDE DEF V
<1>10. 0 \in G
  BY <1>2, <1>9
<1>11. ASSUME NEW i \in 0 .. k - 1, i \in G PROVE i + 1 \in G
  <2>1. i + 1 \in 1 .. k /\ i + 1 \in 0 .. k /\ (i + 1) - 1 = i
    OBVIOUS
  <2>2. g[i + 1] = Repetition(g[i], m, n) /\ g[i] \in V
    BY <1>9, <1>11, <2>1
  <2> QED  BY <1>a, <2>1, <2>2
<1>12. \A i \in 0 .. k : g[i] \in V
  <2> HIDE DEF G
  <2>1. 0 \in Nat /\ k \in Int
    OBVIOUS
  <2>2. \A i \in 0 .. k : i \in G
    BY <1>10, <1>11, <2>1, UpTo
  <2> QED  BY <2>2 DEF G
<1> DEFINE s == [i \in 0 .. k |-> g[i].marked + g[i].other]
           d == [i \in 0 .. k |-> g[i].marked - g[i].other]
<1>13. \A i \in 0 .. k : g[i].marked \in Int /\ g[i].other \in Int
  BY <1>12 DEF V
<1>14. /\ s \in [0 .. k -> Int] /\ d \in [0 .. k -> Int] /\ s[0] = 2 /\ d[0] = 0
       /\ s[k] = amp.marked + amp.other /\ d[k] = amp.marked - amp.other
  <2>1. 0 \in 0 .. k /\ k \in 0 .. k
    OBVIOUS
  <2>2. s \in [0 .. k -> Int] /\ d \in [0 .. k -> Int]
    BY <1>13
  <2>3. /\ s[0] = g[0].marked + g[0].other /\ d[0] = g[0].marked - g[0].other
        /\ s[k] = g[k].marked + g[k].other /\ d[k] = g[k].marked - g[k].other
    BY <2>1
  <2> HIDE DEF s, d
  <2>4. g[0].marked = 1 /\ g[0].other = 1
    BY <1>2, <1>9
  <2>5. s[0] = 2 /\ d[0] = 0
    BY <2>3, <2>4
  <2> QED  BY <1>1, <2>2, <2>3, <2>5
<1>15. ASSUME NEW i \in 1 .. k
       PROVE  s[i] = 2 * ((h - m) * s[i - 1]) - h * d[i - 1] /\ d[i] = h * s[i - 1]
  <2>1. i \in 0 .. k /\ i - 1 \in 0 .. k
    OBVIOUS
  <2>2. PICK x \in V : x = g[i - 1] /\ g[i] = Repetition(x, m, n)
    BY <1>9, <1>12, <2>1
  <2>3. PICK y : y = Repetition(x, m, n)
    OBVIOUS
  <2>4. /\ y.marked - y.other = h * (x.marked + x.other)
        /\ y.marked + y.other = 2 * ((h - m) * (x.marked + x.other)) - h * (x.marked - x.other)
    BY <1>a, <2>3
  <2>5. /\ s[i] = y.marked + y.other /\ d[i] = y.marked - y.other
        /\ s[i - 1] = x.marked + x.other /\ d[i - 1] = x.marked - x.other
    BY <2>1, <2>2, <2>3
  <2> HIDE DEF s, d
  <2> QED  BY <2>4, <2>5, Zenon
<1>16. Rotates(s, d, h, m, k)
  <2> HIDE DEF s, d
  <2> QED  BY <1>14, <1>15 DEF Rotates
<1>17. amp.marked \in Int /\ amp.other \in Int
  <2>1. k \in 0 .. k
    OBVIOUS
  <2> QED  BY <1>1, <1>13, <2>1
<1> HIDE DEF s, d
<1> QED  BY <1>14, <1>16, <1>17 DEF RotatesTo

\* What the sum and the difference are compared with: a - i * i is positive up
\* to the last repetition, and the values bend as the sines of multiples of an
\* angle do, but for the 6 * i.
Bent(a, i) == i * (a - i * i)

LEMMA BentBends ==
  ASSUME NEW a \in Int, NEW j \in Int
  PROVE  Bent(a, j - 1) + Bent(a, j + 1) = 2 * Bent(a, j) - 6 * j /\ Bent(a, j) \in Int
<1>1. PICK q \in Int : q = j * j
  OBVIOUS
<1>2. (j - 1) * (j - 1) = q - 2 * j + 1 /\ (j + 1) * (j + 1) = q + 2 * j + 1
  BY <1>1
<1>3. PICK b \in Int : b = a - q
  BY <1>1
<1>4. Bent(a, j) = j * b
  BY <1>1, <1>3 DEF Bent
<1>5. Bent(a, j - 1) = (j - 1) * (b + 2 * j - 1)
  BY <1>1, <1>2, <1>3 DEF Bent
<1>6. Bent(a, j + 1) = (j + 1) * (b - 2 * j - 1)
  BY <1>1, <1>2, <1>3 DEF Bent
<1>7. PICK p \in Int : p = j * b
  OBVIOUS
<1>8. (j - 1) * (b + 2 * j - 1) = p + 2 * q - 3 * j - b + 1
  BY <1>1, <1>7
<1>9. (j + 1) * (b - 2 * j - 1) = p - 2 * q - 3 * j + b - 1
  BY <1>1, <1>7
<1> QED  BY <1>4, <1>5, <1>6, <1>7, <1>8, <1>9

LEMMA BentIsPositive ==
  ASSUME NEW k \in Nat, NEW a, a = (k + 1) * (k + 1) + 1, NEW j \in 1 .. k + 1
  PROVE  Bent(a, j) \in Int /\ Bent(a, j) > 0 /\ a \in Int
<1>1. PICK q \in Int, t \in Int : q = j * j /\ t = (k + 1) * (k + 1)
  OBVIOUS
<1>2. q <= t
  BY <1>1
<1>3. PICK b \in Int : b = a - q /\ b >= 1
  BY <1>1, <1>2
<1>4. Bent(a, j) = j * b
  BY <1>1, <1>3 DEF Bent
<1>5. j * b >= 1 /\ j * b \in Int
  BY <1>3
<1> QED  BY <1>1, <1>4, <1>5

\* What a repetition takes from the sum is no more than what it may.
LEMMA BentEnough ==
  ASSUME NEW h \in Nat, NEW m \in Nat, NEW a \in Int, NEW j \in Nat, j >= 1, m * (a - 1) <= 3 * h
  PROVE  h * Bent(a, j + 1) <= 2 * ((h - m) * Bent(a, j)) - h * Bent(a, j - 1)
<1>1. PICK e \in Int, f \in Int, g \in Int :
        e = Bent(a, j - 1) /\ f = Bent(a, j) /\ g = Bent(a, j + 1) /\ g = 2 * f - 6 * j - e
  <2>1. /\ Bent(a, j - 1) + Bent(a, j + 1) = 2 * Bent(a, j) - 6 * j
        /\ Bent(a, j) \in Int /\ Bent(a, j - 1) \in Int /\ Bent(a, j + 1) \in Int
    BY BentBends
  <2> QED  BY <2>1
<1>2. m * f <= 3 * (h * j)
  <2>1. PICK b \in Int : b = a - j * j
    OBVIOUS
  <2>2. j * j >= 1
    OBVIOUS
  <2>3. b <= a - 1
    BY <2>1, <2>2
  <2>4. m * b <= m * (a - 1)
    BY <2>3
  <2>5. PICK p \in Int : p = m * b
    BY <2>1
  <2>6. p <= 3 * h
    <3>1. PICK r \in Int : r = m * (a - 1)
      OBVIOUS
    <3> QED  BY <2>4, <2>5, <3>1
  <2>7. j * p <= j * (3 * h)
    BY <2>6
  <2>8. f = j * b
    BY <1>1, <2>1 DEF Bent
  <2>9. m * (j * b) = j * (m * b)
    BY <2>1
  <2>10. j * (3 * h) = 3 * (h * j)
    OBVIOUS
  <2> QED  BY <2>5, <2>7, <2>8, <2>9, <2>10
<1>3. PICK hf \in Int, mf \in Int, he \in Int, hj \in Int :
        hf = h * f /\ mf = m * f /\ he = h * e /\ hj = h * j
  OBVIOUS
<1>4. h * g = 2 * hf - 6 * hj - he
  BY <1>1, <1>3
<1>5. (h - m) * f = hf - mf
  BY <1>3
<1>6. mf <= 3 * hj
  BY <1>2, <1>3
<1> QED  BY <1>1, <1>3, <1>4, <1>5, <1>6

\* One repetition keeps the comparison.
LEMMA ApartStep ==
  ASSUME NEW h \in Nat \ {0}, NEW m \in Nat, NEW e \in Int, NEW f \in Int, NEW g \in Int,
         f > 0, h * g <= 2 * ((h - m) * f) - h * e,
         NEW s \in Int, NEW d \in Int, s > 0, s * e >= d * f
  PROVE  (2 * ((h - m) * s) - h * d) * f >= (h * s) * g
<1>1. PICK x \in Int, y \in Int : x = s * e /\ y = d * f
  OBVIOUS
<1>2. h * y <= h * x
  BY <1>1
<1>3. PICK c \in Int : c = (h - m) * f
  OBVIOUS
<1>4. PICK u \in Int, v \in Int : u = h * g /\ v = h * e
  OBVIOUS
<1>5. u <= 2 * c - v
  BY <1>3, <1>4
<1>6. s * u <= s * (2 * c - v)
  BY <1>5
<1>7. s * (2 * c - v) = 2 * (s * c) - s * v
  OBVIOUS
<1>8. s * c = ((h - m) * s) * f
  BY <1>3
<1>9. s * v = h * x
  BY <1>1, <1>4
<1>10. s * u = (h * s) * g
  BY <1>4
<1>11. (2 * ((h - m) * s) - h * d) * f = 2 * (((h - m) * s) * f) - h * y
  <2>1. PICK z \in Int : z = (h - m) * s
    OBVIOUS
  <2>2. (2 * z - h * d) * f = 2 * (z * f) - (h * d) * f
    OBVIOUS
  <2>3. (h * d) * f = h * y
    BY <1>1
  <2> QED  BY <2>1, <2>2, <2>3
<1>12. PICK sc \in Int, hx \in Int, hy \in Int, su \in Int :
         sc = s * c /\ hx = h * x /\ hy = h * y /\ su = s * u
  OBVIOUS
<1>13. su <= 2 * sc - hx
  BY <1>6, <1>7, <1>9, <1>12
<1>14. hy <= hx
  BY <1>2, <1>12
<1> QED  BY <1>8, <1>10, <1>11, <1>12, <1>13, <1>14

\* As long as the angle is below pi / 2 the sum and the difference are positive.
LEMMA TurnedApart ==
  ASSUME NEW h \in Nat \ {0}, NEW m \in 1 .. h - 1, NEW k \in Nat \ {0},
         k = 1 \/ m * ((k + 1) * (k + 1)) <= 3 * h,
         NEW s, NEW d, Rotates(s, d, h, m, k)
  PROVE  s[k] \in Int /\ d[k] \in Int /\ s[k] > 0 /\ d[k] > 0
<1>1. /\ s \in [0 .. k -> Int] /\ d \in [0 .. k -> Int] /\ s[0] = 2 /\ d[0] = 0
      /\ \A i \in 1 .. k : s[i] = 2 * ((h - m) * s[i - 1]) - h * d[i - 1] /\ d[i] = h * s[i - 1]
  BY DEF Rotates
<1>2. CASE k = 1
  <2>1. 1 \in 1 .. k /\ 1 - 1 = 0
    BY <1>2
  <2>2. s[1] = 2 * ((h - m) * 2) - h * 0 /\ d[1] = h * 2
    BY <1>1, <2>1
  <2> QED  BY <1>2, <2>2
<1>3. CASE m * ((k + 1) * (k + 1)) <= 3 * h
  <2>1. PICK a \in Int : a = (k + 1) * (k + 1) + 1 /\ m * (a - 1) <= 3 * h
    BY <1>3
  <2> DEFINE B(i) == Bent(a, i)
             G == {i \in 0 .. k : s[i] > 0 /\ (i > 0 => d[i] > 0) /\ s[i] * B(i) >= d[i] * B(i + 1)}
  <2>2. \A i \in 1 .. k + 1 : B(i) \in Int /\ B(i) > 0
    BY <2>1, BentIsPositive
  <2>3. B(0) = 0
    BY <2>1 DEF Bent
  <2> HIDE DEF B
  <2>4. 0 \in G
    <3>1. 1 \in 1 .. k + 1 /\ 0 + 1 = 1
      OBVIOUS
    <3>2. B(1) \in Int
      BY <2>2, <3>1
    <3>3. \A b \in Int : 2 * 0 >= 0 * b
      OBVIOUS
    <3>4. s[0] * B(0) >= d[0] * B(1)
      BY <1>1, <2>3, <3>2, <3>3
    <3>5. 0 \in 0 .. k /\ s[0] > 0 /\ ~(0 > 0)
      BY <1>1
    <3> QED  BY <3>1, <3>4, <3>5
  <2>5. ASSUME NEW i \in 0 .. k - 1, i \in G PROVE i + 1 \in G
    <3>1. /\ i + 1 \in 1 .. k /\ i + 1 \in 0 .. k /\ (i + 1) - 1 = i /\ i \in 0 .. k /\ i + 1 \in Nat /\ i + 1 >= 1
          /\ i + 1 \in 1 .. k + 1 /\ (i + 1) + 1 \in 1 .. k + 1 /\ i + 1 > 0
      OBVIOUS
    <3>2. PICK x \in Int, y \in Int : x = s[i] /\ y = d[i]
      BY <1>1, <3>1
    <3>3. PICK e \in Int, f \in Int, g \in Int :
            e = B(i) /\ f = B(i + 1) /\ g = B((i + 1) + 1) /\ f > 0 /\ g > 0
      <4>1. B(i) \in Int
        BY <2>1, <3>1, BentBends DEF B
      <4> QED  BY <2>2, <3>1, <4>1
    <3>4. h * g <= 2 * ((h - m) * f) - h * e
      <4>1. h * B((i + 1) + 1) <= 2 * ((h - m) * B(i + 1)) - h * B((i + 1) - 1)
        <5>1. m \in Nat /\ h \in Nat
          OBVIOUS
        <5> QED  BY <2>1, <3>1, <5>1, BentEnough DEF B
      <4> QED  BY <3>1, <3>3, <4>1
    <3>5. x > 0 /\ x * e >= y * f
      BY <2>5, <3>2, <3>3
    <3>6. s[i + 1] = 2 * ((h - m) * x) - h * y /\ d[i + 1] = h * x
      BY <1>1, <3>1, <3>2
    <3>7. (2 * ((h - m) * x) - h * y) * f >= (h * x) * g
      <4>1. m \in Nat
        OBVIOUS
      <4> QED  BY <3>3, <3>4, <3>5, <4>1, ApartStep
    <3>8. PICK u \in Int, v \in Int : u = s[i + 1] /\ v = d[i + 1] /\ v = h * x
      BY <3>6
    <3>9. v > 0
      BY <3>5, <3>8
    <3>10. u * f >= v * g
      BY <3>6, <3>7, <3>8
    <3>11. u > 0
      BY <3>3, <3>9, <3>10
    <3> HIDE DEF G
    <3> QED  BY <3>1, <3>3, <3>8, <3>9, <3>10, <3>11 DEF G
  <2> HIDE DEF G
  <2>6. k \in G
    <3>1. 0 \in Nat /\ k \in Int /\ k \in 0 .. k
      OBVIOUS
    <3> QED  BY <2>4, <2>5, <3>1, UpTo
  <2>7. k \in 0 .. k
    OBVIOUS
  <2> QED  BY <1>1, <2>6, <2>7 DEF G
<1> QED  BY <1>2, <1>3

LEMMA MarkedAreLikelier ==
  ASSUME NEW h \in Nat \ {0}, NEW m \in 1 .. h - 1, NEW amp, amp = Amplitudes(m, 2 * h, NIter(h, m))
  PROVE  Square(amp.marked) \in Int /\ Square(amp.other) \in Int /\ Square(amp.marked) > Square(amp.other)
<1>1. PICK k \in 1 .. h : k = NIter(h, m) /\ (k = 1 \/ m * ((k + 1) * (k + 1)) <= 3 * h)
  <2>1. m \in 1 .. h
    OBVIOUS
  <2> QED  BY <2>1, RepetitionsSuffice
<1>2. k \in Nat \ {0} /\ k \in Nat /\ h \in Nat /\ m \in Nat
  OBVIOUS
<1>3. PICK s, d : /\ Rotates(s, d, h, m, k) /\ amp.marked \in Int /\ amp.other \in Int
                  /\ s[k] = amp.marked + amp.other /\ d[k] = amp.marked - amp.other
  <2>1. amp = Amplitudes(m, 2 * h, k)
    BY <1>1
  <2>2. RotatesTo(amp, h, m, k)
    BY <1>2, <2>1, AmplitudeSteps, Zenon
  <2> QED  BY <2>2 DEF RotatesTo
<1>4. s[k] > 0 /\ d[k] > 0
  BY <1>1, <1>2, <1>3, TurnedApart
<1>5. PICK a \in Int, b \in Int : a = amp.marked /\ b = amp.other
  BY <1>3
<1>6. a + b > 0 /\ a - b > 0
  BY <1>3, <1>4, <1>5
<1>7. (a + b) * (a - b) > 0
  BY <1>6
<1>8. (a + b) * (a - b) = a * a - b * b
  OBVIOUS
<1>9. a * a > b * b
  <2>1. PICK p \in Int, q \in Int : p = a * a /\ q = b * b
    OBVIOUS
  <2> QED  BY <1>7, <1>8, <2>1
<1> QED  BY <1>5, <1>9 DEF Square

\* The oracle marks fewer states than half of them, and one at least.
LEMMA MarkedAreFew ==
  ASSUME NEW nodes, Len(nodes) \in Nat, NEW cycles, cycles = EnumerateCycles(nodes),
         NEW idxs \in SUBSET (0 .. Len(cycles) - 1), idxs # {}
  PROVE  /\ NData(Len(cycles)) \in Nat /\ Pow2(NData(Len(cycles))) \in Nat \ {0}
         /\ Cardinality(idxs) \in 1 .. Pow2(NData(Len(cycles))) - 1
<1>1. PICK n \in Nat, c \in Nat : n = Len(cycles) /\ n = 3 * c
  BY CyclesAreTriples
<1>2. PICK i \in 0 .. n - 1 : i \in idxs
  BY <1>1
<1>3. n \in Nat \ {0}
  BY <1>2
<1>4. NData(n) \in Nat /\ n <= Pow2(NData(n))
  BY <1>3, BitsSuffice
<1>5. PICK h \in Nat \ {0} : h = Pow2(NData(n))
  BY <1>4, PowersOfTwo
<1>6. h # 3 * c
  BY <1>4, <1>5, PowerIsNoTriple
<1>7. n <= h - 1
  BY <1>1, <1>4, <1>5, <1>6
<1>8. IsFiniteSet(0 .. n - 1) /\ Cardinality(0 .. n - 1) = n
  <2>1. 0 \in Int /\ n - 1 \in Int /\ ~(0 > n - 1) /\ (n - 1) - 0 + 1 = n
    BY <1>3
  <2>2. /\ IsFiniteSet(0 .. n - 1)
        /\ Cardinality(0 .. n - 1) = IF 0 > n - 1 THEN 0 ELSE (n - 1) - 0 + 1
    BY <2>1, FS_Interval
  <2> QED  BY <2>1, <2>2
<1>9. IsFiniteSet(idxs) /\ Cardinality(idxs) <= n
  <2>1. idxs \in SUBSET (0 .. n - 1)
    BY <1>1
  <2> QED  BY <1>8, <2>1, FS_Subset
<1>10. Cardinality(idxs) \in Nat /\ Cardinality(idxs) # 0
  BY <1>9, FS_CardinalityType, FS_EmptySet
<1>11. Cardinality(idxs) \in 1 .. h - 1
  BY <1>3, <1>7, <1>9, <1>10
<1> QED  BY <1>1, <1>4, <1>5, <1>11

LEMMA MarkedAreLikeliest ==
  ASSUME NEW r, NEW nodes, Len(nodes) \in Nat, NEW cycles, cycles = EnumerateCycles(nodes),
         ProfitableIdxs(cycles, r) # {}
  PROVE  Likeliest(Circuit(cycles, r)) = Circuit(cycles, r).marked
<1>1. PICK idxs \in SUBSET (0 .. Len(cycles) - 1) : idxs = ProfitableIdxs(cycles, r) /\ idxs # {}
  BY DEF ProfitableIdxs
<1>2. PICK b, h, m :
        /\ b = NData(Len(cycles)) /\ h = Pow2(b) /\ m = Cardinality(idxs)
        /\ b \in Nat /\ h \in Nat \ {0} /\ m \in 1 .. h - 1
  BY <1>1, MarkedAreFew
<1>3. Pow2(b + 1) = 2 * h
  BY <1>2, PowerDoubles
<1>4. PICK amp : amp = Amplitudes(m, 2 * h, NIter(h, m))
  OBVIOUS
<1>5. Square(amp.marked) > Square(amp.other)
  BY <1>2, <1>4, MarkedAreLikelier
<1>6. Circuit(cycles, r) = [states |-> 0 .. Pow2(b + 1) - 1, marked |-> BuildOracle(idxs, b), amp |-> amp]
  BY <1>1, <1>2, <1>3, <1>4 DEF Circuit
<1>7. PICK circuit : circuit = Circuit(cycles, r) /\ circuit.amp = amp
  BY <1>6
<1> QED  BY <1>5, <1>7 DEF Likeliest

-----------------------------------------------------------------------------
\* The number of repetitions that run_grover chooses makes every state the
\* oracle has marked likelier than every other one, for any number of assets
\* and whatever the rates of the round.
THEOREM MarkedStatesStandOut == QuantumSpec => []MarkedStandOut
<1>1. QuantumInv => MarkedStandOut
  <2> SUFFICES ASSUME QuantumInv, loop = "grover", NEW cycles, cycles = EnumerateCycles(NodeList(rates)),
                      ProfitableIdxs(cycles, rates) # {}
               PROVE  Likeliest(Circuit(cycles, rates)) = Circuit(cycles, rates).marked
    BY DEF MarkedStandOut
  <2>1. rates \in Matrices
    BY DEF QuantumInv, QTypeOK
  <2>2. PICK nodes : nodes = NodeList(rates) /\ Len(nodes) \in Nat
    BY <2>1, MatrixIsRead
  <2> QED  BY <2>2, MarkedAreLikeliest
<1> QED  BY <1>1, RoundsFitTogether, PTL

-----------------------------------------------------------------------------
(* The states that the oracle marks.                                       *)

LEMMA Divided ==
  ASSUME NEW i \in Nat, NEW p \in Nat \ {0}
  PROVE  \E q \in Nat, c \in 0 .. p - 1 : q = i \div p /\ c = i % p /\ i = q * p + c
<1> DEFINE G == {j \in 0 .. i : \E q \in Nat, c \in 0 .. p - 1 : j = q * p + c}
<1>1. 0 \in G
  <2>1. 0 \in Nat /\ 0 \in 0 .. p - 1 /\ 0 = 0 * p + 0
    OBVIOUS
  <2> QED  BY <2>1
<1>2. ASSUME NEW j \in 0 .. i - 1, j \in G PROVE j + 1 \in G
  <2>1. PICK q \in Nat, c \in 0 .. p - 1 : j = q * p + c
    BY <1>2
  <2>2. CASE c + 1 \in 0 .. p - 1
    BY <2>1, <2>2
  <2>3. CASE c = p - 1
    <3>1. PICK r \in Nat, e \in 0 .. p - 1 : r = q + 1 /\ e = 0
      OBVIOUS
    <3>2. j + 1 = r * p + e
      BY <2>1, <2>3, <3>1
    <3>3. j + 1 \in 0 .. i
      OBVIOUS
    <3> QED  BY <3>2, <3>3
  <2> QED  BY <2>2, <2>3
<1> HIDE DEF G
<1>3. i \in G
  <2>1. 0 \in Nat /\ i \in Int /\ i \in 0 .. i
    OBVIOUS
  <2> QED  BY <1>1, <1>2, <2>1, UpTo
<1>4. PICK q \in Nat, c \in 0 .. p - 1 : i = q * p + c
  BY <1>3 DEF G
<1>5. (q * p + c) \div p = q /\ (q * p + c) % p = c
  BY Quotient, Remainder
<1> QED  BY <1>4, <1>5

\* One more bit of a remainder.
LEMMA NextBit ==
  ASSUME NEW i \in Nat, NEW p \in Nat \ {0}
  PROVE  i % (2 * p) = (i % p) + ((i \div p) % 2) * p
<1>1. PICK q \in Nat, c \in 0 .. p - 1 : q = i \div p /\ c = i % p /\ i = q * p + c
  BY Divided
<1>2. PICK u \in Nat, x \in 0 .. 1 : x = q % 2 /\ q = u * 2 + x
  <2>1. PICK u \in Nat, x \in 0 .. 2 - 1 : u = q \div 2 /\ x = q % 2 /\ q = u * 2 + x
    BY Divided
  <2>2. x \in 0 .. 1
    OBVIOUS
  <2> QED  BY <2>1, <2>2
<1>3. q * p = u * (2 * p) + x * p
  <2>1. (u * 2 + x) * p = u * (2 * p) + x * p
    OBVIOUS
  <2> QED  BY <1>2, <2>1
<1>4. PICK y \in Nat : y = x * p /\ y <= p
  <2>1. x = 0 \/ x = 1
    OBVIOUS
  <2> QED  BY <2>1
<1>5. PICK t \in Nat, z \in Int : t = 2 * p /\ z = u * t
  OBVIOUS
<1>6. t \in Nat \ {0} /\ y + c \in 0 .. t - 1 /\ i = u * t + (y + c)
  BY <1>1, <1>3, <1>4, <1>5
<1>7. (u * t + (y + c)) % t = y + c
  BY <1>6, Remainder
<1>8. i % (2 * p) = y + c
  BY <1>5, <1>6, <1>7
<1>9. (i \div p) % 2 = x
  BY <1>1, <1>2
<1> QED  BY <1>1, <1>4, <1>8, <1>9

\* A number of n bits backwards is one of n bits again, and no other's.
LEMMA ReversedApart ==
  ASSUME NEW n \in Nat, NEW i \in Nat, NEW j \in Nat
  PROVE  /\ Reversed(i, n) \in 0 .. Pow2(n) - 1
         /\ Reversed(i, n) = Reversed(j, n) => i % Pow2(n) = j % Pow2(n)
<1>1. PICK f : Reversals(f, i, n) /\ f[n] = Reversed(i, n)
  BY ReversedSteps
<1>2. PICK g : Reversals(g, j, n) /\ g[n] = Reversed(j, n)
  BY ReversedSteps
<1> DEFINE Fit(b) == \E u, v \in Nat : /\ f[b] = u * Pow2(n - b) /\ g[b] = v * Pow2(n - b)
                                       /\ u < Pow2(b)
                                       /\ u = v => i % Pow2(b) = j % Pow2(b)
           G == {b \in 0 .. n : Fit(b)}
<1>3. Pow2(0) = 1
  <2>1. PICK e : Doublings(e, 0) /\ e[0] = Pow2(0)
    BY PowerSteps
  <2> QED  BY <2>1 DEF Doublings
<1>4. 0 \in G
  <2>1. PICK p \in Nat \ {0} : p = Pow2(n - 0)
    BY PowersOfTwo
  <2>2. PICK z \in Nat : z = 0
    OBVIOUS
  <2>3. f[0] = z * p /\ g[0] = z * p /\ z < 1 /\ i % 1 = j % 1
    <3>1. f[0] = 0 /\ g[0] = 0
      BY <1>1, <1>2 DEF Reversals
    <3>2. i % 1 = 0 /\ j % 1 = 0 /\ 0 * p = 0
      OBVIOUS
    <3> QED  BY <2>2, <3>1, <3>2
  <2>4. 0 \in 0 .. n
    OBVIOUS
  <2> QED  BY <1>3, <2>1, <2>3, <2>4
<1>5. ASSUME NEW b \in 0 .. n - 1, b \in G PROVE b + 1 \in G
  <2>1. b \in Nat /\ b + 1 \in 1 .. n /\ b + 1 \in 0 .. n /\ (b + 1) - 1 = b /\ n - (b + 1) \in Nat
        /\ (n - (b + 1)) + 1 = n - b
    OBVIOUS
  <2>2. PICK p \in Nat \ {0}, w \in Nat \ {0} : p = Pow2(b) /\ w = Pow2(n - (b + 1))
    BY <2>1, PowersOfTwo
  <2>3. Pow2(b + 1) = 2 * p /\ Pow2(n - b) = 2 * w
    <3>1. Pow2((n - (b + 1)) + 1) = 2 * Pow2(n - (b + 1))
      BY <2>1, PowerDoubles
    <3> QED  BY <2>1, <2>2, <3>1, PowerDoubles
  <2>4. PICK u \in Nat, v \in Nat : /\ f[b] = u * (2 * w) /\ g[b] = v * (2 * w) /\ u < p
                                    /\ u = v => i % p = j % p
    BY <1>5, <2>2, <2>3
  <2>5. PICK x \in 0 .. 1, y \in 0 .. 1 : x = BitOf(i, b) /\ y = BitOf(j, b)
    BY <2>1, BitIsBit
  <2>6. f[b + 1] = u * (2 * w) + x * w /\ g[b + 1] = v * (2 * w) + y * w
    BY <1>1, <1>2, <2>1, <2>2, <2>4, <2>5 DEF Reversals
  <2>7. PICK s \in Nat, t \in Nat : s = 2 * u + x /\ t = 2 * v + y
    OBVIOUS
  <2>8. f[b + 1] = s * w /\ g[b + 1] = t * w
    <3>1. u * (2 * w) + x * w = (2 * u + x) * w /\ v * (2 * w) + y * w = (2 * v + y) * w
      OBVIOUS
    <3> QED  BY <2>6, <2>7, <3>1
  <2>9. s < 2 * p
    BY <2>4, <2>5, <2>7
  <2>10. ASSUME s = t PROVE i % (2 * p) = j % (2 * p)
    <3>1. u = v /\ x = y
      BY <2>5, <2>7, <2>10
    <3>2. i % (2 * p) = (i % p) + x * p /\ j % (2 * p) = (j % p) + y * p
      BY <2>2, <2>5, NextBit DEF BitOf
    <3>3. i % p = j % p
      BY <2>4, <3>1
    <3> QED  BY <3>1, <3>2, <3>3, Zenon
  <2>11. Fit(b + 1)
    BY <2>2, <2>3, <2>8, <2>9, <2>10
  <2> QED  BY <2>1, <2>11
<1> HIDE DEF G
<1>6. n \in G
  <2>1. 0 \in Nat /\ n \in Int /\ n \in 0 .. n
    OBVIOUS
  <2> QED  BY <1>4, <1>5, <2>1, UpTo
<1>7. n - n = 0
  OBVIOUS
<1>8. PICK u \in Nat, v \in Nat : /\ f[n] = u * 1 /\ g[n] = v * 1 /\ u < Pow2(n)
                                  /\ u = v => i % Pow2(n) = j % Pow2(n)
  BY <1>3, <1>6, <1>7 DEF G
<1>9. PICK p \in Nat : p = Pow2(n)
  BY PowersOfTwo
<1>10. u \in 0 .. p - 1 /\ u * 1 = u /\ v * 1 = v
  BY <1>8, <1>9
<1> QED  BY <1>1, <1>2, <1>8, <1>9, <1>10

\* The oracle marks one state for each of the indices it is given.
LEMMA OracleMarksEach ==
  ASSUME NEW b \in Nat, NEW idxs \in SUBSET (0 .. Pow2(b) - 1)
  PROVE  /\ BuildOracle(idxs, b) \subseteq 0 .. Pow2(b + 1) - 1
         /\ Cardinality(BuildOracle(idxs, b)) = Cardinality(idxs)
<1>1. PICK h \in Nat \ {0} : h = Pow2(b) /\ Pow2(b + 1) = 2 * h
  BY PowersOfTwo, PowerDoubles
<1> DEFINE f == [i \in idxs |-> h + Reversed(i, b)]
           M == BuildOracle(idxs, b)
<1>2. ASSUME NEW i \in idxs, NEW j \in idxs
      PROVE  Reversed(i, b) \in 0 .. h - 1 /\ (Reversed(i, b) = Reversed(j, b) => i = j)
  <2>1. i \in 0 .. h - 1 /\ j \in 0 .. h - 1 /\ i \in Nat /\ j \in Nat
    BY <1>1
  <2>2. Reversed(i, b) \in 0 .. h - 1 /\ (Reversed(i, b) = Reversed(j, b) => i % h = j % h)
    BY <1>1, <2>1, ReversedApart
  <2>3. i % h = i /\ j % h = j
    <3>1. (0 * h + i) % h = i /\ (0 * h + j) % h = j
      BY <1>1, <2>1, Remainder
    <3>2. 0 * h + i = i /\ 0 * h + j = j
      BY <1>1, <2>1
    <3> QED  BY <3>1, <3>2
  <2> QED  BY <2>2, <2>3
<1>3. M = {h + Reversed(i, b) : i \in idxs}
  BY <1>1 DEF BuildOracle
<1> HIDE DEF M
<1>4. M \subseteq 0 .. 2 * h - 1
  <2>1. \A i \in idxs : h + Reversed(i, b) \in 0 .. 2 * h - 1
    BY <1>2
  <2> QED  BY <1>3, <2>1
<1>5. f \in [idxs -> M] /\ \A y \in M : \E i \in idxs : f[i] = y
  BY <1>3
<1>6. \A i, j \in idxs : f[i] = f[j] => i = j
  <2> SUFFICES ASSUME NEW i \in idxs, NEW j \in idxs, f[i] = f[j] PROVE i = j
    OBVIOUS
  <2>1. PICK x \in Int, y \in Int : x = Reversed(i, b) /\ y = Reversed(j, b)
    BY <1>2
  <2>2. h + x = h + y
    BY <2>1
  <2> QED  BY <1>2, <2>1, <2>2
<1> HIDE DEF f
<1>7. f \in Bijection(idxs, M)
  BY <1>5, <1>6 DEF Bijection, Injection, Surjection, IsInjective
<1>8. IsFiniteSet(idxs)
  <2>1. IsFiniteSet(0 .. Pow2(b) - 1)
    BY <1>1, FS_Interval
  <2> QED  BY <2>1, FS_Subset
<1>9. Cardinality(M) = Cardinality(idxs)
  BY <1>7, <1>8, FS_Bijection DEF ExistsBijection
<1> QED  BY <1>1, <1>4, <1>9 DEF M

LEMMA TurnKeepsSquares ==
  ASSUME NEW h \in Int, NEW m \in Int, NEW k \in Int, k + m = 2 * h, NEW a \in Int, NEW b \in Int,
         NEW t \in Int, t = k * b - m * a, NEW x \in Int, x = t + h * a, NEW y \in Int, y = t - h * b
  PROVE  m * (x * x) + k * (y * y) = h * h * (m * (a * a) + k * (b * b))
<1>6. PICK ta \in Int, tb \in Int, tt \in Int, aa \in Int, bb \in Int :
        ta = t * (h * a) /\ tb = t * (h * b) /\ tt = t * t /\ aa = (h * a) * (h * a) /\ bb = (h * b) * (h * b)
  OBVIOUS
<1>7. x * x = tt + 2 * ta + aa /\ y * y = tt - 2 * tb + bb
  BY <1>6
<1>8. m * (x * x) + k * (y * y) = (k + m) * tt + 2 * (m * ta - k * tb) + (m * aa + k * bb)
  BY <1>7
<1>9. m * ta - k * tb = - (h * tt)
  <2>1. m * ta = (t * h) * (m * a) /\ k * tb = (t * h) * (k * b)
    BY <1>6
  <2>2. (t * h) * (m * a) - (t * h) * (k * b) = (t * h) * (m * a - k * b)
    OBVIOUS
  <2>3. m * a - k * b = - t
    OBVIOUS
  <2>4. (t * h) * (- t) = - (h * (t * t))
    OBVIOUS
  <2> QED  BY <1>6, <2>1, <2>2, <2>3, <2>4
<1>10. (k + m) * tt = 2 * (h * tt)
  <2>1. (2 * h) * tt = 2 * (h * tt)
    OBVIOUS
  <2> QED  BY <2>1
<1>11. PICK z \in Int : z = h * tt
  OBVIOUS
<1>12. m * (x * x) + k * (y * y) = m * aa + k * bb
  <2>1. 2 * z + 2 * (- z) = 0
    OBVIOUS
  <2>2. (k + m) * tt = 2 * z /\ m * ta - k * tb = - z
    BY <1>9, <1>10, <1>11
  <2>3. PICK w \in Int : w = m * aa + k * bb
    OBVIOUS
  <2>4. m * (x * x) + k * (y * y) = 2 * z + 2 * (- z) + w
    BY <1>8, <2>2, <2>3
  <2> QED  BY <2>1, <2>3, <2>4
<1>13. m * aa + k * bb = h * h * (m * (a * a) + k * (b * b))
  <2>1. PICK p \in Int, q \in Int, s \in Int : p = a * a /\ q = b * b /\ s = h * h
    OBVIOUS
  <2>2. aa = s * p /\ bb = s * q
    BY <1>6, <2>1
  <2>3. m * (s * p) + k * (s * q) = s * (m * p + k * q)
    OBVIOUS
  <2> QED  BY <2>1, <2>2, <2>3
<1> QED  BY <1>12, <1>13

\* Repetition is what a quantum computer can do: but for the factor of n / 2
\* that keeps the amplitudes integers, no step of the search changes the sum of
\* the squares over all of its n = 2 * h states, m of which are marked.
THEOREM RepetitionsKeepTheNorm ==
  ASSUME NEW h \in Nat, NEW m \in Nat, NEW amp \in [marked : Int, other : Int]
  PROVE  LET Norm(a) == m * Square(a.marked) + (2 * h - m) * Square(a.other)
         IN Norm(Repetition(amp, m, 2 * h)) = h * h * Norm(amp)
<1>1. PICK a \in Int, b \in Int : amp = [marked |-> a, other |-> b] /\ a = amp.marked /\ b = amp.other
  OBVIOUS
<1>n. 2 * h \in Int /\ 2 * h - m \in Int
  OBVIOUS
<1>k. PICK k, n : k = 2 * h - m /\ n = 2 * h
  OBVIOUS
<1>2. k \in Int /\ n \in Int /\ k = 2 * h - m /\ n = 2 * h /\ k = n - m /\ k + m = 2 * h
  BY <1>k, <1>n
<1>3. PICK t \in Int : t = k * b - m * a
  BY <1>2
<1>4. PICK x \in Int, y \in Int : x = t + h * a /\ y = t - h * b
  OBVIOUS
<1>5. Repetition(amp, m, n) = [marked |-> x, other |-> y]
  <2>1. n \div 2 = h
    BY <1>2
  <2>2. (n - m) * b - m * a = t
    BY <1>2, <1>3
  <2> QED  BY <1>1, <1>4, <2>1, <2>2 DEF Repetition
<1>6. m * (x * x) + k * (y * y) = h * h * (m * (a * a) + k * (b * b))
  BY <1>2, <1>3, <1>4, TurnKeepsSquares
<1>7. PICK next : next = Repetition(amp, m, 2 * h) /\ next.marked = x /\ next.other = y
  BY <1>2, <1>5
<1> QED  BY <1>1, <1>2, <1>6, <1>7 DEF Square

\* Whatever the rates, the circuit's oracle marks one of its states for each
\* profitable cycle: no more and no fewer than the number that the repetitions
\* are counted and the amplitudes computed for.
THEOREM OracleMarksOnePerCycle ==
  ASSUME NEW nodes, Len(nodes) \in Nat, NEW r, NEW cycles, cycles = EnumerateCycles(nodes),
         NEW idxs, idxs = ProfitableIdxs(cycles, r), idxs # {}
  PROVE  /\ Circuit(cycles, r).marked \subseteq Circuit(cycles, r).states
         /\ Cardinality(Circuit(cycles, r).marked) = Cardinality(idxs)
<1>1. PICK n \in Nat : n = Len(cycles) /\ idxs \in SUBSET (0 .. n - 1)
  BY CyclesAreTriples DEF ProfitableIdxs
<1>2. PICK b \in Nat : b = NData(n) /\ n <= Pow2(b)
  <2>1. n \in Nat \ {0}
    BY <1>1
  <2> QED  BY <2>1, BitsSuffice
<1>3. idxs \in SUBSET (0 .. Pow2(b) - 1)
  <2>1. PICK h \in Nat : h = Pow2(b)
    BY PowersOfTwo
  <2> QED  BY <1>1, <1>2, <2>1
<1>4. /\ BuildOracle(idxs, b) \subseteq 0 .. Pow2(b + 1) - 1
      /\ Cardinality(BuildOracle(idxs, b)) = Cardinality(idxs)
  BY <1>3, OracleMarksEach
<1>5. /\ Circuit(cycles, r).states = 0 .. Pow2(b + 1) - 1
      /\ Circuit(cycles, r).marked = BuildOracle(idxs, b)
  BY <1>1, <1>2 DEF Circuit
<1> QED  BY <1>4, <1>5

=============================================================================
