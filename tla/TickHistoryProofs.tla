-------------------------- MODULE TickHistoryProofs -------------------------
(***************************************************************************)
(* For all trades, gaps, page and batch sizes, and any number of cycles,   *)
(* loaders, faults and restarts: the table's variables have their types; a *)
(* trade gets a second row only where gaps or loads meet; a cancelled      *)
(* cycle stores one batch at most; a cycle that returns has filled its     *)
(* gaps; and loads leave no holes.                                         *)
(***************************************************************************)
EXTENDS TickHistory, FiniteSetTheorems, WellFoundedInduction, TLAPS

Filling == {"next", "fetch", "wait", "insert", "commit", "refresh"}

\* The task and its thread are where the other one expects it.
CycleInPlace ==
  /\ task = "ended" => conn = "closed"
  /\ task = "sleep" => thread = "idle"
  /\ thread \in {"idle", "detect", "returned"} => gaps = <<>>
  /\ thread \in (Filling \ {"next"}) => gaps # <<>>

\* A gap that is filled is one of those that were found.
TallyFits ==
  /\ thread = "detect" => tally = Zero
  /\ thread = "returned" \/ thread \in (Filling \ {"refresh"}) =>
       tally.gaps_filled + Len(gaps) <= tally.gaps_found
  /\ thread = "refresh" => tally.gaps_filled + Len(gaps) <= tally.gaps_found + 1

\* Whoever stores a batch of a cancelled cycle is about to end.
LateOnce ==
  /\ late <= BatchSize
  /\ late > 0 => task = "ended" /\ thread \in {"raised", "idle"}

\* Gaps have their ends in common and nothing else.
GapsApart ==
  /\ \A i \in DOMAIN gaps : gaps[i][1] < gaps[i][2]
  /\ \A i, j \in DOMAIN gaps :
       i # j => gaps[i][2] <= gaps[j][1] \/ gaps[j][2] <= gaps[i][1]

FetchedWithin ==
  thread \in {"fetch", "wait", "insert", "commit"} =>
    \A t \in all_rows : gaps[1][1] <= t /\ t <= gaps[1][2]

\* The gaps for which a row of a trade is still to be inserted.
First(t) ==
  IF thread \in {"next", "fetch", "wait"} \/ (thread \in {"insert", "commit"} /\ t \in all_rows)
  THEN 1 ELSE 2

Awaiting(t) ==
  IF thread \in Filling THEN {gaps[i] : i \in {j \in DOMAIN gaps : First(t) <= j}} ELSE {}

EndsAwaited(t) == {g \in Awaiting(t) : t \in {g[1], g[2]}}

\* What is inserted is still allowed for: at the ends of a gap one more row,
\* inside of it the first one.
RowsAllowed ==
  \A t \in Kraken :
    /\ rows["backfiller"][t] + Cardinality(EndsAwaited(t)) <= 1 + ends[t]
    /\ \A g \in Awaiting(t) : g[1] < t /\ t < g[2] => rows["backfiller"][t] = 0

CycleInv == CycleInPlace /\ TallyFits /\ LateOnce /\ GapsApart /\ FetchedWithin

\* What a loader holds lies between its start and its cursor.
BatchInOrder ==
  \A l \in Loaders :
    /\ loader[l] \notin {"fetch", "insert", "last"} => batch[l] = {}
    /\ loader[l] \in {"fetch", "insert"} => start[l] <= cursor[l] + 1
    /\ \A t \in batch[l] :
         start[l] <= t /\ (loader[l] \in {"fetch", "insert"} => t <= cursor[l])

\* A loader has yet to insert a trade.
Ahead(l, t) ==
  \/ t \in batch[l]
  \/ loader[l] \in {"fetch", "insert"} /\ cursor[l] < t

\* The loaders that may have made a row of a trade.
PassedBy(t) ==
  {l \in Loaders : loader[l] \notin {"unused", "none", "latest"} /\ start[l] <= t /\ ~Ahead(l, t)}

LoadedOnce == \A t \in Kraken : rows["loader"][t] <= Cardinality(PassedBy(t))

LoadInv == BatchInOrder /\ LoadedOnce

RowsInv == TypeOK /\ CycleInv /\ RowsAllowed /\ LoadInv

-----------------------------------------------------------------------------

\* A trade inside a gap.
Inside(g, t) == g[1] < t /\ t < g[2]

\* Nothing is known of the future.
NothingEarly == \A t \in Stored \cup all_rows : t <= now

StaleIsStored == stale \subseteq Stored

\* The gaps of a cycle are those that were found, apart from each other.
FoundApart ==
  /\ \A g \in found : g[1] < g[2] /\ g[2] <= now
  /\ \A g, h \in found : g # h => g[2] <= h[1] \/ h[2] <= g[1]

GapsFromFound == \A i \in DOMAIN gaps : gaps[i] \in found

\* A trade inside the present gap is still to be fetched or inserted.
ComingUp(t) ==
  \/ thread = "next"
  \/ thread \in {"fetch", "wait"} /\ (t \in all_rows \/ since < t)
  \/ thread \in {"insert", "commit"} /\ t \in all_rows

\* What lies inside a gap is stored, or the gap is not filled yet.
FilledOrPending ==
  whole /\ thread \in Filling \cup {"returned"} =>
    \A g \in found, t \in Kraken : Inside(g, t) =>
      \/ t \in Stored
      \/ \E i \in DOMAIN gaps : g = gaps[i] /\ (i = 1 => ComingUp(t))

\* Aggregates wait for a refresh only where a gap is being filled.
StaleWhereFilled ==
  faults = 0 /\ thread \in Filling \cup {"returned"} =>
    \A g \in found, t \in stale : Inside(g, t) =>
      gaps # <<>> /\ g = gaps[1] /\ thread \in {"insert", "commit", "refresh"}

FillInv == NothingEarly /\ StaleIsStored /\ FoundApart /\ GapsFromFound /\ FilledOrPending
           /\ StaleWhereFilled

LoadsArePast ==
  \A l \in Loaders : until[l] <= now /\ \A t \in batch[l] : t <= until[l]

\* A loader has still ahead what it has not stored of the trades after its
\* start.
NothingSkipped ==
  \A l \in Loaders, t \in Kraken :
    loader[l] \in {"fetch", "insert", "last", "refresh", "complete"} /\ start[l] < t /\ t <= until[l]
      => t \in Stored \/ Ahead(l, t)

\* What a loader does not load, because it is before its start, no load will.
BeforeStart ==
  \A l \in Loaders, u \in Kraken :
    loader[l] \in {"fetch", "insert", "last"} /\ u <= start[l] /\ u \notin Stored => Unreached(u)

NoHoles ==
  \A u \in Kraken, v \in Trades : u < v /\ rows["loader"][v] > 0 /\ u \notin Stored => Unreached(u)

HoleInv == LoadsArePast /\ NothingSkipped /\ BeforeStart /\ NoHoles

HistoryInv == RowsInv /\ FillInv /\ HoleInv

-----------------------------------------------------------------------------

(* Sets of trades, and pages of them.                                      *)

\* A set of numbers that is not empty has a least one.
LEMMA LeastMember ==
  ASSUME NEW S, S \subseteq Nat, S # {}
  PROVE  \E x \in S : \A y \in S : x <= y
<1>1. \E x \in S : \A y \in S : <<y, x>> \notin OpToRel(<, Nat)
  BY NatLessThanWellFounded, WFMin, Zenon
<1>2. PICK x \in S : \A y \in S : <<y, x>> \notin OpToRel(<, Nat)
  BY <1>1, Zenon
<1>3. ASSUME NEW y \in S PROVE x <= y
  <2>1. <<y, x>> \in Nat \X Nat /\ ~(y < x)
    BY <1>2 DEF OpToRel
  <2>2. QED
    BY <2>1
<1>4. QED
  BY <1>3

\* A set of instants has a latest one.
LEMMA MaxIsMember ==
  ASSUME NEW S, S \subseteq 0 .. MaxTime, S # {}
  PROVE  Max(S) \in S /\ \A y \in S : y <= Max(S)
<1> DEFINE Below == {d \in Nat : MaxTime - d \in S}
<1>1. ASSUME NEW x \in S PROVE MaxTime - x \in Below
  BY TimeAssumption
<1>2. Below \subseteq Nat /\ Below # {}
  BY <1>1
<1>3. PICK d \in Below : \A e \in Below : d <= e
  BY <1>2, LeastMember
<1>4. ASSUME NEW y \in S PROVE MaxTime - d >= y
  BY <1>1, <1>3, TimeAssumption
<1>5. QED
  BY <1>3, <1>4 DEF Max

\* No batch is larger than its size.
LEMMA CardinalityOfOldest ==
  ASSUME NEW T, T \subseteq 0 .. MaxTime, NEW n \in Nat
  PROVE  Cardinality(Oldest(T, n)) \in Nat /\ Cardinality(Oldest(T, n)) <= n
<1>0. IsFiniteSet(0 .. MaxTime)
  BY FS_Interval, TimeAssumption
<1>1. IsFiniteSet(T)
  BY <1>0, FS_Subset
<1>2. CASE Oldest(T, n) = {}
  BY <1>2, FS_EmptySet
<1>3. CASE Oldest(T, n) # {}
  <2> DEFINE m == Max(Oldest(T, n))
             Until == {u \in T : u <= m}
  <2>1. Oldest(T, n) \subseteq T
    BY DEF Oldest
  <2>2. m \in Oldest(T, n) /\ Oldest(T, n) \subseteq Until
    BY <1>3, <2>1, MaxIsMember
  <2>3. Cardinality(Until) <= n
    BY <2>2 DEF Oldest
  <2>4. IsFiniteSet(Until) /\ Cardinality(Until) \in Nat
    BY <1>1, FS_Subset, FS_CardinalityType
  <2>5. /\ Cardinality(Oldest(T, n)) \in Nat
        /\ Cardinality(Oldest(T, n)) <= Cardinality(Until)
    BY <2>2, <2>4, FS_Subset, FS_CardinalityType
  <2>6. QED
    BY <2>3, <2>4, <2>5
<1>4. QED
  BY <1>2, <1>3

\* A batch leaves out only what is later.
LEMMA OldestComeFirst ==
  ASSUME NEW T, T \subseteq 0 .. MaxTime, NEW n \in Nat, NEW v \in Oldest(T, n), NEW u \in T, u < v
  PROVE  u \in Oldest(T, n)
<1> DEFINE UpTo(x) == {y \in T : y <= x}
<1>0. IsFiniteSet(0 .. MaxTime)
  BY FS_Interval, TimeAssumption
<1>1. v \in T /\ Cardinality(UpTo(v)) <= n
  BY DEF Oldest
<1>2. UpTo(u) \subseteq UpTo(v) /\ UpTo(v) \subseteq 0 .. MaxTime
  <2>1. \A x \in T : x \in Int
    BY TimeAssumption
  <2>2. \A x \in T : x <= u => x <= v
    BY <1>1, <2>1
  <2>3. QED
    BY <1>1, <2>2
<1>3. IsFiniteSet(UpTo(v))
  BY <1>0, <1>2, FS_Subset
<1>4. /\ Cardinality(UpTo(u)) <= Cardinality(UpTo(v)) /\ Cardinality(UpTo(v)) \in Nat
      /\ Cardinality(UpTo(u)) \in Nat
  BY <1>2, <1>3, FS_Subset, FS_CardinalityType
<1>5. Cardinality(UpTo(u)) <= n
  BY <1>1, <1>4
<1>6. QED
  BY <1>5 DEF Oldest

\* Trades lie on the time line, so there are finitely many.
LEMMA TradesAreFinite == Trades \subseteq 1 .. MaxTime /\ IsFiniteSet(Trades)
<1>1. IsFiniteSet(1 .. MaxTime)
  BY FS_Interval, TimeAssumption
<1>2. QED
  BY <1>1, FS_Subset, TimeAssumption

\* A page lies between its cursor and the next one.
LEMMA NextCursorIsLater ==
  ASSUME NEW c \in Int
  PROVE  /\ Page(c) \subseteq Kraken
         /\ NextCursor(c) = c \/ NextCursor(c) \in Kraken
         /\ NextCursor(c) >= c
         /\ \A t \in Page(c) : c < t /\ t <= NextCursor(c)
<1>1. Page(c) \subseteq {t \in Kraken : c < t /\ t <= now}
  BY DEF Page
<1>2. CASE Page(c) = {}
  BY <1>2 DEF NextCursor
<1>3. CASE Page(c) # {}
  <2>1. Max(Page(c)) \in Page(c) /\ \A y \in Page(c) : y <= Max(Page(c))
    BY <1>1, <1>3, MaxIsMember, TradesAreFinite DEF Trades
  <2>2. QED
    BY <1>1, <1>3, <2>1, TradesAreFinite DEF NextCursor, Trades
<1>4. QED
  BY <1>2, <1>3

\* A page has the first trades after its cursor: every one up to the cursor it
\* leads to.
LEMMA PageIsComplete ==
  ASSUME NEW c \in Int, NEW t \in Kraken, c < t, t <= now
  PROVE  Page(c) # {} /\ (t \in Page(c) \/ NextCursor(c) < t)
<1> DEFINE Later == {u \in Kraken : c < u /\ u <= now}
           UpTo(u) == {v \in Later : v <= u}
<1>0. t \in Later /\ Later \subseteq 1 .. MaxTime /\ PageSize \in Nat \ {0}
  BY TradesAreFinite, PageAssumption DEF Trades
<1>1. \A u \in Later : IsFiniteSet(UpTo(u)) /\ Cardinality(UpTo(u)) \in Nat
  <2>1. IsFiniteSet(1 .. MaxTime)
    BY FS_Interval, TimeAssumption
  <2>2. \A u \in Later : UpTo(u) \subseteq 1 .. MaxTime
    BY <1>0
  <2>3. QED
    BY <2>1, <2>2, FS_Subset, FS_CardinalityType
<1>2. \A u \in Later : u \in Page(c) <=> Cardinality(UpTo(u)) <= PageSize
  BY DEF Page
<1>3. Page(c) # {}
  <2>0. Later \subseteq Nat /\ Later # {}
    BY <1>0
  <2>1. PICK m \in Later : \A y \in Later : m <= y
    BY <2>0, LeastMember
  <2>2. UpTo(m) = {m}
    BY <1>0, <2>1
  <2>3. Cardinality(UpTo(m)) = 1
    BY <2>2, FS_Singleton
  <2>4. QED
    BY <1>0, <1>2, <2>3
<1>4. ASSUME ~(NextCursor(c) < t) PROVE t \in Page(c)
  <2>1. Page(c) \subseteq Later
    BY DEF Page
  <2>2. NextCursor(c) \in Page(c)
    <3>1. Page(c) \subseteq 0 .. MaxTime
      BY <1>0, <2>1
    <3>2. QED
      BY <1>3, <3>1, MaxIsMember DEF NextCursor
  <2>3. UpTo(t) \subseteq UpTo(NextCursor(c))
    BY <1>0, <1>4, <2>1, <2>2
  <2>4. Cardinality(UpTo(t)) <= Cardinality(UpTo(NextCursor(c)))
    BY <1>1, <2>1, <2>2, <2>3, FS_Subset
  <2>5. Cardinality(UpTo(NextCursor(c))) <= PageSize /\ NextCursor(c) \in Later
    BY <1>2, <2>1, <2>2
  <2>6. Cardinality(UpTo(t)) <= PageSize
    BY <1>0, <1>1, <2>4, <2>5
  <2>7. QED
    BY <1>0, <1>2, <2>6
<1>5. QED
  BY <1>3, <1>4

\* An insertion adds a row to each trade of one source.
LEMMA InsertedCounts ==
  ASSUME rows \in [Sources -> [Trades -> Nat]], NEW s \in Sources, NEW T
  PROVE  /\ Inserted(s, T) \in [Sources -> [Trades -> Nat]]
         /\ \A t \in Trades :
              Inserted(s, T)[s][t] = IF t \in T THEN rows[s][t] + 1 ELSE rows[s][t]
         /\ \A r \in Sources \ {s} : Inserted(s, T)[r] = rows[r]
BY DEF Inserted

\* What is inserted is stored.
LEMMA StoredAfter ==
  ASSUME rows \in [Sources -> [Trades -> Nat]], NEW s \in Sources, NEW T, T \subseteq Trades,
         rows' = Inserted(s, T)
  PROVE  Stored' = Stored \cup T
<1>1. /\ rows' \in [Sources -> [Trades -> Nat]]
      /\ \A t \in Trades : rows'[s][t] = IF t \in T THEN rows[s][t] + 1 ELSE rows[s][t]
      /\ \A r \in Sources \ {s} : rows'[r] = rows[r]
  BY InsertedCounts
<1>2. ASSUME NEW t \in Trades
      PROVE  (\E r \in Sources : rows'[r][t] > 0) <=> t \in T \/ \E r \in Sources : rows[r][t] > 0
  <2>1. \A r \in Sources : rows[r][t] \in Nat
    OBVIOUS
  <2>2. QED
    BY <1>1, <2>1
<1>3. QED
  BY <1>2 DEF Stored

(* The backfiller: its type, where task and thread are, and how often it   *)
(* stores a trade.                                                         *)

\* Gaps are pairs of neighbours: nothing that is stored lies between.
LEMMA GapsFound ==
  ASSUME TypeOK
  PROVE  /\ Gaps \subseteq Trades \X Trades /\ Cardinality(Gaps) \in Nat
         /\ \A g \in Gaps : g[1] \in Stored /\ g[2] \in Stored /\ g[1] < g[2]
         /\ \A g \in Gaps, t \in Stored : t <= g[1] \/ g[2] <= t
<1>1. Stored \subseteq Trades /\ Trades \subseteq 1 .. MaxTime /\ now \in Nat
  BY TradesAreFinite, TimeAssumption DEF Stored, TypeOK, TicksTypeOK
<1>2. GapThreshold \in Nat /\ Lookback \in Nat
  BY BackfillAssumption
<1>3. IsFiniteSet(Trades \X Trades)
  BY TradesAreFinite, FS_Product
<1>4. Gaps \subseteq Stored \X Stored
  BY DEF Gaps
<1>5. Cardinality(Gaps) \in Nat
  <2>1. Gaps \subseteq Trades \X Trades
    BY <1>1, <1>4
  <2>2. IsFiniteSet(Gaps)
    BY <1>3, <2>1, FS_Subset
  <2>3. QED
    BY <2>2, FS_CardinalityType
<1>6. ASSUME NEW g \in Gaps
      PROVE  /\ g[1] \in Stored /\ g[2] \in Stored /\ g[1] < g[2]
             /\ \A t \in Stored : t <= g[1] \/ g[2] <= t
  <2> DEFINE Recent == {t \in Stored : t > now - Lookback}
  <2>1. /\ g \in Recent \X Recent /\ g[2] - g[1] > GapThreshold
        /\ \A t \in Recent : t <= g[1] \/ g[2] <= t
    BY <1>6 DEF Gaps
  <2>2. g[1] \in Recent /\ g[2] \in Recent
    BY <2>1
  <2>3. g[1] \in Int /\ g[2] \in Int /\ now - Lookback < g[1] /\ g[1] < g[2]
    <3>1. \A x \in Recent : x \in Int /\ now - Lookback < x
      BY <1>1, <1>2
    <3>2. QED
      BY <1>2, <2>1, <2>2, <3>1
  <2>4. ASSUME NEW t \in Stored PROVE t <= g[1] \/ g[2] <= t
    <3>1. CASE t \in Recent
      BY <2>1, <3>1
    <3>2. CASE t \notin Recent
      BY <1>1, <1>2, <2>3, <3>2
    <3>3. QED
      BY <3>1, <3>2
  <2>5. QED
    BY <2>2, <2>3, <2>4
<1>7. QED
  BY <1>1, <1>4, <1>5, <1>6

\* A list of gaps has each gap once.
LEMMA GapListsAreSequences ==
  ASSUME TypeOK, NEW q \in GapLists
  PROVE  /\ q \in Seq(Trades \X Trades) /\ Len(q) = Cardinality(Gaps)
         /\ \A i \in DOMAIN q : q[i] \in Gaps
         /\ \A i, j \in DOMAIN q : i # j => q[i] # q[j]
<1>1. q \in [1 .. Cardinality(Gaps) -> Gaps] /\ Cardinality(Gaps) \in Nat
  BY GapsFound DEF GapLists
<1>2. q \in Seq(Trades \X Trades) /\ Len(q) = Cardinality(Gaps)
  BY <1>1, GapsFound
<1>3. ASSUME NEW i \in DOMAIN q, NEW j \in DOMAIN q, i # j PROVE q[i] # q[j]
  BY <1>1, <1>3 DEF GapLists
<1>4. QED
  BY <1>1, <1>2, <1>3

\* What is left of the gaps are gaps as before.
LEMMA LeavingGap ==
  ASSUME TypeOK, GapsApart, gaps # <<>>, gaps' = Tail(gaps)
  PROVE  /\ gaps' \in Seq(Trades \X Trades)
         /\ Len(gaps) \in Nat \ {0} /\ Len(gaps') = Len(gaps) - 1
         /\ \A i \in DOMAIN gaps' : i + 1 \in DOMAIN gaps /\ gaps'[i] = gaps[i + 1]
         /\ GapsApart'
<1>1. gaps \in Seq(Trades \X Trades)
  BY DEF TypeOK, BackfillerTypeOK
<1>2. /\ gaps' \in Seq(Trades \X Trades)
      /\ Len(gaps) \in Nat \ {0} /\ Len(gaps') = Len(gaps) - 1
      /\ \A i \in DOMAIN gaps' : i + 1 \in DOMAIN gaps /\ gaps'[i] = gaps[i + 1]
  BY <1>1
<1>3. ASSUME NEW i \in DOMAIN gaps' PROVE gaps'[i][1] < gaps'[i][2]
  BY <1>2 DEF GapsApart
<1>4. ASSUME NEW i \in DOMAIN gaps', NEW j \in DOMAIN gaps', i # j
      PROVE  gaps'[i][2] <= gaps'[j][1] \/ gaps'[j][2] <= gaps'[i][1]
  <2>1. i + 1 # j + 1
    BY <1>2, <1>4
  <2>2. QED
    BY <1>2, <2>1 DEF GapsApart
<1>5. QED
  BY <1>2, <1>3, <1>4 DEF GapsApart

\* Storing a batch keeps the types, and counts what comes late.
LEMMA BatchStored ==
  ASSUME TypeOK, LateOnce, CycleInPlace, thread = "commit", StoreBatch
  PROVE  /\ TicksTypeOK' /\ stale' \subseteq Kraken /\ Batch \subseteq all_rows
         /\ Cardinality(Batch) \in Nat
         /\ late' \in Nat /\ late' <= BatchSize
         /\ late' > 0 => task = "ended"
<1>1. all_rows \subseteq Kraken /\ Kraken \subseteq 0 .. MaxTime /\ BatchSize \in Nat
  BY TradesAreFinite, BackfillAssumption DEF TypeOK, BackfillerTypeOK, Trades
<1>2. Batch \subseteq all_rows /\ Cardinality(Batch) \in Nat /\ Cardinality(Batch) <= BatchSize
  BY <1>1, CardinalityOfOldest DEF Batch, Oldest
<1>3. late = 0
  BY DEF LateOnce, TypeOK, BackfillerTypeOK
<1>4. TicksTypeOK'
  BY InsertedCounts DEF StoreBatch, TypeOK, TicksTypeOK, Sources
<1>5. QED
  BY <1>1, <1>2, <1>3, <1>4 DEF StoreBatch, TypeOK, BackfillerTypeOK

\* Gaps that are found are apart, and none of them is filled yet.
LEMMA DetectGapsKeeps ==
  ASSUME TypeOK, CycleInv, DetectGaps
  PROVE  BackfillerTypeOK' /\ CycleInv'
<1>1. /\ thread = "detect" /\ gaps = <<>> /\ thread' = "next" /\ gaps' \in GapLists
      /\ tally' = [tally EXCEPT !.gaps_found = Cardinality(Gaps)]
      /\ UNCHANGED <<ticks, task, conn, since, all_rows, backfiller_state, stale,
                     whole, late, cycles, faults>>
  BY DEF DetectGaps, CycleInv, CycleInPlace
<1>2. /\ gaps' \in Seq(Trades \X Trades) /\ Len(gaps') = Cardinality(Gaps)
      /\ \A i \in DOMAIN gaps' : gaps'[i] \in Gaps
      /\ \A i, j \in DOMAIN gaps' : i # j => gaps'[i] # gaps'[j]
  BY <1>1, GapListsAreSequences
<1>3. GapsApart'
  <2>1. ASSUME NEW g \in Gaps, NEW h \in Gaps, g # h
        PROVE  g[2] <= h[1] \/ h[2] <= g[1]
    <3>1. /\ g \in Trades \X Trades /\ h \in Trades \X Trades
          /\ g[1] < g[2] /\ h[1] < h[2]
          /\ g[1] <= h[1] \/ h[2] <= g[1]
          /\ g[2] <= h[1] \/ h[2] <= g[2]
          /\ h[1] <= g[1] \/ g[2] <= h[1]
          /\ h[2] <= g[1] \/ g[2] <= h[2]
      BY GapsFound
    <3>2. g[1] # h[1] \/ g[2] # h[2]
      BY <2>1, <3>1
    <3>3. Trades \subseteq Int
      BY TradesAreFinite
    <3>4. g[1] \in Int /\ g[2] \in Int /\ h[1] \in Int /\ h[2] \in Int
      BY <3>1, <3>3
    <3>5. QED
      BY <3>1, <3>2, <3>4
  <2>2. QED
    BY <1>2, <2>1, GapsFound DEF GapsApart
<1>4. TallyFits'
  <2>1. tally = Zero /\ Cardinality(Gaps) \in Nat
    BY <1>1, GapsFound DEF CycleInv, TallyFits
  <2>2. tally'.gaps_filled = 0 /\ tally'.gaps_found = Cardinality(Gaps)
    BY <1>1, <2>1 DEF Zero
  <2>3. QED
    BY <1>1, <1>2, <2>1, <2>2 DEF TallyFits
<1>5. BackfillerTypeOK'
  <2>1. Cardinality(Gaps) \in Nat /\ Gaps \subseteq Trades \X Trades
    BY GapsFound
  <2>2. tally' \in [DOMAIN Zero -> Nat]
    BY <1>1, <2>1 DEF TypeOK, BackfillerTypeOK, Zero
  <2>3. found' \subseteq Trades \X Trades
    BY <2>1 DEF DetectGaps
  <2>4. ends' \in [Trades -> Nat]
    <3>1. ASSUME NEW t \in Trades
          PROVE  Cardinality({g \in Gaps : t \in {g[1], g[2]}}) \in Nat
      <4>1. IsFiniteSet(Trades \X Trades)
        BY TradesAreFinite, FS_Product
      <4>2. {g \in Gaps : t \in {g[1], g[2]}} \subseteq Trades \X Trades
        BY <2>1
      <4>3. IsFiniteSet({g \in Gaps : t \in {g[1], g[2]}})
        BY <4>1, <4>2, FS_Subset
      <4>4. QED
        BY <4>3, FS_CardinalityType
    <3>2. ends' = [t \in Trades |-> ends[t] + Cardinality({g \in Gaps : t \in {g[1], g[2]}})]
      BY DEF DetectGaps
    <3>3. ends \in [Trades -> Nat]
      BY DEF TypeOK, BackfillerTypeOK
    <3>4. QED
      BY <3>1, <3>2, <3>3
  <2>5. QED
    BY <1>1, <1>2, <2>2, <2>3, <2>4 DEF TypeOK, BackfillerTypeOK, Steps
<1>6. QED
  BY <1>1, <1>3, <1>4, <1>5
    DEF CycleInv, CycleInPlace, LateOnce, FetchedWithin, Filling

\* The gap is left, or what was fetched for it is inserted next.
LEMMA FetchEnded ==
  ASSUME TypeOK, CycleInv, thread = "fetch", NEW fetched, EndFetch(fetched),
         fetched \subseteq Kraken,
         \A t \in fetched : gaps[1][1] <= t /\ t <= gaps[1][2],
         since' \in 0 .. MaxTime, whole' \in BOOLEAN, faults' \in 0 .. MaxFaults,
         UNCHANGED <<ticks, task, conn, tally, backfiller_state, stale, found, ends, late, cycles>>
  PROVE  BackfillerTypeOK' /\ CycleInv'
<1>0. gaps # <<>> /\ late = 0
  BY DEF CycleInv, CycleInPlace, LateOnce, Filling, TypeOK, BackfillerTypeOK
<1>1. CASE fetched = {}
  <2>1. gaps' = Tail(gaps) /\ thread' = "next" /\ all_rows' = {}
    BY <1>1 DEF EndFetch, LeaveGap
  <2>2. /\ gaps' \in Seq(Trades \X Trades) /\ GapsApart'
        /\ Len(gaps) \in Nat /\ Len(gaps') = Len(gaps) - 1
    BY <1>0, <2>1, LeavingGap DEF CycleInv
  <2>3. TallyFits'
    <3>1. tally.gaps_filled + Len(gaps) <= tally.gaps_found
      BY DEF CycleInv, TallyFits, Filling
    <3>2. tally.gaps_filled \in Nat /\ tally.gaps_found \in Nat
      BY DEF TypeOK, BackfillerTypeOK, Zero
    <3>3. QED
      BY <2>1, <2>2, <3>1, <3>2 DEF TallyFits
  <2>4. BackfillerTypeOK'
    BY <2>1, <2>2 DEF TypeOK, BackfillerTypeOK, Steps
  <2>5. QED
    BY <1>0, <2>1, <2>2, <2>3, <2>4
      DEF CycleInv, CycleInPlace, LateOnce, FetchedWithin, Filling
<1>2. CASE fetched # {}
  <2>1. gaps' = gaps /\ thread' = "insert" /\ all_rows' = fetched
    BY <1>2 DEF EndFetch
  <2>2. BackfillerTypeOK'
    BY <2>1 DEF TypeOK, BackfillerTypeOK, Steps
  <2>3. QED
    BY <1>0, <2>1, <2>2
      DEF CycleInv, CycleInPlace, TallyFits, GapsApart, LateOnce, FetchedWithin, Filling
<1>3. QED
  BY <1>1, <1>2

\* Fetching stays within the gap.
LEMMA FetchKeeps ==
  ASSUME TypeOK, CycleInv, NextGap \/ FetchPage \/ ApiError \/ RequestFails \/ Retry
  PROVE  BackfillerTypeOK' /\ CycleInv' /\ UNCHANGED ticks
<1>0. /\ Kraken \subseteq 1 .. MaxTime /\ Trades \subseteq 1 .. MaxTime /\ MaxTime \in Nat
      /\ gaps \in Seq(Trades \X Trades) /\ since \in 0 .. MaxTime /\ all_rows \subseteq Kraken
      /\ gaps # <<>> => gaps[1] \in Trades \X Trades
  BY TradesAreFinite, TimeAssumption DEF Trades, TypeOK, BackfillerTypeOK
<1>1. CASE NextGap
  <2>1. gaps[1][1] \in 1 .. MaxTime
    BY <1>0, <1>1 DEF NextGap
  <2>2. since' \in 0 .. MaxTime
    BY <1>0, <1>1, <2>1 DEF NextGap, CursorsAt
  <2>3. BackfillerTypeOK'
    BY <1>1, <2>2 DEF NextGap, TypeOK, BackfillerTypeOK, history, Steps
  <2>4. QED
    BY <1>1, <2>3
      DEF NextGap, CycleInv, CycleInPlace, TallyFits, GapsApart, LateOnce, FetchedWithin,
          Filling, history, ticks
<1>2. CASE FetchPage
  <2>1. PICK within \in {{t \in Page(since) : gaps[1][1] <= t /\ t <= gaps[1][2]} \ without :
                           without \in SUBSET {gaps[1][1], gaps[1][2]}} :
          IF Page(since) = {} \/ NextCursor(since) >= gaps[1][2]
          THEN EndFetch(all_rows \cup within)
          ELSE all_rows' = all_rows \cup within /\ UNCHANGED <<gaps, thread>>
    BY <1>2 DEF FetchPage
  <2>2. /\ thread = "fetch" /\ since' = NextCursor(since)
        /\ UNCHANGED <<ticks, task, conn, tally, backfiller_state, stale, history, faults>>
    BY <1>2 DEF FetchPage
  <2>3. since' \in 0 .. MaxTime
    <3>1. since \in Int /\ (NextCursor(since) = since \/ NextCursor(since) \in Kraken)
      BY <1>0, NextCursorIsLater
    <3>2. NextCursor(since) \in 0 .. MaxTime
      <4>1. \A t \in Kraken : t \in 0 .. MaxTime
        BY <1>0
      <4>2. QED
        BY <1>0, <3>1, <4>1
    <3>3. QED
      BY <2>2, <3>2
  <2>4. within \subseteq Page(since) /\ \A t \in within : gaps[1][1] <= t /\ t <= gaps[1][2]
    BY <2>1
  <2>5. /\ all_rows \cup within \subseteq Kraken
        /\ \A t \in all_rows \cup within : gaps[1][1] <= t /\ t <= gaps[1][2]
    BY <1>0, <2>2, <2>4, NextCursorIsLater DEF CycleInv, FetchedWithin
  <2>6. CASE EndFetch(all_rows \cup within)
    <3>1. whole' \in BOOLEAN /\ faults' \in 0 .. MaxFaults
      BY <2>2 DEF TypeOK, BackfillerTypeOK, history
    <3>2. QED
      BY <2>2, <2>3, <2>5, <2>6, <3>1, FetchEnded DEF history, ticks
  <2>7. CASE all_rows' = all_rows \cup within /\ UNCHANGED <<gaps, thread>>
    <3>1. BackfillerTypeOK'
      BY <2>2, <2>3, <2>5, <2>7 DEF TypeOK, BackfillerTypeOK, history
    <3>2. QED
      BY <2>2, <2>5, <2>7, <3>1
        DEF CycleInv, CycleInPlace, TallyFits, GapsApart, LateOnce, FetchedWithin, history, ticks
  <2>8. QED
    BY <2>1, <2>6, <2>7
<1>3. CASE ApiError
  <2>1. /\ thread = "fetch" /\ EndFetch(all_rows)
        /\ since' \in 0 .. MaxTime /\ whole' \in BOOLEAN /\ faults' \in 0 .. MaxFaults
        /\ UNCHANGED <<ticks, task, conn, tally, backfiller_state, stale, found, ends, late, cycles>>
    <3>1. MaxFaults \in Nat /\ faults \in 0 .. MaxFaults
      BY BackfillAssumption DEF TypeOK, BackfillerTypeOK
    <3>2. faults' \in 0 .. MaxFaults
      BY <1>3, <3>1 DEF ApiError, Fault
    <3>3. QED
      BY <1>0, <1>3, <3>2 DEF ApiError
  <2>2. \A t \in all_rows : gaps[1][1] <= t /\ t <= gaps[1][2]
    BY <2>1 DEF CycleInv, FetchedWithin
  <2>3. QED
    BY <1>0, <2>1, <2>2, FetchEnded DEF ticks
<1>4. CASE RequestFails \/ Retry
  <2>1. BackfillerTypeOK'
    BY <1>4 DEF RequestFails, Retry, TypeOK, BackfillerTypeOK, history, cycle, Steps
  <2>2. QED
    BY <1>4, <2>1
      DEF RequestFails, Retry, CycleInv, CycleInPlace, TallyFits, GapsApart, LateOnce,
          FetchedWithin, Filling, history, cycle, ticks
<1>5. QED
  BY <1>1, <1>2, <1>3, <1>4

\* Inserting ends with one gap more filled, or with an error.
LEMMA InsertKeeps ==
  ASSUME TypeOK, CycleInv, InsertBatch \/ Commit \/ StatementFails
  PROVE  BackfillerTypeOK' /\ CycleInv' /\ TicksTypeOK'
<1>0. TypeOK /\ CycleInPlace /\ TallyFits /\ LateOnce /\ GapsApart /\ FetchedWithin
  BY DEF CycleInv
<1>1. CASE InsertBatch
  <2>1. BackfillerTypeOK' /\ TicksTypeOK'
    BY <1>1 DEF InsertBatch, TypeOK, BackfillerTypeOK, TicksTypeOK, history, cycle, ticks, Steps
  <2>2. QED
    BY <1>1, <2>1
      DEF InsertBatch, CycleInv, CycleInPlace, TallyFits, GapsApart, LateOnce,
          FetchedWithin, Filling, history, cycle
<1>2. CASE Commit
  <2>1. /\ thread = "commit" /\ conn = "open" /\ StoreBatch /\ all_rows' = all_rows \ Batch
        /\ UNCHANGED <<task, conn, gaps, since, backfiller_state, whole, found, ends, cycles,
                       faults>>
        /\ gaps # <<>> /\ task # "ended"
    BY <1>0, <1>2 DEF Commit, CycleInPlace, Filling
  <2>2. /\ TicksTypeOK' /\ stale' \subseteq Kraken /\ Cardinality(Batch) \in Nat
        /\ late' = 0
    BY <1>0, <2>1, BatchStored, SMTT(20) DEF TypeOK, BackfillerTypeOK
  <2>3. /\ tally.gaps_filled \in Nat /\ tally.gaps_found \in Nat /\ tally.rows_backfilled \in Nat
        /\ tally.gaps_filled + Len(gaps) <= tally.gaps_found /\ Len(gaps) \in Nat
        /\ BatchSize \in Nat
        /\ tally \in [DOMAIN Zero -> Nat]
        /\ DOMAIN Zero = {"gaps_found", "gaps_filled", "rows_backfilled"}
    BY <1>0, <2>1, BackfillAssumption DEF TallyFits, TypeOK, BackfillerTypeOK, Zero, Filling
  <2>4. CASE all_rows' = {}
    <3>1. /\ thread' = "refresh"
          /\ tally' = [tally EXCEPT !.gaps_filled = @ + 1,
                                    !.rows_backfilled = @ + Cardinality(Batch)]
      BY <1>2, <2>4 DEF Commit
    <3>2. /\ tally' \in [DOMAIN Zero -> Nat]
          /\ tally'.gaps_filled = tally.gaps_filled + 1 /\ tally'.gaps_found = tally.gaps_found
      <4> DEFINE f == tally.gaps_filled + 1
                 r == tally.rows_backfilled + Cardinality(Batch)
      <4>1. tally' = [[tally EXCEPT !["gaps_filled"] = f] EXCEPT !["rows_backfilled"] = r]
        BY <2>3, <3>1
      <4>2. f \in Nat /\ r \in Nat
        BY <2>2, <2>3
      <4>3. [tally EXCEPT !["gaps_filled"] = f] \in [DOMAIN Zero -> Nat]
        BY <2>3, <4>2
      <4>4. QED
        BY <2>3, <4>1, <4>2, <4>3
    <3>3. TallyFits'
      BY <2>1, <2>3, <3>1, <3>2 DEF TallyFits, Filling
    <3>4. BackfillerTypeOK'
      BY <1>0, <2>1, <2>2, <2>4, <3>1, <3>2 DEF TypeOK, BackfillerTypeOK, Steps
    <3>5. QED
      BY <1>0, <2>1, <2>2, <2>3, <3>1, <3>3, <3>4
        DEF CycleInv, CycleInPlace, GapsApart, LateOnce, FetchedWithin, Filling
  <2>5. CASE all_rows' # {}
    <3>1. /\ thread' = "insert"
          /\ tally' = [tally EXCEPT !.rows_backfilled = @ + Cardinality(Batch)]
      BY <1>2, <2>5 DEF Commit
    <3>2. /\ tally' \in [DOMAIN Zero -> Nat]
          /\ tally'.gaps_filled = tally.gaps_filled /\ tally'.gaps_found = tally.gaps_found
      BY <2>2, <2>3, <3>1
    <3>3. TallyFits'
      BY <2>1, <2>3, <3>1, <3>2 DEF TallyFits, Filling
    <3>4. BackfillerTypeOK'
      BY <1>0, <2>1, <2>2, <2>5, <3>1, <3>2 DEF TypeOK, BackfillerTypeOK, Steps
    <3>5. FetchedWithin'
      BY <1>0, <2>1 DEF FetchedWithin
    <3>6. QED
      BY <1>0, <2>1, <2>2, <2>3, <3>1, <3>3, <3>4, <3>5
        DEF CycleInv, CycleInPlace, GapsApart, LateOnce, Filling
  <2>6. QED
    BY <2>4, <2>5
<1>3. CASE StatementFails
  <2>1. /\ thread' = "raised"
        /\ UNCHANGED <<task, conn, cycle, backfiller_state, whole, found, ends, cycles>>
        /\ task # "sleep"
    BY <1>0, <1>3 DEF StatementFails, CycleInPlace
  <2>2. faults' \in 0 .. MaxFaults
    <3>1. MaxFaults \in Nat /\ faults \in 0 .. MaxFaults
      BY <1>0, BackfillAssumption DEF TypeOK, BackfillerTypeOK
    <3>2. QED
      BY <1>3, <3>1 DEF StatementFails, Fault
  <2>3. /\ TicksTypeOK' /\ stale' \subseteq Kraken /\ late' \in Nat /\ late' <= BatchSize
        /\ late' > 0 => task = "ended"
    <3>1. CASE UNCHANGED <<ticks, stale, late>>
      BY <1>0, <3>1 DEF TypeOK, BackfillerTypeOK, TicksTypeOK, LateOnce, ticks
    <3>2. CASE thread = "commit" /\ StoreBatch
      BY <1>0, <3>2, BatchStored
    <3>3. QED
      BY <1>3, <3>1, <3>2 DEF StatementFails
  <2>4. BackfillerTypeOK'
    BY <1>0, <2>1, <2>2, <2>3 DEF TypeOK, BackfillerTypeOK, cycle, Steps
  <2>5. QED
    BY <1>0, <2>1, <2>3, <2>4
      DEF CycleInv, CycleInPlace, TallyFits, GapsApart, LateOnce, FetchedWithin, Filling, cycle
<1>4. QED
  BY <1>1, <1>2, <1>3

\* A gap that is refreshed is left.
LEMMA RefreshKeeps ==
  ASSUME TypeOK, CycleInv, RefreshAggregates \/ RefreshFails \/ Return
  PROVE  BackfillerTypeOK' /\ CycleInv' /\ UNCHANGED ticks
<1>0. TypeOK /\ CycleInPlace /\ TallyFits /\ LateOnce /\ GapsApart /\ FetchedWithin
  BY DEF CycleInv
<1>1. /\ tally.gaps_filled \in Nat /\ tally.gaps_found \in Nat /\ Len(gaps) \in Nat
      /\ MaxFaults \in Nat /\ faults \in 0 .. MaxFaults /\ late \in Nat
  BY <1>0, BackfillAssumption DEF TypeOK, BackfillerTypeOK, Zero
<1>2. CASE LeaveGap /\ (RefreshAggregates \/ RefreshFails)
  <2>1. /\ thread = "refresh" /\ thread' = "next" /\ gaps' = Tail(gaps) /\ gaps # <<>>
        /\ UNCHANGED <<ticks, task, conn, since, all_rows, tally, backfiller_state, history>>
    BY <1>0, <1>2 DEF LeaveGap, RefreshAggregates, RefreshFails, CycleInPlace, Filling
  <2>2. /\ gaps' \in Seq(Trades \X Trades) /\ GapsApart' /\ Len(gaps') = Len(gaps) - 1
    BY <1>0, <2>1, LeavingGap
  <2>3. stale' \subseteq Kraken /\ faults' \in 0 .. MaxFaults
    <3>1. stale \subseteq Kraken
      BY <1>0 DEF TypeOK, BackfillerTypeOK
    <3>2. CASE RefreshAggregates
      BY <1>1, <3>1, <3>2 DEF RefreshAggregates
    <3>3. CASE RefreshFails
      BY <1>1, <3>1, <3>3 DEF RefreshFails, Fault
    <3>4. QED
      BY <1>2, <3>2, <3>3
  <2>4. BackfillerTypeOK'
    BY <1>0, <2>1, <2>2, <2>3 DEF TypeOK, BackfillerTypeOK, history, Steps
  <2>5. TallyFits'
    BY <1>0, <1>1, <2>1, <2>2 DEF TallyFits
  <2>6. QED
    BY <1>0, <1>1, <2>1, <2>2, <2>4, <2>5
      DEF CycleInv, CycleInPlace, LateOnce, FetchedWithin, Filling, history
<1>3. CASE RefreshFails /\ ~LeaveGap
  <2>1. /\ thread = "refresh" /\ thread' = "raised" /\ gaps' = gaps /\ faults' \in 0 .. MaxFaults
        /\ UNCHANGED <<ticks, task, conn, since, all_rows, tally, backfiller_state, stale, history>>
    BY <1>1, <1>3 DEF RefreshFails, Fault
  <2>2. BackfillerTypeOK'
    BY <1>0, <2>1 DEF TypeOK, BackfillerTypeOK, history, Steps
  <2>3. QED
    BY <1>0, <2>1, <2>2
      DEF CycleInv, CycleInPlace, TallyFits, GapsApart, LateOnce, FetchedWithin, Filling, history
<1>4. CASE Return
  <2>1. BackfillerTypeOK'
    BY <1>0, <1>4 DEF Return, TypeOK, BackfillerTypeOK, history, cycle, Steps
  <2>2. QED
    BY <1>0, <1>4, <2>1
      DEF Return, CycleInv, CycleInPlace, TallyFits, GapsApart, LateOnce, FetchedWithin, Filling,
          history, cycle
<1>5. LeaveGap \/ ~LeaveGap
  OBVIOUS
<1>6. RefreshAggregates => LeaveGap
  BY DEF RefreshAggregates
<1>7. QED
  BY <1>2, <1>3, <1>4, <1>6

\* The task starts a cycle when no thread runs, and adds up tallies that fit.
LEMMA TaskKeeps ==
  ASSUME TypeOK, CycleInv,
         StartCycle \/ ConnectFails \/ EndCycle \/ Cancel \/ EndThread \/ Restart
  PROVE  BackfillerTypeOK' /\ CycleInv' /\ UNCHANGED ticks
<1>0. TypeOK /\ CycleInPlace /\ TallyFits /\ LateOnce /\ GapsApart /\ FetchedWithin
  BY DEF CycleInv
<1>1. /\ tally \in [DOMAIN Zero -> Nat] /\ backfiller_state \in [DOMAIN Zero -> Nat]
      /\ MaxFaults \in Nat /\ faults \in 0 .. MaxFaults /\ late \in Nat /\ BatchSize \in Nat \ {0}
      /\ cycles \in 0 .. MaxCycles /\ MaxCycles \in Nat
      /\ <<>> \in Seq(Trades \X Trades) /\ {} \subseteq Kraken /\ Len(<<>>) = 0
      /\ Zero \in [DOMAIN Zero -> Nat] /\ Zero.gaps_filled = 0 /\ Zero.gaps_found = 0
  BY <1>0, BackfillAssumption DEF TypeOK, BackfillerTypeOK, Zero
<1>2. CASE StartCycle
  <2>1. thread = "idle" /\ gaps = <<>> /\ late = 0
    BY <1>0, <1>1, <1>2 DEF StartCycle, CycleInPlace, LateOnce
  <2>2. BackfillerTypeOK'
    BY <1>0, <1>1, <1>2, SMTT(20) DEF StartCycle, TypeOK, BackfillerTypeOK, Steps, Tasks
  <2>3. QED
    BY <1>0, <1>1, <1>2, <2>1, <2>2
      DEF StartCycle, CycleInv, CycleInPlace, TallyFits, GapsApart, LateOnce, FetchedWithin, Filling
<1>3. CASE ConnectFails \/ Cancel
  <2>1. faults' \in 0 .. MaxFaults
    BY <1>1, <1>3 DEF ConnectFails, Cancel, Fault
  <2>2. BackfillerTypeOK'
    BY <1>0, <1>3, <2>1
      DEF ConnectFails, Cancel, TypeOK, BackfillerTypeOK, Tasks, history, cycle
  <2>3. QED
    BY <1>0, <1>1, <1>3, <2>2
      DEF ConnectFails, Cancel, CycleInv, CycleInPlace, TallyFits, GapsApart, LateOnce,
          FetchedWithin, history, cycle
<1>4. CASE EndCycle \/ EndThread
  <2>1. /\ thread' = "idle" /\ gaps' = <<>> /\ all_rows' = {} /\ thread \in {"returned", "raised"}
        /\ UNCHANGED <<ticks, since, tally, stale, history, faults>>
        /\ \/ task = "await" /\ task' = "sleep" /\ conn' = "closed"
           \/ task = "ended" /\ UNCHANGED <<task, conn>>
    BY <1>4 DEF EndCycle, EndThread
  <2>2. /\ backfiller_state' \in [DOMAIN Zero -> Nat]
        /\ backfiller_state'.gaps_filled <= backfiller_state'.gaps_found
    <3>1. backfiller_state.gaps_filled <= backfiller_state.gaps_found
      BY <1>0 DEF TypeOK, BackfillerTypeOK
    <3>2. CASE backfiller_state' = backfiller_state
      BY <1>1, <3>1, <3>2
    <3>3. CASE thread = "returned" /\ backfiller_state' = Sum(backfiller_state, tally)
      <4>1. tally.gaps_filled <= tally.gaps_found
        <5>1. tally.gaps_filled + Len(gaps) <= tally.gaps_found /\ Len(gaps) \in Nat
          BY <1>0, <3>3 DEF TallyFits, TypeOK, BackfillerTypeOK
        <5>2. QED
          BY <1>1, <5>1 DEF Zero
      <4>2. QED
        BY <1>1, <3>1, <3>3, <4>1 DEF Sum, Zero
    <3>4. QED
      BY <1>4, <3>2, <3>3 DEF EndCycle, EndThread
  <2>3. BackfillerTypeOK'
    BY <1>0, <1>1, <2>1, <2>2 DEF TypeOK, BackfillerTypeOK, Steps, Tasks, history
  <2>4. QED
    BY <1>0, <1>1, <2>1, <2>3
      DEF CycleInv, CycleInPlace, TallyFits, GapsApart, LateOnce, FetchedWithin, Filling, history
<1>5. CASE Restart
  <2>1. BackfillerTypeOK'
    BY <1>0, <1>1, <1>5 DEF Restart, TypeOK, BackfillerTypeOK, Tasks, cycle
  <2>2. QED
    BY <1>0, <1>1, <1>5, <2>1
      DEF Restart, CycleInv, CycleInPlace, TallyFits, GapsApart, LateOnce, FetchedWithin, Filling,
          cycle
<1>6. QED
  BY <1>2, <1>3, <1>4, <1>5 DEF StartCycle, ConnectFails, EndCycle, Cancel, EndThread, Restart

\* After a crash everything starts anew, but for the rows.
LEMMA CrashKeeps ==
  ASSUME TypeOK, CycleInv, Crash
  PROVE  BackfillerTypeOK' /\ CycleInv' /\ TicksTypeOK'
<1>1. /\ task' = "sleep" /\ conn' = "closed" /\ thread' = "idle"
      /\ gaps' = <<>> /\ all_rows' = {} /\ backfiller_state' = Zero /\ late' = 0
      /\ UNCHANGED <<now, since, tally, whole, found, ends, cycles>>
  BY DEF Crash
<1>2. faults' \in 0 .. MaxFaults /\ BatchSize \in Nat
  <2>1. MaxFaults \in Nat /\ faults \in 0 .. MaxFaults /\ BatchSize \in Nat
    BY BackfillAssumption DEF TypeOK, BackfillerTypeOK
  <2>2. QED
    BY <2>1 DEF Crash, Fault
<1>3. stale' \subseteq Kraken /\ rows' \in [Sources -> [Trades -> Nat]]
  <2>1. /\ stale \subseteq Kraken /\ all_rows \subseteq Kraken /\ Batch \subseteq all_rows
        /\ rows \in [Sources -> [Trades -> Nat]]
    BY DEF TypeOK, BackfillerTypeOK, TicksTypeOK, Batch, Oldest
  <2>2. Inserted("backfiller", Batch) \in [Sources -> [Trades -> Nat]]
    BY <2>1, InsertedCounts DEF Sources
  <2>3. QED
    BY <2>1, <2>2 DEF Crash
<1>4. TicksTypeOK'
  BY <1>1, <1>3 DEF TypeOK, TicksTypeOK
<1>5. BackfillerTypeOK'
  BY <1>1, <1>2, <1>3 DEF TypeOK, BackfillerTypeOK, Tasks, Steps, Zero
<1>6. QED
  BY <1>1, <1>2, <1>4, <1>5
    DEF CycleInv, CycleInPlace, TallyFits, GapsApart, LateOnce, FetchedWithin, Filling

-----------------------------------------------------------------------------

\* Only finitely many gaps await a row.
LEMMA AwaitingIsFinite ==
  ASSUME TypeOK, CycleInv, NEW t
  PROVE  /\ Awaiting(t) \subseteq Trades \X Trades
         /\ IsFiniteSet(EndsAwaited(t)) /\ Cardinality(EndsAwaited(t)) \in Nat
<1>1. gaps \in Seq(Trades \X Trades)
  BY DEF TypeOK, BackfillerTypeOK
<1>2. Awaiting(t) \subseteq Trades \X Trades
  BY <1>1 DEF Awaiting
<1>3. EndsAwaited(t) \subseteq Trades \X Trades
  BY <1>2 DEF EndsAwaited
<1>4. IsFiniteSet(Trades \X Trades)
  BY TradesAreFinite, FS_Product
<1>5. IsFiniteSet(EndsAwaited(t))
  BY <1>3, <1>4, FS_Subset
<1>6. QED
  BY <1>2, <1>5, FS_CardinalityType

\* What is awaited is a gap of the list, and the present one is none of the
\* others.
LEMMA AwaitedGaps ==
  ASSUME TypeOK, CycleInv, NEW t, NEW g \in Awaiting(t)
  PROVE  /\ \E i \in DOMAIN gaps : g = gaps[i]
         /\ g[1] \in Int /\ g[2] \in Int /\ g[1] < g[2]
         /\ g # gaps[1] => g[2] <= gaps[1][1] \/ gaps[1][2] <= g[1]
<1>1. gaps \in Seq(Trades \X Trades) /\ Trades \subseteq Int
  BY TradesAreFinite DEF TypeOK, BackfillerTypeOK
<1>2. PICK i \in DOMAIN gaps : g = gaps[i]
  BY DEF Awaiting
<1>3. g \in Trades \X Trades
  BY <1>1, <1>2
<1>4. g[1] \in Int /\ g[2] \in Int /\ g[1] < g[2]
  BY <1>1, <1>2, <1>3 DEF CycleInv, GapsApart
<1>5. ASSUME g # gaps[1] PROVE g[2] <= gaps[1][1] \/ gaps[1][2] <= g[1]
  <2>1. 1 \in DOMAIN gaps /\ i # 1
    BY <1>1, <1>2, <1>5
  <2>2. QED
    BY <1>2, <2>1 DEF CycleInv, GapsApart
<1>6. QED
  BY <1>2, <1>4, <1>5

\* Fewer rows are awaited, and none is made.
LEMMA FewerAwaited ==
  ASSUME TypeOK, CycleInv, RowsAllowed,
         \A t \in Kraken : Awaiting(t)' \subseteq Awaiting(t),
         \A t \in Kraken : rows'["backfiller"][t] = rows["backfiller"][t],
         ends' = ends
  PROVE  RowsAllowed'
<1> SUFFICES ASSUME NEW t \in Kraken
             PROVE  /\ rows'["backfiller"][t] + Cardinality(EndsAwaited(t)') <= 1 + ends'[t]
                    /\ \A g \in Awaiting(t)' : g[1] < t /\ t < g[2] => rows'["backfiller"][t] = 0
  BY DEF RowsAllowed
<1>1. /\ rows["backfiller"][t] + Cardinality(EndsAwaited(t)) <= 1 + ends[t]
      /\ \A g \in Awaiting(t) : g[1] < t /\ t < g[2] => rows["backfiller"][t] = 0
  BY DEF RowsAllowed
<1>2. rows["backfiller"][t] \in Nat /\ ends[t] \in Nat
  BY DEF TypeOK, TicksTypeOK, BackfillerTypeOK, Sources, Trades
<1>3. EndsAwaited(t)' \subseteq EndsAwaited(t)
  BY DEF EndsAwaited
<1>4. /\ Cardinality(EndsAwaited(t)') <= Cardinality(EndsAwaited(t))
      /\ Cardinality(EndsAwaited(t)') \in Nat /\ Cardinality(EndsAwaited(t)) \in Nat
  BY <1>3, AwaitingIsFinite, FS_Subset, FS_CardinalityType
<1>5. QED
  BY <1>1, <1>2, <1>4

\* A batch makes one row of each of its trades, which no longer await it.
LEMMA BatchAllowed ==
  ASSUME TypeOK, CycleInv, RowsAllowed, thread = "commit",
         rows' = Inserted("backfiller", Batch), ends' = ends,
         \A t \in Kraken : Awaiting(t)' \subseteq Awaiting(t),
         \A t \in Batch : gaps[1] \notin Awaiting(t)'
  PROVE  RowsAllowed'
<1> SUFFICES ASSUME NEW t \in Kraken
             PROVE  /\ rows'["backfiller"][t] + Cardinality(EndsAwaited(t)') <= 1 + ends'[t]
                    /\ \A g \in Awaiting(t)' : g[1] < t /\ t < g[2] => rows'["backfiller"][t] = 0
  BY DEF RowsAllowed
<1>1. /\ rows["backfiller"][t] + Cardinality(EndsAwaited(t)) <= 1 + ends[t]
      /\ \A g \in Awaiting(t) : g[1] < t /\ t < g[2] => rows["backfiller"][t] = 0
  BY DEF RowsAllowed
<1>2. /\ rows["backfiller"][t] \in Nat /\ ends[t] \in Nat /\ t \in Int
      /\ rows'["backfiller"][t] =
           IF t \in Batch THEN rows["backfiller"][t] + 1 ELSE rows["backfiller"][t]
  <2>1. t \in Trades /\ "backfiller" \in Sources /\ t \in Int
    BY TradesAreFinite DEF Trades, Sources
  <2>2. rows["backfiller"][t] \in Nat /\ ends[t] \in Nat
    BY <2>1 DEF TypeOK, TicksTypeOK, BackfillerTypeOK
  <2>3. rows \in [Sources -> [Trades -> Nat]]
    BY DEF TypeOK, TicksTypeOK
  <2>4. QED
    BY <2>1, <2>2, <2>3, InsertedCounts
<1>3. EndsAwaited(t)' \subseteq EndsAwaited(t)
  BY DEF EndsAwaited
<1>4. /\ Cardinality(EndsAwaited(t)') <= Cardinality(EndsAwaited(t))
      /\ Cardinality(EndsAwaited(t)') \in Nat /\ Cardinality(EndsAwaited(t)) \in Nat
  BY <1>3, AwaitingIsFinite, FS_Subset, FS_CardinalityType
<1>5. CASE t \notin Batch
  BY <1>1, <1>2, <1>4, <1>5
<1>6. CASE t \in Batch
  <2>1. /\ t \in all_rows /\ gaps[1][1] <= t /\ t <= gaps[1][2]
        /\ gaps[1] \in Awaiting(t) /\ gaps[1] \notin Awaiting(t)'
    <3>1. t \in all_rows /\ gaps \in Seq(Trades \X Trades) /\ gaps # <<>>
      BY <1>6 DEF Batch, Oldest, CycleInv, CycleInPlace, Filling, TypeOK, BackfillerTypeOK
    <3>2. First(t) = 1 /\ 1 \in {i \in DOMAIN gaps : First(t) <= i}
      BY <3>1 DEF First
    <3>3. gaps[1] \in Awaiting(t)
      BY <3>2 DEF Awaiting, Filling
    <3>4. QED
      BY <1>6, <3>1, <3>3 DEF CycleInv, FetchedWithin
  <2>2. gaps[1][1] \in Int /\ gaps[1][2] \in Int /\ gaps[1][1] < gaps[1][2]
    BY <2>1, AwaitedGaps
  <2>3. ASSUME NEW g \in Awaiting(t)'
        PROVE  /\ g[1] \in Int /\ g[2] \in Int /\ g[1] < g[2]
               /\ g[2] <= gaps[1][1] \/ gaps[1][2] <= g[1]
    BY <2>1, <2>3, AwaitedGaps
  <2>4. \A g \in Awaiting(t)' : ~(g[1] < t /\ t < g[2])
    BY <1>2, <2>1, <2>2, <2>3
  <2>5. CASE t \in {gaps[1][1], gaps[1][2]}
    <3>1. gaps[1] \in EndsAwaited(t) /\ gaps[1] \notin EndsAwaited(t)'
      BY <2>1, <2>5 DEF EndsAwaited
    <3>2. IsFiniteSet(EndsAwaited(t)) /\ EndsAwaited(t)' \subseteq EndsAwaited(t) \ {gaps[1]}
      BY <1>3, <3>1, AwaitingIsFinite
    <3>3. /\ Cardinality(EndsAwaited(t) \ {gaps[1]}) = Cardinality(EndsAwaited(t)) - 1
          /\ IsFiniteSet(EndsAwaited(t) \ {gaps[1]})
      BY <3>1, <3>2, FS_RemoveElement
    <3>4. Cardinality(EndsAwaited(t)') <= Cardinality(EndsAwaited(t)) - 1
      BY <3>2, <3>3, FS_Subset
    <3>5. QED
      BY <1>1, <1>2, <1>4, <1>6, <2>4, <3>4
  <2>6. CASE t \notin {gaps[1][1], gaps[1][2]}
    <3>1. gaps[1][1] < t /\ t < gaps[1][2]
      BY <1>2, <2>1, <2>2, <2>6
    <3>2. rows["backfiller"][t] = 0
      BY <1>1, <2>1, <3>1
    <3>3. ASSUME NEW g \in Awaiting(t)' PROVE t \notin {g[1], g[2]}
      BY <1>2, <2>2, <2>3, <3>1, <3>3
    <3>4. EndsAwaited(t)' = {}
      BY <3>3 DEF EndsAwaited
    <3>5. Cardinality(EndsAwaited(t)') = 0
      BY <3>4, FS_EmptySet
    <3>6. QED
      BY <1>2, <1>6, <2>4, <3>2, <3>5
  <2>7. QED
    BY <2>5, <2>6
<1>7. QED
  BY <1>5, <1>6

\* The gaps that are found allow for the rows their ends will get, and there is
\* no row yet inside of them.
LEMMA DetectGapsAllows ==
  ASSUME TypeOK, CycleInv, RowsAllowed, DetectGaps
  PROVE  RowsAllowed'
<1> SUFFICES ASSUME NEW t \in Kraken
             PROVE  /\ rows'["backfiller"][t] + Cardinality(EndsAwaited(t)') <= 1 + ends'[t]
                    /\ \A g \in Awaiting(t)' : g[1] < t /\ t < g[2] => rows'["backfiller"][t] = 0
  BY DEF RowsAllowed
<1> DEFINE Here == {g \in Gaps : t \in {g[1], g[2]}}
<1>1. thread = "detect" /\ gaps' \in GapLists /\ rows' = rows
  BY DEF DetectGaps, ticks
<1>2. /\ rows["backfiller"][t] \in Nat /\ ends[t] \in Nat /\ t \in Trades
      /\ ends'[t] = ends[t] + Cardinality(Here)
  BY DEF TypeOK, TicksTypeOK, BackfillerTypeOK, Sources, Trades, DetectGaps
<1>3. rows["backfiller"][t] <= 1 + ends[t]
  <2>1. EndsAwaited(t) = {}
    BY <1>1 DEF EndsAwaited, Awaiting, Filling
  <2>2. Cardinality(EndsAwaited(t)) = 0
    BY <2>1, FS_EmptySet
  <2>3. QED
    BY <1>2, <2>2 DEF RowsAllowed
<1>4. Awaiting(t)' \subseteq Gaps
  BY <1>1, GapListsAreSequences DEF Awaiting
<1>5. /\ Cardinality(EndsAwaited(t)') \in Nat /\ Cardinality(Here) \in Nat
      /\ Cardinality(EndsAwaited(t)') <= Cardinality(Here)
  <2>1. Here \subseteq Trades \X Trades
    BY GapsFound
  <2>2. IsFiniteSet(Trades \X Trades)
    BY TradesAreFinite, FS_Product
  <2>3. IsFiniteSet(Here)
    BY <2>1, <2>2, FS_Subset
  <2>4. EndsAwaited(t)' \subseteq Here
    BY <1>4 DEF EndsAwaited
  <2>5. QED
    BY <2>3, <2>4, FS_Subset, FS_CardinalityType
<1>6. ASSUME NEW g \in Awaiting(t)', g[1] < t, t < g[2]
      PROVE  rows'["backfiller"][t] = 0
  <2>1. g \in Gaps /\ g[1] \in Int /\ g[2] \in Int /\ t \in Int
    <3>1. Trades \subseteq Int
      BY TradesAreFinite
    <3>2. QED
      BY <1>2, <1>4, <3>1, GapsFound
  <2>2. t \notin Stored
    BY <1>6, <2>1, GapsFound
  <2>3. QED
    BY <1>1, <1>2, <2>2 DEF Stored, Sources
<1>7. QED
  BY <1>2, <1>3, <1>1, <1>5, <1>6

\* No step of the backfiller makes a row that is not allowed for.
LEMMA RowsAllowedStep ==
  ASSUME TypeOK, CycleInv, RowsAllowed, BackfillerNext
  PROVE  RowsAllowed'
<1>0. /\ gaps \in Seq(Trades \X Trades) /\ CycleInPlace
      /\ thread \in Filling \ {"next"} => gaps # <<>>
  BY DEF TypeOK, BackfillerTypeOK, CycleInv, CycleInPlace
<1>1. ASSUME rows' = rows, ends' = ends, thread' \notin Filling
      PROVE  RowsAllowed'
  BY <1>1, FewerAwaited DEF Awaiting
<1>2. ASSUME rows' = rows, ends' = ends, gaps' = gaps, all_rows' = all_rows,
             \/ thread' = thread
             \/ thread \in {"next", "fetch", "wait"} /\ thread' \in {"fetch", "wait"}
             \/ thread = "insert" /\ thread' = "commit"
      PROVE  RowsAllowed'
  BY <1>2, FewerAwaited DEF Awaiting, First, Filling
<1>3. ASSUME rows' = rows, ends' = ends, thread \in {"fetch", "refresh"},
             gaps' = Tail(gaps), thread' = "next"
      PROVE  RowsAllowed'
  <2>1. \A i \in DOMAIN gaps' : /\ i + 1 \in DOMAIN gaps /\ gaps'[i] = gaps[i + 1]
                                /\ i \in Nat /\ 2 <= i + 1
    <3>1. gaps # <<>>
      BY <1>0, <1>3 DEF Filling
    <3>2. QED
      BY <1>0, <1>3, <3>1
  <2>2. ASSUME NEW t \in Kraken, NEW g \in Awaiting(t)' PROVE g \in Awaiting(t)
    <3>1. PICK i \in DOMAIN gaps' : g = gaps'[i]
      BY <2>2 DEF Awaiting
    <3>2. First(t) \in {1, 2} /\ First(t) <= i + 1
      BY <2>1 DEF First
    <3>3. QED
      BY <1>3, <2>1, <3>1, <3>2 DEF Awaiting, Filling
  <2>3. QED
    BY <1>3, <2>2, FewerAwaited
<1>4. ASSUME rows' = rows, ends' = ends, thread = "fetch", gaps' = gaps,
             thread' \in {"fetch", "insert"}
      PROVE  RowsAllowed'
  <2>1. ASSUME NEW t \in Kraken PROVE Awaiting(t)' \subseteq Awaiting(t)
    <3>1. First(t) = 1 /\ \A i \in DOMAIN gaps : 1 <= i
      BY <1>0, <1>4 DEF First
    <3>2. QED
      BY <1>4, <3>1 DEF Awaiting, Filling
  <2>2. QED
    BY <1>4, <2>1, FewerAwaited
<1>5. CASE DetectGaps
  BY <1>5, DetectGapsAllows
<1>6. CASE NextGap
  BY <1>6, <1>0, FewerAwaited DEF NextGap, Awaiting, First, Filling, ticks, history
<1>7. CASE FetchPage \/ ApiError
  <2>1. thread = "fetch" /\ rows' = rows /\ ends' = ends
    BY <1>7 DEF FetchPage, ApiError, ticks, history
  <2>2. \/ gaps' = Tail(gaps) /\ thread' = "next"
        \/ gaps' = gaps /\ thread' \in {"fetch", "insert"}
    BY <1>7 DEF FetchPage, ApiError, EndFetch, LeaveGap
  <2>3. QED
    BY <1>3, <1>4, <2>1, <2>2
<1>8. CASE RequestFails \/ Retry \/ InsertBatch \/ ConnectFails \/ Cancel
  BY <1>2, <1>8 DEF RequestFails, Retry, InsertBatch, ConnectFails, Cancel, ticks, cycle, history
<1>9. CASE Return \/ StartCycle \/ EndCycle \/ EndThread
  BY <1>1, <1>9 DEF Return, StartCycle, EndCycle, EndThread, ticks, history, Filling
<1>10. CASE Restart
  BY <1>0, <1>1, <1>10 DEF Restart, ticks, cycle, Filling
<1>11. CASE RefreshAggregates \/ RefreshFails
  BY <1>1, <1>3, <1>11 DEF RefreshAggregates, RefreshFails, LeaveGap, ticks, history, Filling
<1>12. CASE Commit
  <2>1. /\ thread = "commit" /\ rows' = Inserted("backfiller", Batch)
        /\ all_rows' = all_rows \ Batch /\ UNCHANGED <<gaps, ends>>
        /\ thread' \in {"refresh", "insert"}
    BY <1>12 DEF Commit, StoreBatch
  <2>2. ASSUME NEW t \in Kraken PROVE Awaiting(t)' \subseteq Awaiting(t)
    <3>1. First(t)' \in {1, 2} /\ First(t) \in {1, 2} /\ First(t) <= First(t)'
      BY <2>1 DEF First
    <3>2. \A i \in DOMAIN gaps : i \in Nat
      BY <1>0
    <3>3. QED
      BY <2>1, <3>1, <3>2 DEF Awaiting, Filling
  <2>3. ASSUME NEW t \in Batch PROVE gaps[1] \notin Awaiting(t)'
    <3>1. First(t)' = 2
      BY <2>1 DEF First
    <3>2. ASSUME NEW i \in DOMAIN gaps, 2 <= i PROVE gaps[i] # gaps[1]
      <4>1. 1 \in DOMAIN gaps /\ i # 1
        BY <1>0, <3>2
      <4>2. /\ gaps[1] \in Trades \X Trades /\ Trades \subseteq Int
            /\ gaps[i][1] < gaps[i][2] /\ gaps[1][1] < gaps[1][2]
            /\ gaps[1][2] <= gaps[i][1] \/ gaps[i][2] <= gaps[1][1]
        BY <1>0, <4>1, TradesAreFinite DEF CycleInv, GapsApart
      <4>3. gaps[1][1] \in Int /\ gaps[1][2] \in Int
        BY <4>2
      <4>4. QED
        BY <4>2, <4>3
    <3>3. QED
      BY <2>1, <3>1, <3>2 DEF Awaiting
  <2>4. QED
    BY <2>1, <2>2, <2>3, BatchAllowed
<1>13. CASE StatementFails \/ Crash
  <2>1. /\ ends' = ends /\ thread' \notin Filling
        /\ rows' = rows \/ (thread = "commit" /\ rows' = Inserted("backfiller", Batch))
    BY <1>13 DEF StatementFails, Crash, StoreBatch, ticks, Filling
  <2>2. \A t : Awaiting(t)' = {}
    BY <2>1 DEF Awaiting
  <2>3. CASE rows' = rows
    BY <1>1, <2>1, <2>3
  <2>4. CASE thread = "commit" /\ rows' = Inserted("backfiller", Batch)
    BY <2>1, <2>2, <2>4, BatchAllowed
  <2>5. QED
    BY <2>1, <2>3, <2>4
<1>14. QED
  BY <1>5, <1>6, <1>7, <1>8, <1>9, <1>10, <1>11, <1>12, <1>13 DEF BackfillerNext, CycleStep

-----------------------------------------------------------------------------

\* A load starts at a time, and its cursor not long before.
LEMMA StartOfLoad ==
  ASSUME TypeOK, NEW l \in Loaders
  PROVE  StartAt(l) \in Times /\ \A c \in CursorsAt(StartAt(l)) : c \in Times /\ StartAt(l) <= c + 1
<1>1. /\ DaysBack \in Nat /\ MaxTime \in Nat /\ until[l] \in 0 .. MaxTime
      /\ Stored \subseteq 1 .. MaxTime
  BY TradesAreFinite, TimeAssumption, LoadAssumption DEF TypeOK, LoaderTypeOK, Stored
<1>2. Stored # {} => Max(Stored) \in 1 .. MaxTime
  <2>1. Stored \subseteq 0 .. MaxTime
    BY <1>1
  <2>2. QED
    BY <1>1, <2>1, MaxIsMember
<1>3. StartAt(l) \in -DaysBack .. MaxTime
  BY <1>1, <1>2 DEF StartAt
<1>4. QED
  BY <1>1, <1>3 DEF CursorsAt, Times

\* A step of one loader: whoever it had passed by stays so.
LEMMA LoaderPasses ==
  ASSUME LoadedOnce, rows'["loader"] = rows["loader"],
         \A t \in Kraken : PassedBy(t) \subseteq PassedBy(t)',
         rows \in [Sources -> [Trades -> Nat]]
  PROVE  LoadedOnce'
<1> SUFFICES ASSUME NEW t \in Kraken
             PROVE  rows'["loader"][t] <= Cardinality(PassedBy(t)')
  BY DEF LoadedOnce
<1>1. rows["loader"][t] \in Nat /\ rows["loader"][t] <= Cardinality(PassedBy(t))
  BY DEF LoadedOnce, Sources, Trades
<1>2. IsFiniteSet(Loaders) /\ PassedBy(t) \subseteq Loaders /\ PassedBy(t)' \subseteq Loaders
  BY LoadAssumption DEF PassedBy
<1>3. IsFiniteSet(PassedBy(t)) /\ IsFiniteSet(PassedBy(t)')
  BY <1>2, FS_Subset
<1>4. /\ Cardinality(PassedBy(t)) \in Nat /\ Cardinality(PassedBy(t)') \in Nat
      /\ Cardinality(PassedBy(t)) <= Cardinality(PassedBy(t)')
  BY <1>3, FS_Subset, FS_CardinalityType
<1>5. QED
  BY <1>1, <1>4

\* A loader that stores trades of its batch passes them.
LEMMA LoaderStores ==
  ASSUME LoadedOnce, rows \in [Sources -> [Trades -> Nat]],
         NEW l \in Loaders, NEW T, rows' = Inserted("loader", T), T \subseteq batch[l],
         \A t \in Kraken : PassedBy(t) \subseteq PassedBy(t)',
         \A t \in T : l \in PassedBy(t)'
  PROVE  LoadedOnce'
<1> SUFFICES ASSUME NEW t \in Kraken
             PROVE  rows'["loader"][t] <= Cardinality(PassedBy(t)')
  BY DEF LoadedOnce
<1>1. rows["loader"][t] \in Nat /\ rows["loader"][t] <= Cardinality(PassedBy(t))
  BY DEF LoadedOnce, Sources, Trades
<1>2. IsFiniteSet(Loaders) /\ PassedBy(t) \subseteq Loaders /\ PassedBy(t)' \subseteq Loaders
  BY LoadAssumption DEF PassedBy
<1>3. /\ IsFiniteSet(PassedBy(t)) /\ IsFiniteSet(PassedBy(t)')
      /\ Cardinality(PassedBy(t)) \in Nat /\ Cardinality(PassedBy(t)') \in Nat
  BY <1>2, FS_Subset, FS_CardinalityType
<1>4. rows'["loader"][t] = IF t \in T THEN rows["loader"][t] + 1 ELSE rows["loader"][t]
  BY InsertedCounts DEF Sources, Trades
<1>5. CASE t \in T
  <2>1. l \notin PassedBy(t)
    BY <1>5 DEF PassedBy, Ahead
  <2>2. /\ IsFiniteSet(PassedBy(t) \cup {l})
        /\ Cardinality(PassedBy(t) \cup {l}) = Cardinality(PassedBy(t)) + 1
    BY <1>3, <2>1, FS_AddElement
  <2>3. PassedBy(t) \cup {l} \subseteq PassedBy(t)'
    BY <1>5
  <2>4. Cardinality(PassedBy(t)) + 1 <= Cardinality(PassedBy(t)')
    BY <1>3, <2>2, <2>3, FS_Subset
  <2>5. QED
    BY <1>1, <1>3, <1>4, <1>5, <2>4
<1>6. CASE t \notin T
  <2>1. Cardinality(PassedBy(t)) <= Cardinality(PassedBy(t)')
    BY <1>3, FS_Subset
  <2>2. QED
    BY <1>1, <1>3, <1>4, <1>6, <2>1
<1>7. QED
  BY <1>5, <1>6

\* A page adds to the batch what lies before the next cursor.
LEMMA LoadPageKeeps ==
  ASSUME TypeOK, LoadInv, NEW l \in Loaders, LoadPage(l)
  PROVE  LoaderTypeOK' /\ LoadInv' /\ rows' = rows
<1> DEFINE page == Page(cursor[l])
           last == NextCursor(cursor[l])
           kept == batch[l] \cup {t \in page : t <= until[l]}
<1>0. /\ LoaderTypeOK /\ BatchInOrder /\ LoadedOnce /\ cursor[l] \in Int
      /\ rows \in [Sources -> [Trades -> Nat]]
      /\ Kraken \subseteq 1 .. MaxTime /\ MaxTime \in Nat /\ DaysBack \in Nat
  <2>1. LoaderTypeOK /\ BatchInOrder /\ LoadedOnce /\ rows \in [Sources -> [Trades -> Nat]]
    BY DEF TypeOK, TicksTypeOK, LoadInv
  <2>2. Kraken \subseteq 1 .. MaxTime /\ MaxTime \in Nat /\ DaysBack \in Nat
    BY TradesAreFinite, TimeAssumption, LoadAssumption DEF Trades
  <2>3. \A c \in Times : c \in Int
    BY <2>2 DEF Times
  <2>4. QED
    BY <2>1, <2>2, <2>3 DEF LoaderTypeOK
<1>1. /\ loader[l] = "fetch" /\ batch' = [batch EXCEPT ![l] = kept]
      /\ UNCHANGED <<ticks, until, start, load_faults>>
      /\ \/ Goto(l, "last") /\ cursor' = [cursor EXCEPT ![l] = 0]
         \/ AfterPage(l, kept) /\ cursor' = [cursor EXCEPT ![l] = last]
  BY DEF LoadPage
<1>2. /\ page \subseteq Kraken /\ last >= cursor[l] /\ last \in Int
      /\ last = cursor[l] \/ last \in Kraken
      /\ \A t \in page : cursor[l] < t /\ t <= last /\ t \in Int
  <2>1. \A t \in Kraken : t \in Int
    BY <1>0
  <2>2. /\ page \subseteq Kraken /\ last >= cursor[l]
        /\ last = cursor[l] \/ last \in Kraken
        /\ \A t \in page : cursor[l] < t /\ t <= last
    BY <1>0, NextCursorIsLater
  <2>3. QED
    BY <1>0, <2>1, <2>2
<1>3. last \in Times
  <2>1. \A t \in Kraken : t \in Times
    BY <1>0 DEF Times
  <2>2. QED
    BY <1>0, <1>2, <2>1 DEF LoaderTypeOK
<1>4. /\ start[l] <= cursor[l] + 1 /\ start[l] \in Int
      /\ \A t \in batch[l] : start[l] <= t /\ t <= cursor[l] /\ t \in Int
  <2>1. batch[l] \subseteq Int /\ start[l] \in Int
    <3>1. Times \subseteq Int /\ Kraken \subseteq Int
      BY <1>0 DEF Times
    <3>2. QED
      BY <1>0, <3>1 DEF LoaderTypeOK
  <2>2. QED
    BY <1>0, <1>1, <2>1 DEF BatchInOrder
<1>5. \A t \in kept : start[l] <= t /\ t <= last /\ t \in Int
  BY <1>0, <1>2, <1>4
<1>6. /\ kept \subseteq Kraken
      /\ \E step \in {"last", "insert", "fetch"}, c \in Times :
           /\ Goto(l, step) /\ cursor' = [cursor EXCEPT ![l] = c]
           /\ step # "last" => c = last
  <2>1. 0 \in Times
    BY <1>0 DEF Times
  <2>2. QED
    BY <1>0, <1>1, <1>2, <1>3, <2>1 DEF LoaderTypeOK, AfterPage
<1>7. PICK step \in {"last", "insert", "fetch"}, c \in Times :
           /\ loader' = [loader EXCEPT ![l] = step] /\ cursor' = [cursor EXCEPT ![l] = c]
           /\ step # "last" => c = last
  BY <1>6 DEF Goto
<1>8. LoaderTypeOK'
  BY <1>0, <1>1, <1>6, <1>7 DEF LoaderTypeOK, LoaderSteps
<1>9. BatchInOrder'
  <2>1. last + 1 >= start[l]
    BY <1>0, <1>2, <1>4
  <2>2. ASSUME NEW k \in Loaders, k # l
        PROVE  /\ loader'[k] = loader[k] /\ batch'[k] = batch[k] /\ cursor'[k] = cursor[k]
               /\ start'[k] = start[k]
    BY <1>0, <1>1, <1>7, <2>2 DEF LoaderTypeOK
  <2>3. /\ loader'[l] = step /\ batch'[l] = kept /\ cursor'[l] = c /\ start'[l] = start[l]
    BY <1>0, <1>1, <1>7 DEF LoaderTypeOK
  <2>4. QED
    BY <1>0, <1>5, <1>7, <2>1, <2>2, <2>3 DEF BatchInOrder
<1>10. LoadedOnce'
  <2>1. ASSUME NEW t \in Kraken, NEW k \in PassedBy(t) PROVE k \in PassedBy(t)'
    <3>1. CASE k # l
      BY <1>0, <1>1, <1>7, <2>1, <3>1 DEF LoaderTypeOK, PassedBy, Ahead
    <3>2. CASE k = l
      <4>1. t \notin batch[l] /\ ~(cursor[l] < t) /\ start[l] <= t
        BY <1>1, <2>1, <3>2 DEF PassedBy, Ahead
      <4>2. t \notin kept /\ ~(last < t)
        BY <1>0, <1>2, <4>1
      <4>3. /\ loader'[l] = step /\ batch'[l] = kept /\ cursor'[l] = c /\ start'[l] = start[l]
        BY <1>0, <1>1, <1>7 DEF LoaderTypeOK
      <4>4. QED
        BY <1>7, <3>2, <4>1, <4>2, <4>3 DEF PassedBy, Ahead
    <3>3. QED
      BY <3>1, <3>2
  <2>2. rows' = rows
    BY <1>1 DEF ticks
  <2>3. QED
    BY <1>0, <2>1, <2>2, LoaderPasses
<1>11. QED
  BY <1>1, <1>8, <1>9, <1>10 DEF LoadInv, ticks

\* A loader passes a trade once: what it stores it has no longer ahead.
LEMMA LoaderKeeps ==
  ASSUME TypeOK, LoadInv, LoaderNext
  PROVE  LoaderTypeOK' /\ LoadInv' /\ TicksTypeOK' /\ rows'["backfiller"] = rows["backfiller"]
<1>0. /\ LoaderTypeOK /\ BatchInOrder /\ LoadedOnce /\ TicksTypeOK
      /\ rows \in [Sources -> [Trades -> Nat]]
      /\ "loader" \in Sources /\ "backfiller" \in Sources \ {"loader"}
  BY DEF TypeOK, TicksTypeOK, LoadInv, Sources
<1>1. ASSUME NEW l \in Loaders, StartLoader(l)
      PROVE  LoaderTypeOK' /\ LoadInv' /\ UNCHANGED ticks
  <2>1. /\ loader[l] = "none" /\ loader' = [loader EXCEPT ![l] = "latest"]
        /\ until' = [until EXCEPT ![l] = now]
        /\ UNCHANGED <<ticks, start, cursor, batch, load_faults>>
    BY <1>1 DEF StartLoader, Goto
  <2>2. LoaderTypeOK'
    BY <1>0, <2>1 DEF LoaderTypeOK, TicksTypeOK, LoaderSteps
  <2>3. BatchInOrder'
    BY <1>0, <2>1 DEF BatchInOrder, LoaderTypeOK
  <2>4. LoadedOnce'
    BY <1>0, <2>1, LoaderPasses DEF PassedBy, Ahead, LoaderTypeOK, ticks
  <2>5. QED
    BY <2>1, <2>2, <2>3, <2>4 DEF LoadInv
<1>2. ASSUME NEW l \in Loaders, GetLatest(l)
      PROVE  LoaderTypeOK' /\ LoadInv' /\ UNCHANGED ticks
  <2>1. PICK c \in CursorsAt(StartAt(l)) : cursor' = [cursor EXCEPT ![l] = c]
    BY <1>2 DEF GetLatest
  <2>2. /\ loader[l] = "latest" /\ loader' = [loader EXCEPT ![l] = "fetch"]
        /\ start' = [start EXCEPT ![l] = StartAt(l)]
        /\ UNCHANGED <<ticks, until, batch, load_faults>>
    BY <1>2 DEF GetLatest, Goto
  <2>3. StartAt(l) \in Times /\ c \in Times /\ StartAt(l) <= c + 1
    BY StartOfLoad
  <2>4. LoaderTypeOK'
    BY <1>0, <2>1, <2>2, <2>3 DEF LoaderTypeOK, LoaderSteps
  <2>5. BatchInOrder'
    <3>1. batch[l] = {}
      BY <1>0, <2>2 DEF BatchInOrder
    <3>2. QED
      BY <1>0, <2>1, <2>2, <2>3, <3>1 DEF BatchInOrder, LoaderTypeOK
  <2>6. LoadedOnce'
    BY <1>0, <2>1, <2>2, LoaderPasses DEF PassedBy, Ahead, LoaderTypeOK, ticks
  <2>7. QED
    BY <2>2, <2>4, <2>5, <2>6 DEF LoadInv
<1>3. ASSUME NEW l \in Loaders, NEW T, NEW step, NEW left,
             rows' = Inserted("loader", T) /\ now' = now, T \subseteq batch[l], left \subseteq batch[l],
             T \cap left = {},
             loader[l] \in {"insert", "last"}, loader' = [loader EXCEPT ![l] = step],
             batch' = [batch EXCEPT ![l] = left],
             UNCHANGED <<until, start>>,
             \/ /\ step \in {"fetch", "insert"} /\ loader[l] = "insert" /\ cursor' = cursor
             \/ step = "last" /\ loader[l] = "last" /\ cursor' = cursor
             \/ /\ step \in {"refresh", "failed"} /\ left = {}
                /\ \E c \in Times : cursor' = [cursor EXCEPT ![l] = c],
             load_faults' \in 0 .. MaxLoadFaults
      PROVE  LoaderTypeOK' /\ LoadInv' /\ TicksTypeOK' /\ rows'["backfiller"] = rows["backfiller"]
  <2>1. TicksTypeOK' /\ rows'["backfiller"] = rows["backfiller"]
    BY <1>0, <1>3, InsertedCounts DEF TicksTypeOK
  <2>2. cursor' \in [Loaders -> Times] /\ \A k \in Loaders \ {l} : cursor'[k] = cursor[k]
    BY <1>0, <1>3 DEF LoaderTypeOK
  <2>3. /\ loader'[l] = step /\ batch'[l] = left
        /\ \A k \in Loaders \ {l} : loader'[k] = loader[k] /\ batch'[k] = batch[k]
    BY <1>0, <1>3 DEF LoaderTypeOK
  <2>4. LoaderTypeOK'
    <3>1. step \in LoaderSteps /\ left \subseteq Kraken
      BY <1>0, <1>3 DEF LoaderTypeOK, LoaderSteps
    <3>2. QED
      BY <1>0, <1>3, <2>2, <3>1 DEF LoaderTypeOK
  <2>5. BatchInOrder'
    BY <1>0, <1>3, <2>2, <2>3 DEF BatchInOrder
  <2>6. ASSUME NEW t \in Kraken, NEW k \in PassedBy(t) PROVE k \in PassedBy(t)'
    BY <1>0, <1>3, <2>2, <2>3, <2>6 DEF PassedBy, Ahead
  <2>7. ASSUME NEW t \in T PROVE l \in PassedBy(t)'
    <3>1. start[l] <= t /\ t \notin left /\ (loader[l] = "insert" => t <= cursor[l])
      BY <1>0, <1>3 DEF BatchInOrder
    <3>2. step \in {"fetch", "insert"} => ~(cursor'[l] < t)
      <4>1. CASE loader[l] = "insert" /\ cursor' = cursor
        <5>1. cursor[l] \in Int /\ t \in Int
          <6>1. Times \subseteq Int /\ Kraken \subseteq Int
            BY TradesAreFinite, LoadAssumption, TimeAssumption DEF Times, Trades
          <6>2. QED
            BY <1>0, <1>3, <6>1 DEF LoaderTypeOK
        <5>2. QED
          BY <3>1, <4>1, <5>1
      <4>2. CASE step \notin {"fetch", "insert"}
        BY <4>2
      <4>3. QED
        BY <1>3, <4>1, <4>2
    <3>3. QED
      BY <1>3, <2>3, <3>1, <3>2 DEF PassedBy, Ahead
  <2>8. LoadedOnce'
    BY <1>0, <1>3, <2>6, <2>7, LoaderStores
  <2>9. QED
    BY <2>1, <2>4, <2>5, <2>8 DEF LoadInv
<1>4. ASSUME NEW l \in Loaders, InsertFull(l)
      PROVE  LoaderTypeOK' /\ LoadInv' /\ TicksTypeOK' /\ rows'["backfiller"] = rows["backfiller"]
  <2> DEFINE full == Oldest(batch[l], LoadSize)
             left == batch[l] \ full
  <2>1. /\ rows' = Inserted("loader", full) /\ now' = now
        /\ full \subseteq batch[l] /\ left \subseteq batch[l] /\ full \cap left = {}
        /\ batch' = [batch EXCEPT ![l] = left]
        /\ UNCHANGED <<until, start, cursor, load_faults>>
        /\ loader[l] \in {"insert", "last"}
        /\ load_faults' \in 0 .. MaxLoadFaults
    BY <1>0, <1>4 DEF InsertFull, Store, Oldest, LoaderTypeOK
  <2>2. CASE loader[l] = "last" /\ loader' = loader
    <3>1. loader' = [loader EXCEPT ![l] = "last"]
      BY <1>0, <2>2 DEF LoaderTypeOK
    <3>2. QED
      BY <1>3, <2>1, <2>2, <3>1
  <2>3. CASE loader[l] = "insert" /\ AfterPage(l, left)
    <3>1. \/ loader' = [loader EXCEPT ![l] = "insert"]
          \/ loader' = [loader EXCEPT ![l] = "fetch"]
      BY <2>3 DEF AfterPage, Goto
    <3>2. QED
      BY <1>3, <2>1, <2>3, <3>1
  <2>4. QED
    BY <1>4, <2>1, <2>2, <2>3 DEF InsertFull
<1>5. ASSUME NEW l \in Loaders, InsertRest(l)
      PROVE  LoaderTypeOK' /\ LoadInv' /\ TicksTypeOK' /\ rows'["backfiller"] = rows["backfiller"]
  <2>1. /\ rows' = Inserted("loader", batch[l]) /\ now' = now
        /\ batch[l] \subseteq batch[l] /\ {} \subseteq batch[l] /\ batch[l] \cap {} = {}
        /\ batch' = [batch EXCEPT ![l] = {}]
        /\ loader[l] = "last" /\ loader' = [loader EXCEPT ![l] = "refresh"]
        /\ UNCHANGED <<until, start, cursor, load_faults>>
        /\ load_faults' \in 0 .. MaxLoadFaults
    BY <1>0, <1>5 DEF InsertRest, Store, Goto, LoaderTypeOK
  <2>2. cursor[l] \in Times /\ cursor' = [cursor EXCEPT ![l] = cursor[l]]
    BY <1>0, <2>1 DEF LoaderTypeOK
  <2>3. QED
    BY <1>3, <2>1, <2>2
<1>6. ASSUME NEW l \in Loaders, RefreshCas(l)
      PROVE  LoaderTypeOK' /\ LoadInv' /\ UNCHANGED ticks
  <2>1. /\ loader[l] = "refresh" /\ loader' = [loader EXCEPT ![l] = "complete"]
        /\ UNCHANGED <<ticks, until, start, cursor, batch, load_faults>>
    BY <1>6 DEF RefreshCas, Goto
  <2>2. LoaderTypeOK'
    BY <1>0, <2>1 DEF LoaderTypeOK, LoaderSteps
  <2>3. BatchInOrder'
    BY <1>0, <2>1 DEF BatchInOrder, LoaderTypeOK
  <2>4. LoadedOnce'
    BY <1>0, <2>1, LoaderPasses DEF PassedBy, Ahead, LoaderTypeOK, ticks
  <2>5. QED
    BY <2>1, <2>2, <2>3, <2>4 DEF LoadInv
<1>7. ASSUME NEW l \in Loaders, LoaderFails(l)
      PROVE  LoaderTypeOK' /\ LoadInv' /\ TicksTypeOK' /\ rows'["backfiller"] = rows["backfiller"]
  <2>1. /\ loader[l] \in {"latest", "fetch", "insert", "last", "refresh"}
        /\ loader' = [loader EXCEPT ![l] = "failed"] /\ batch' = [batch EXCEPT ![l] = {}]
        /\ cursor' = [cursor EXCEPT ![l] = 0] /\ UNCHANGED <<now, until, start>>
    BY <1>7 DEF LoaderFails, Goto
  <2>2. load_faults' \in 0 .. MaxLoadFaults /\ 0 \in Times
    <3>1. MaxLoadFaults \in Nat /\ DaysBack \in Nat /\ MaxTime \in Nat
      BY LoadAssumption, TimeAssumption
    <3>2. load_faults \in 0 .. MaxLoadFaults
      BY <1>0 DEF LoaderTypeOK
    <3>3. QED
      BY <1>7, <3>1, <3>2 DEF LoaderFails, Times
  <2>3. CASE rows' = rows
    <3>1. LoaderTypeOK'
      BY <1>0, <2>1, <2>2 DEF LoaderTypeOK, LoaderSteps
    <3>2. BatchInOrder'
      BY <1>0, <2>1 DEF BatchInOrder, LoaderTypeOK
    <3>3. LoadedOnce'
      BY <1>0, <2>1, <2>3, LoaderPasses DEF PassedBy, Ahead, LoaderTypeOK
    <3>4. QED
      BY <1>0, <2>1, <2>3, <3>1, <3>2, <3>3 DEF LoadInv, TicksTypeOK
  <2>4. CASE loader[l] \in {"insert", "last"} /\ rows' = Inserted("loader", Oldest(batch[l], LoadSize))
    <3>1. /\ Oldest(batch[l], LoadSize) \subseteq batch[l] /\ {} \subseteq batch[l]
          /\ Oldest(batch[l], LoadSize) \cap {} = {}
      BY DEF Oldest
    <3>2. \E c \in Times : cursor' = [cursor EXCEPT ![l] = c]
      BY <2>1, <2>2
    <3>3. QED
      BY <1>3, <2>1, <2>2, <2>4, <3>1, <3>2
  <2>5. QED
    BY <1>7, <2>3, <2>4 DEF LoaderFails
<1>8. ASSUME UNCHANGED ticks PROVE TicksTypeOK' /\ rows'["backfiller"] = rows["backfiller"]
  BY <1>0, <1>8 DEF TicksTypeOK, ticks
<1>9. ASSUME NEW l \in Loaders, LoadPage(l)
      PROVE  LoaderTypeOK' /\ LoadInv' /\ UNCHANGED ticks
  BY <1>9, LoadPageKeeps DEF LoadPage
<1>10. QED
  BY <1>1, <1>2, <1>4, <1>5, <1>6, <1>7, <1>8, <1>9 DEF LoaderNext, LoaderStep

-----------------------------------------------------------------------------

\* At first there are no rows.
LEMMA RowsInvInit == Init => RowsInv
<1> SUFFICES ASSUME Init PROVE RowsInv
  OBVIOUS
<1>0. /\ BatchSize \in Nat /\ MaxFaults \in Nat /\ MaxLoadFaults \in Nat /\ DaysBack \in Nat
      /\ MaxTime \in Nat /\ IsFiniteSet(Loaders)
  BY BackfillAssumption, LoadAssumption, TimeAssumption
<1>1. TicksTypeOK /\ rows = [s \in Sources |-> [t \in Trades |-> 0]]
  BY DEF Init, TicksInit, TicksTypeOK
<1>2. BackfillerTypeOK
  BY <1>0 DEF Init, BackfillerInit, BackfillerTypeOK, Tasks, Steps, Zero
<1>3. LoaderTypeOK
  BY <1>0 DEF Init, LoaderInit, LoaderTypeOK, LoaderSteps, Times
<1>4. CycleInv
  BY <1>0 DEF Init, BackfillerInit, CycleInv, CycleInPlace, TallyFits, LateOnce, GapsApart,
              FetchedWithin, Filling
<1>5. RowsAllowed
  <2>1. \A t \in Kraken : EndsAwaited(t) = {} /\ Awaiting(t) = {}
    BY DEF Init, BackfillerInit, EndsAwaited, Awaiting, Filling
  <2>2. \A t \in Kraken : rows["backfiller"][t] = 0 /\ ends[t] = 0
    BY <1>1 DEF Init, BackfillerInit, Sources, Trades
  <2>3. \A t \in Kraken : Cardinality(EndsAwaited(t)) = 0
    BY <2>1, FS_EmptySet
  <2>4. QED
    BY <2>1, <2>2, <2>3 DEF RowsAllowed
<1>6. LoadInv
  <2>1. BatchInOrder
    BY DEF Init, LoaderInit, BatchInOrder
  <2>2. \A t \in Kraken : rows["loader"][t] = 0
    BY <1>1 DEF Sources, Trades
  <2>3. \A t \in Kraken : PassedBy(t) = {}
    BY DEF Init, LoaderInit, PassedBy
  <2>4. \A t \in Kraken : Cardinality(PassedBy(t)) = 0
    BY <2>3, FS_EmptySet
  <2>5. QED
    BY <2>1, <2>2, <2>4 DEF LoadInv, LoadedOnce
<1>7. QED
  BY <1>1, <1>2, <1>3, <1>4, <1>5, <1>6 DEF RowsInv, TypeOK

\* The first half of the invariant is inductive by itself.
LEMMA RowsInvStep == RowsInv /\ [Next]_vars => RowsInv'
<1> SUFFICES ASSUME RowsInv, [Next]_vars PROVE RowsInv'
  OBVIOUS
<1>0. /\ TypeOK /\ CycleInv /\ RowsAllowed /\ LoadInv
      /\ TicksTypeOK /\ BackfillerTypeOK /\ LoaderTypeOK
  BY DEF RowsInv, TypeOK
<1>1. ASSUME UNCHANGED ld, rows'["loader"] = rows["loader"]
      PROVE  LoaderTypeOK' /\ LoadInv'
  BY <1>0, <1>1 DEF ld, LoaderTypeOK, LoadInv, BatchInOrder, LoadedOnce, PassedBy, Ahead
<1>2. ASSUME UNCHANGED bf, rows'["backfiller"] = rows["backfiller"]
      PROVE  BackfillerTypeOK' /\ CycleInv' /\ RowsAllowed'
  <2>1. BackfillerTypeOK' /\ CycleInv'
    BY <1>0, <1>2
      DEF bf, cycle, history, BackfillerTypeOK, CycleInv, CycleInPlace, TallyFits, LateOnce,
          GapsApart, FetchedWithin
  <2>2. RowsAllowed'
    BY <1>0, <1>2, FewerAwaited DEF bf, cycle, history, Awaiting, First
  <2>3. QED
    BY <2>1, <2>2
<1>3. CASE TicksNext /\ UNCHANGED <<bf, ld>>
  <2>1. CASE Tick
    <3>1. TicksTypeOK' /\ rows' = rows
      BY <1>0, <2>1, TimeAssumption DEF Tick, TicksTypeOK
    <3>2. QED
      BY <1>1, <1>2, <1>3, <3>1 DEF RowsInv, TypeOK
  <2>2. ASSUME NEW t \in Trades, Consume(t) PROVE RowsInv'
    <3>1. TicksTypeOK' /\ \A s \in Sources \ {"consumer"} : rows'[s] = rows[s]
      BY <1>0, <2>2, InsertedCounts DEF Consume, TicksTypeOK, Sources
    <3>2. QED
      BY <1>1, <1>2, <1>3, <3>1 DEF RowsInv, TypeOK, Sources
  <2>3. QED
    BY <1>3, <2>1, <2>2 DEF TicksNext
<1>4. CASE BackfillerNext /\ UNCHANGED ld
  <2>1. BackfillerTypeOK' /\ CycleInv' /\ TicksTypeOK'
    <3>1. CASE DetectGaps
      BY <1>0, <3>1, DetectGapsKeeps DEF DetectGaps, TicksTypeOK, ticks
    <3>2. CASE NextGap \/ FetchPage \/ ApiError \/ RequestFails \/ Retry
      BY <1>0, <3>2, FetchKeeps DEF TicksTypeOK, ticks
    <3>3. CASE InsertBatch \/ Commit \/ StatementFails
      BY <1>0, <3>3, InsertKeeps
    <3>4. CASE RefreshAggregates \/ RefreshFails \/ Return
      BY <1>0, <3>4, RefreshKeeps DEF TicksTypeOK, ticks
    <3>5. CASE StartCycle \/ ConnectFails \/ EndCycle \/ Cancel \/ EndThread \/ Restart
      BY <1>0, <3>5, TaskKeeps DEF TicksTypeOK, ticks
    <3>6. CASE Crash
      BY <1>0, <3>6, CrashKeeps
    <3>7. QED
      BY <1>4, <3>1, <3>2, <3>3, <3>4, <3>5, <3>6 DEF BackfillerNext, CycleStep
  <2>2. RowsAllowed'
    BY <1>0, <1>4, RowsAllowedStep
  <2>3. rows'["loader"] = rows["loader"]
    <3>1. rows' = rows \/ rows' = Inserted("backfiller", Batch)
      BY <1>4 DEF BackfillerNext, CycleStep, DetectGaps, NextGap, FetchPage, ApiError, RequestFails,
                  Retry, InsertBatch, Commit, StatementFails, RefreshAggregates, RefreshFails,
                  Return, StartCycle, ConnectFails, EndCycle, Cancel, EndThread, Restart, Crash,
                  StoreBatch, ticks
    <3>2. QED
      BY <1>0, <3>1, InsertedCounts DEF TicksTypeOK, Sources
  <2>4. QED
    BY <1>1, <1>4, <2>1, <2>2, <2>3 DEF RowsInv, TypeOK
<1>5. CASE LoaderNext /\ UNCHANGED bf
  BY <1>0, <1>2, <1>5, LoaderKeeps DEF RowsInv, TypeOK
<1>6. CASE UNCHANGED vars
  BY <1>0, <1>1, <1>2, <1>6 DEF vars, ticks, TicksTypeOK, RowsInv, TypeOK
<1>7. QED
  BY <1>3, <1>4, <1>5, <1>6 DEF Next

-----------------------------------------------------------------------------

(* What is filled: whole cycles leave nothing out.                         *)

\* Two gaps have an end in common at most.
LEMMA GapsAreApart ==
  ASSUME TypeOK, NEW g \in Gaps, NEW h \in Gaps, g # h
  PROVE  g[2] <= h[1] \/ h[2] <= g[1]
<1>1. /\ g \in Trades \X Trades /\ h \in Trades \X Trades
      /\ g[1] < g[2] /\ h[1] < h[2]
      /\ g[1] <= h[1] \/ h[2] <= g[1]
      /\ g[2] <= h[1] \/ h[2] <= g[2]
      /\ h[1] <= g[1] \/ g[2] <= h[1]
      /\ h[2] <= g[1] \/ g[2] <= h[2]
  BY GapsFound
<1>2. g[1] # h[1] \/ g[2] # h[2]
  BY <1>1
<1>3. Trades \subseteq Int
  BY TradesAreFinite
<1>4. g[1] \in Int /\ g[2] \in Int /\ h[1] \in Int /\ h[2] \in Int
  BY <1>1, <1>3
<1>5. QED
  BY <1>1, <1>2, <1>4

\* Every gap that is found is in the list.
LEMMA GapListsAreComplete ==
  ASSUME TypeOK, NEW q \in GapLists, NEW g \in Gaps
  PROVE  \E i \in DOMAIN q : g = q[i]
<1>1. q \in [1 .. Cardinality(Gaps) -> Gaps] /\ Cardinality(Gaps) \in Nat
  BY GapsFound DEF GapLists
<1>2. \A i, j \in 1 .. Cardinality(Gaps) : i # j => q[i] # q[j]
  BY <1>1, GapListsAreSequences
<1>3. q \in Injection(1 .. Cardinality(Gaps), Gaps)
  BY <1>1, <1>2, Zenon DEF Injection, IsInjective
<1>4. IsFiniteSet(Gaps) /\ Cardinality(1 .. Cardinality(Gaps)) = Cardinality(Gaps)
  <2>1. IsFiniteSet(Trades \X Trades)
    BY TradesAreFinite, FS_Product
  <2>2. IsFiniteSet(Gaps)
    BY <2>1, GapsFound, FS_Subset
  <2>3. Cardinality(1 .. Cardinality(Gaps)) = Cardinality(Gaps)
    BY <1>1, FS_Interval
  <2>4. QED
    BY <2>2, <2>3
<1>5. q \in Surjection(1 .. Cardinality(Gaps), Gaps)
  BY <1>3, <1>4, FS_Injection
<1>6. QED
  BY <1>1, <1>5 DEF Surjection

\* What a step of the backfiller does to the rows.
LEMMA BackfillerStores ==
  ASSUME TypeOK, BackfillerNext
  PROVE  /\ now' = now
         /\ \/ rows' = rows /\ Stored' = Stored /\ stale' \subseteq stale
            \/ /\ thread = "commit" /\ rows' = Inserted("backfiller", Batch)
               /\ Stored' = Stored \cup Batch /\ stale' = stale \cup Batch
<1>1. /\ now' = now
      /\ \/ rows' = rows /\ stale' \subseteq stale
         \/ /\ thread = "commit" /\ rows' = Inserted("backfiller", Batch)
            /\ stale' = stale \cup Batch
  BY DEF BackfillerNext, CycleStep, DetectGaps, NextGap, FetchPage, ApiError, RequestFails,
         Retry, InsertBatch, Commit, StatementFails, RefreshAggregates, RefreshFails,
         Return, StartCycle, ConnectFails, EndCycle, Cancel, EndThread, Restart, Crash,
         StoreBatch, ticks
<1>2. rows' = rows => Stored' = Stored
  BY DEF Stored
<1>3. rows' = Inserted("backfiller", Batch) => Stored' = Stored \cup Batch
  <2>1. Batch \subseteq Trades
    BY DEF TypeOK, BackfillerTypeOK, Batch, Oldest, Trades
  <2>2. QED
    BY <2>1, StoredAfter DEF TypeOK, TicksTypeOK, Sources
<1>4. QED
  BY <1>1, <1>2, <1>3

\* What it does to the rows it has fetched, and to the gaps.
LEMMA FetchesAndGaps ==
  ASSUME TypeOK, CycleInv, BackfillerNext
  PROVE  /\ all_rows' \subseteq all_rows \cup Page(since)
         /\ \/ gaps' \in GapLists /\ found' = Gaps
            \/ /\ found' = found \/ (found' = {} /\ gaps = <<>>)
               /\ gaps' \in {gaps, <<>>} \/ (gaps # <<>> /\ gaps' = Tail(gaps))
<1>1. CASE DetectGaps
  BY <1>1 DEF DetectGaps
<1>2. CASE FetchPage \/ ApiError
  <2>1. gaps # <<>> /\ found' = found
    BY <1>2 DEF FetchPage, ApiError, CycleInv, CycleInPlace, Filling, history
  <2>2. gaps' = gaps \/ gaps' = Tail(gaps)
    BY <1>2 DEF FetchPage, ApiError, EndFetch, LeaveGap
  <2>3. CASE ApiError
    BY <2>1, <2>2, <2>3 DEF ApiError, EndFetch
  <2>4. CASE FetchPage
    <3>1. PICK within \in {{t \in Page(since) : gaps[1][1] <= t /\ t <= gaps[1][2]} \ without :
                             without \in SUBSET {gaps[1][1], gaps[1][2]}} :
            IF Page(since) = {} \/ NextCursor(since) >= gaps[1][2]
            THEN EndFetch(all_rows \cup within)
            ELSE all_rows' = all_rows \cup within /\ UNCHANGED <<gaps, thread>>
      BY <2>4 DEF FetchPage
    <3>2. within \subseteq Page(since)
      BY <3>1
    <3>3. all_rows' \subseteq all_rows \cup within
      BY <3>1 DEF EndFetch
    <3>4. QED
      BY <2>1, <2>2, <3>2, <3>3
  <2>5. QED
    BY <1>2, <2>3, <2>4
<1>3. CASE RefreshAggregates \/ RefreshFails
  BY <1>3 DEF RefreshAggregates, RefreshFails, LeaveGap, CycleInv, CycleInPlace, Filling, history
<1>4. CASE StartCycle
  BY <1>4 DEF StartCycle, CycleInv, CycleInPlace
<1>5. CASE \/ NextGap \/ RequestFails \/ Retry \/ InsertBatch \/ Commit \/ StatementFails
           \/ Return \/ ConnectFails \/ EndCycle \/ Cancel \/ EndThread \/ Restart \/ Crash
  BY <1>5 DEF NextGap, RequestFails, Retry, InsertBatch, Commit, StatementFails,
              Return, ConnectFails, EndCycle, Cancel, EndThread, Restart, Crash, history, cycle
<1>6. QED
  BY <1>1, <1>2, <1>3, <1>4, <1>5 DEF BackfillerNext, CycleStep

\* The parts of FillInv that do not speak of progress.
LEMMA FillParts ==
  ASSUME TypeOK, CycleInv, FillInv, BackfillerNext
  PROVE  NothingEarly' /\ StaleIsStored' /\ FoundApart' /\ GapsFromFound'
<1>0. /\ NothingEarly /\ StaleIsStored /\ FoundApart /\ GapsFromFound
      /\ gaps \in Seq(Trades \X Trades) /\ now' = now
  BY BackfillerStores DEF FillInv, TypeOK, BackfillerTypeOK
<1>1. Batch \subseteq all_rows
  BY DEF Batch, Oldest
<1>2. NothingEarly'
  <2>1. \A t \in Page(since) : t <= now
    BY DEF Page
  <2>2. Stored' \subseteq Stored \cup all_rows /\ all_rows' \subseteq all_rows \cup Page(since)
    BY <1>1, BackfillerStores, FetchesAndGaps
  <2>3. \A t \in Stored' \cup all_rows' : t <= now
    BY <1>0, <2>1, <2>2 DEF NothingEarly
  <2>4. QED
    BY <1>0, <2>3 DEF NothingEarly
<1>3. StaleIsStored'
  BY <1>0, BackfillerStores DEF StaleIsStored
<1>4. CASE gaps' \in GapLists /\ found' = Gaps
  <2>1. GapsFromFound'
    BY <1>4, GapListsAreSequences DEF GapsFromFound
  <2>2. FoundApart'
    BY <1>0, <1>4, GapsFound, GapsAreApart DEF FoundApart, NothingEarly
  <2>3. QED
    BY <1>2, <1>3, <2>1, <2>2
<1>5. CASE /\ found' = found \/ (found' = {} /\ gaps = <<>>)
           /\ gaps' \in {gaps, <<>>} \/ (gaps # <<>> /\ gaps' = Tail(gaps))
  <2>1. FoundApart'
    BY <1>0, <1>5 DEF FoundApart
  <2>2. GapsFromFound'
    <3>1. CASE gaps' = gaps \/ gaps' = <<>>
      BY <1>0, <1>5, <3>1 DEF GapsFromFound
    <3>2. CASE gaps # <<>> /\ gaps' = Tail(gaps)
      BY <1>0, <1>5, <3>2, LeavingGap DEF GapsFromFound, CycleInv
    <3>3. QED
      BY <1>5, <3>1, <3>2
  <2>3. QED
    BY <1>2, <1>3, <2>1, <2>2
<1>6. QED
  BY <1>4, <1>5, FetchesAndGaps

Progress == FilledOrPending /\ StaleWhereFilled

\* What lies inside the present gap is stored or coming up.
LEMMA PresentGap ==
  ASSUME TypeOK, CycleInv, FillInv, whole, thread \in Filling, gaps # <<>>,
         NEW t \in Kraken, Inside(gaps[1], t)
  PROVE  t \in Stored \/ ComingUp(t)
<1>1. gaps \in Seq(Trades \X Trades) /\ 1 \in DOMAIN gaps /\ gaps[1] \in found
  BY DEF TypeOK, BackfillerTypeOK, FillInv, GapsFromFound
<1>2. t \in Stored \/ \E i \in DOMAIN gaps : gaps[1] = gaps[i] /\ (i = 1 => ComingUp(t))
  BY <1>1 DEF FillInv, FilledOrPending
<1>3. ASSUME NEW i \in DOMAIN gaps, gaps[1] = gaps[i] PROVE i = 1
  <2>1. /\ gaps[1] \in Trades \X Trades /\ Trades \subseteq Int /\ gaps[1][1] < gaps[1][2]
        /\ i # 1 => gaps[1][2] <= gaps[i][1] \/ gaps[i][2] <= gaps[1][1]
    BY <1>1, TradesAreFinite DEF CycleInv, GapsApart
  <2>2. gaps[1][1] \in Int /\ gaps[1][2] \in Int
    BY <2>1
  <2>3. QED
    BY <1>3, <2>1, <2>2
<1>4. QED
  BY <1>2, <1>3

\* The present gap is left once all inside of it is stored.
LEMMA LeavingIsProgress ==
  ASSUME TypeOK, CycleInv, FillInv, thread \in {"fetch", "refresh"}, thread' = "next",
         gaps' = Tail(gaps), Stored' = Stored, found' = found, whole' = whole,
         whole => \A t \in Kraken : Inside(gaps[1], t) => t \in Stored,
         \/ faults' # 0
         \/ faults' = faults /\ stale' \subseteq stale
            /\ \A t \in stale' : Inside(gaps[1], t) => thread # "refresh"
  PROVE  Progress'
<1>0. gaps # <<>> /\ gaps \in Seq(Trades \X Trades) /\ thread \in Filling
  BY DEF CycleInv, CycleInPlace, Filling, TypeOK, BackfillerTypeOK
<1>1. FilledOrPending'
  <2> SUFFICES ASSUME whole, NEW g \in found, NEW t \in Kraken, Inside(g, t), t \notin Stored
               PROVE  \E i \in DOMAIN gaps' : g = gaps'[i]
    BY DEF FilledOrPending, ComingUp, Inside
  <2>1. PICK i \in DOMAIN gaps : g = gaps[i]
    BY <1>0 DEF FillInv, FilledOrPending
  <2>2. i # 1
    BY <2>1
  <2>3. i - 1 \in DOMAIN gaps' /\ gaps'[i - 1] = gaps[i]
    BY <1>0, <2>2
  <2>4. QED
    BY <2>1, <2>3
<1>2. StaleWhereFilled'
  BY <1>0 DEF FillInv, StaleWhereFilled, Filling, Inside
<1>3. QED
  BY <1>1, <1>2 DEF Progress

\* The fetch ends once all that lies inside the gap is fetched.
LEMMA FetchIsProgress ==
  ASSUME TypeOK, CycleInv, FillInv, thread = "fetch", NEW fetched, EndFetch(fetched),
         Stored' = Stored, found' = found, whole' = whole, faults' = faults, stale' = stale,
         \A t \in Kraken : Inside(gaps[1], t) /\ ComingUp(t) => t \in fetched
  PROVE  Progress'
<1>0. FilledOrPending /\ StaleWhereFilled /\ GapsFromFound /\ gaps # <<>> /\ thread \in Filling
      /\ gaps \in Seq(Trades \X Trades) /\ 1 \in DOMAIN gaps
  BY DEF FillInv, CycleInv, CycleInPlace, Filling, TypeOK, BackfillerTypeOK
<1>1. CASE fetched # {}
  <2>1. gaps' = gaps /\ thread' = "insert" /\ all_rows' = fetched
    BY <1>1 DEF EndFetch
  <2>2. FilledOrPending'
    BY <1>0, <2>1 DEF FilledOrPending, ComingUp, Filling, Inside
  <2>3. StaleWhereFilled'
    BY <1>0, <2>1 DEF StaleWhereFilled, Inside
  <2>4. QED
    BY <2>2, <2>3 DEF Progress
<1>2. CASE fetched = {}
  <2>1. thread' = "next" /\ gaps' = Tail(gaps)
    BY <1>2 DEF EndFetch, LeaveGap
  <2>2. whole => \A t \in Kraken : Inside(gaps[1], t) => t \in Stored
    BY <1>0, <1>2, PresentGap
  <2>3. \A t \in stale' : Inside(gaps[1], t) => thread # "refresh"
    OBVIOUS
  <2>4. QED
    BY <2>1, <2>2, <2>3, LeavingIsProgress
<1>3. QED
  BY <1>1, <1>2

\* What a page does not bring is after its cursor, or outside the gap.
LEMMA FetchPageIsProgress ==
  ASSUME TypeOK, CycleInv, FillInv, FetchPage
  PROVE  Progress'
<1>0. /\ thread = "fetch" /\ gaps # <<>> /\ since' = NextCursor(since) /\ since \in Int
      /\ thread \in Filling /\ gaps \in Seq(Trades \X Trades) /\ Stored' = Stored
      /\ UNCHANGED <<found, whole, faults, stale>>
  BY BackfillerStores DEF FetchPage, CycleInv, CycleInPlace, Filling, TypeOK, BackfillerTypeOK, history,
         Stored, ticks
<1>1. PICK within \in {{t \in Page(since) : gaps[1][1] <= t /\ t <= gaps[1][2]} \ without :
                         without \in SUBSET {gaps[1][1], gaps[1][2]}} :
        IF Page(since) = {} \/ NextCursor(since) >= gaps[1][2]
        THEN EndFetch(all_rows \cup within)
        ELSE all_rows' = all_rows \cup within /\ UNCHANGED <<gaps, thread>>
  BY DEF FetchPage
<1>2. /\ gaps[1] \in found /\ gaps[1] \in Trades \X Trades /\ Trades \subseteq Int /\ now \in Int
      /\ Kraken \subseteq Int /\ gaps[1][2] <= now
  BY <1>0, TradesAreFinite DEF FillInv, GapsFromFound, FoundApart, TypeOK, TicksTypeOK, Trades
<1>3. gaps[1][1] \in Int /\ gaps[1][2] \in Int
  BY <1>2
<1>4. ASSUME NEW t \in Kraken, Inside(gaps[1], t), ComingUp(t)
      PROVE  \/ t \in all_rows \cup within
             \/ Page(since) # {} /\ NextCursor(since) < t
  <2>1. t \in all_rows \/ since < t
    BY <1>0, <1>4 DEF ComingUp
  <2>2. t \in Int /\ t <= now /\ gaps[1][1] < t /\ t < gaps[1][2]
    BY <1>2, <1>3, <1>4 DEF Inside
  <2>3. CASE since < t
    <3>1. Page(since) # {} /\ (t \in Page(since) \/ NextCursor(since) < t)
      BY <1>0, <2>2, <2>3, PageIsComplete
    <3>2. t \in Page(since) => t \in within
      BY <1>1, <1>3, <2>2
    <3>3. QED
      BY <3>1, <3>2
  <2>4. QED
    BY <2>1, <2>3
<1>5. CASE Page(since) = {} \/ NextCursor(since) >= gaps[1][2]
  <2>1. EndFetch(all_rows \cup within)
    BY <1>1, <1>5
  <2>2. ASSUME NEW t \in Kraken, Inside(gaps[1], t), ComingUp(t)
        PROVE  t \in all_rows \cup within
    <3>1. NextCursor(since) \in Int
      BY <1>0, <1>2, NextCursorIsLater
    <3>2. t \in Int /\ t < gaps[1][2]
      BY <1>2, <2>2 DEF Inside
    <3>3. QED
      BY <1>3, <1>4, <1>5, <2>2, <3>1, <3>2
  <2>3. QED
    BY <1>0, <2>1, <2>2, FetchIsProgress
<1>6. CASE ~(Page(since) = {} \/ NextCursor(since) >= gaps[1][2])
  <2>1. all_rows' = all_rows \cup within /\ UNCHANGED <<gaps, thread>>
    BY <1>1, <1>6
  <2>2. ASSUME NEW t \in Kraken, Inside(gaps[1], t), ComingUp(t) PROVE ComingUp(t)'
    BY <1>0, <1>4, <2>1, <2>2 DEF ComingUp
  <2>3. FilledOrPending'
    <3> SUFFICES ASSUME whole, NEW g \in found, NEW t \in Kraken, Inside(g, t), t \notin Stored
                 PROVE  \E i \in DOMAIN gaps : g = gaps[i] /\ (i = 1 => ComingUp(t)')
      BY <1>0, <2>1 DEF FilledOrPending, Inside
    <3>1. PICK i \in DOMAIN gaps : g = gaps[i] /\ (i = 1 => ComingUp(t))
      BY <1>0 DEF FillInv, FilledOrPending
    <3>2. QED
      BY <2>2, <3>1
  <2>4. StaleWhereFilled'
    BY <1>0, <2>1 DEF FillInv, StaleWhereFilled, Inside
  <2>5. QED
    BY <2>3, <2>4 DEF Progress
<1>7. QED
  BY <1>5, <1>6

\* What is coming up is stored, or still in a later batch.
LEMMA CommitIsProgress ==
  ASSUME TypeOK, CycleInv, FillInv, Commit
  PROVE  Progress'
<1>0. /\ thread = "commit" /\ thread' \in {"insert", "refresh"} /\ gaps # <<>>
      /\ gaps \in Seq(Trades \X Trades) /\ 1 \in DOMAIN gaps /\ thread \in Filling
      /\ all_rows' = all_rows \ Batch
      /\ thread' = "refresh" => all_rows' = {}
      /\ UNCHANGED <<gaps, found, whole, faults>> /\ stale' = stale \cup Batch
      /\ rows' = Inserted("backfiller", Batch)
  BY DEF Commit, StoreBatch, CycleInv, CycleInPlace, Filling, TypeOK, BackfillerTypeOK
<1>1. Stored' = Stored \cup Batch /\ Batch \subseteq all_rows
  <2>1. Batch \subseteq all_rows /\ Batch \subseteq Trades
    BY DEF TypeOK, BackfillerTypeOK, Batch, Oldest, Trades
  <2>2. QED
    BY <1>0, <2>1, StoredAfter DEF TypeOK, TicksTypeOK, Sources
<1>2. FilledOrPending'
  <2> SUFFICES ASSUME whole, NEW g \in found, NEW t \in Kraken, Inside(g, t), t \notin Stored'
               PROVE  \E i \in DOMAIN gaps : g = gaps[i] /\ (i = 1 => ComingUp(t)')
    BY <1>0 DEF FilledOrPending, Inside
  <2>1. PICK i \in DOMAIN gaps : g = gaps[i] /\ (i = 1 => ComingUp(t))
    BY <1>0, <1>1 DEF FillInv, FilledOrPending
  <2>2. ComingUp(t) => ComingUp(t)'
    BY <1>0, <1>1 DEF ComingUp
  <2>3. QED
    BY <2>1, <2>2
<1>3. StaleWhereFilled'
  <2> SUFFICES ASSUME faults = 0, NEW g \in found, NEW t \in stale', Inside(g, t)
               PROVE  g = gaps[1]
    BY <1>0 DEF StaleWhereFilled, Inside
  <2>1. CASE t \in stale
    BY <1>0, <2>1 DEF FillInv, StaleWhereFilled
  <2>2. CASE t \in Batch
    <3>1. gaps[1][1] <= t /\ t <= gaps[1][2] /\ g[1] < t /\ t < g[2] /\ gaps[1] \in found
      BY <1>0, <1>1, <2>2 DEF CycleInv, FetchedWithin, Inside, FillInv, GapsFromFound
    <3>2. g # gaps[1] => g[2] <= gaps[1][1] \/ gaps[1][2] <= g[1]
      BY <3>1 DEF FillInv, FoundApart
    <3>3. /\ g[1] \in Int /\ g[2] \in Int /\ gaps[1][1] \in Int /\ gaps[1][2] \in Int /\ t \in Int
      <4>1. found \subseteq Trades \X Trades /\ Trades \subseteq Int /\ t \in Trades
        BY <1>1, <2>2, TradesAreFinite DEF TypeOK, BackfillerTypeOK, Trades
      <4>2. QED
        BY <3>1, <4>1
    <3>4. QED
      BY <3>1, <3>2, <3>3
  <2>3. QED
    BY <1>0, <2>1, <2>2
<1>4. QED
  BY <1>2, <1>3 DEF Progress

\* No step of the backfiller loses a trade inside a gap.
LEMMA FillInvStep ==
  ASSUME TypeOK, CycleInv, FillInv, BackfillerNext
  PROVE  FillInv'
<1>0. /\ FilledOrPending /\ StaleWhereFilled /\ GapsFromFound /\ StaleIsStored
      /\ gaps \in Seq(Trades \X Trades) /\ now' = now
      /\ thread \in Filling \ {"next"} => gaps # <<>>
  BY BackfillerStores DEF FillInv, TypeOK, BackfillerTypeOK, CycleInv, CycleInPlace
<1>1. NothingEarly' /\ StaleIsStored' /\ FoundApart' /\ GapsFromFound'
  BY FillParts
<1>2. ASSUME thread' \notin Filling \cup {"returned"} PROVE Progress'
  BY <1>2 DEF Progress, FilledOrPending, StaleWhereFilled
<1>3. CASE DetectGaps
  <2>1. gaps' \in GapLists /\ found' = Gaps /\ stale' = stale /\ Stored' = Stored /\ thread' = "next"
    BY <1>3 DEF DetectGaps, Stored, ticks
  <2>2. FilledOrPending'
    BY <2>1, GapListsAreComplete DEF FilledOrPending, ComingUp
  <2>3. \A g \in Gaps, t \in stale : ~Inside(g, t)
    <3>1. Stored \subseteq Int /\ Gaps \subseteq Trades \X Trades /\ Trades \subseteq Int
      <4>1. Stored \subseteq Trades
        BY DEF Stored
      <4>2. Trades \subseteq Int
        BY TradesAreFinite
      <4>3. QED
        BY <4>1, <4>2, GapsFound
    <3>2. \A g \in Gaps, t \in Stored : g[1] \in Int /\ g[2] \in Int /\ (t <= g[1] \/ g[2] <= t)
      BY <3>1, GapsFound
    <3>3. QED
      BY <1>0, <3>1, <3>2 DEF Inside, StaleIsStored
  <2>4. StaleWhereFilled'
    BY <2>1, <2>3 DEF StaleWhereFilled, Inside
  <2>5. QED
    BY <1>1, <2>2, <2>4 DEF FillInv, Progress
<1>4. CASE NextGap
  <2>1. /\ thread = "next" /\ thread' = "fetch" /\ gaps # <<>> /\ since' \in CursorsAt(gaps[1][1])
        /\ UNCHANGED <<gaps, found, whole, faults, stale>> /\ Stored' = Stored
    BY <1>4 DEF NextGap, history, Stored, ticks
  <2>2. \A t \in Kraken : Inside(gaps[1], t) => since' < t
    <3>1. gaps[1] \in Trades \X Trades /\ Trades \subseteq Int /\ Kraken \subseteq Int
      BY <1>0, <2>1, TradesAreFinite DEF Trades
    <3>2. gaps[1][1] \in Int /\ gaps[1][2] \in Int
      BY <3>1
    <3>3. since' = gaps[1][1] \/ since' = gaps[1][1] - 1
      BY <2>1 DEF CursorsAt
    <3>4. ASSUME NEW t \in Kraken, Inside(gaps[1], t) PROVE since' < t
      <4>1. t \in Int /\ gaps[1][1] < t
        BY <3>1, <3>4 DEF Inside
      <4>2. QED
        BY <3>2, <3>3, <4>1
    <3>5. QED
      BY <3>4
  <2>3. FilledOrPending'
    BY <1>0, <2>1, <2>2 DEF FilledOrPending, ComingUp, Filling, Inside
  <2>4. StaleWhereFilled'
    BY <1>0, <2>1 DEF StaleWhereFilled, Filling, Inside
  <2>5. QED
    BY <1>1, <2>3, <2>4 DEF FillInv
<1>5. CASE FetchPage \/ Commit
  BY <1>1, <1>5, FetchPageIsProgress, CommitIsProgress DEF FillInv, Progress
<1>6. ASSUME faults' # 0, whole' => whole, found' = found, gaps' = gaps, all_rows' = all_rows,
             since' = since, Stored' = Stored, thread' = thread
      PROVE  Progress'
  BY <1>0, <1>6 DEF Progress, FilledOrPending, StaleWhereFilled, ComingUp, Inside
<1>7. CASE ApiError \/ ConnectFails
  <2>1. faults' # 0
    BY <1>7 DEF ApiError, ConnectFails, Fault, TypeOK, BackfillerTypeOK
  <2>2. CASE ApiError
    BY <2>1, <2>2, <1>1 DEF ApiError, FillInv, FilledOrPending, StaleWhereFilled
  <2>3. CASE ConnectFails
    BY <1>1, <1>6, <2>1, <2>3 DEF ConnectFails, FillInv, Progress, cycle, history, ticks, Stored
  <2>4. QED
    BY <1>7, <2>2, <2>3
<1>8. CASE RequestFails \/ Retry \/ InsertBatch
  <2>1. /\ UNCHANGED <<gaps, found, whole, faults, stale, all_rows, since>> /\ Stored' = Stored
        /\ \/ thread \in {"fetch", "wait"} /\ thread' \in {"fetch", "wait"}
           \/ thread = "insert" /\ thread' = "commit"
    BY <1>8 DEF RequestFails, Retry, InsertBatch, cycle, history, ticks, Stored
  <2>2. FilledOrPending'
    BY <1>0, <2>1 DEF FilledOrPending, ComingUp, Filling, Inside
  <2>3. StaleWhereFilled'
    BY <1>0, <2>1 DEF StaleWhereFilled, Filling, Inside
  <2>4. QED
    BY <1>1, <2>2, <2>3 DEF FillInv
<1>9. CASE Cancel
  BY <1>0, <1>1, <1>9
    DEF Cancel, FillInv, FilledOrPending, StaleWhereFilled, ComingUp, Inside, cycle, history, ticks,
        Stored
<1>10. CASE RefreshAggregates \/ RefreshFails
  <2>0. /\ thread = "refresh" /\ gaps # <<>> /\ Stored' = Stored /\ found' = found /\ whole' = whole
    BY <1>0, <1>10 DEF RefreshAggregates, RefreshFails, Filling, Stored, ticks, history
  <2>1. whole => \A t \in Kraken : Inside(gaps[1], t) => t \in Stored
    BY <2>0, PresentGap DEF ComingUp, Filling
  <2>2. CASE RefreshAggregates
    <3>1. /\ thread' = "next" /\ gaps' = Tail(gaps) /\ faults' = faults
          /\ stale' = {t \in stale : t < gaps[1][1] \/ t > gaps[1][2]}
      BY <2>2 DEF RefreshAggregates, LeaveGap
    <3>2. \A t \in stale' : ~Inside(gaps[1], t)
      <4>1. gaps[1] \in Trades \X Trades /\ Trades \subseteq Int /\ stale \subseteq Int
        BY <1>0, <2>0, TradesAreFinite DEF Trades, TypeOK, BackfillerTypeOK
      <4>2. gaps[1][1] \in Int /\ gaps[1][2] \in Int
        BY <4>1
      <4>3. QED
        BY <3>1, <4>1, <4>2 DEF Inside
    <3>3. Progress'
      BY <2>0, <2>1, <3>1, <3>2, LeavingIsProgress
    <3>4. QED
      BY <1>1, <3>3 DEF FillInv, Progress
  <2>3. CASE RefreshFails
    <3>1. faults' # 0 /\ ((thread' = "next" /\ gaps' = Tail(gaps)) \/ thread' = "raised")
      BY <2>3 DEF RefreshFails, LeaveGap, Fault, TypeOK, BackfillerTypeOK
    <3>2. Progress'
      BY <1>2, <2>0, <2>1, <3>1, LeavingIsProgress DEF Filling
    <3>3. QED
      BY <1>1, <3>2 DEF FillInv, Progress
  <2>4. QED
    BY <1>10, <2>2, <2>3
<1>11. CASE Return
  BY <1>0, <1>1, <1>11
    DEF Return, FillInv, FilledOrPending, StaleWhereFilled, ComingUp, Inside, Filling, cycle, history,
        ticks, Stored
<1>12. CASE StatementFails \/ StartCycle \/ EndCycle \/ EndThread \/ Restart \/ Crash
  <2>1. thread' \notin Filling \cup {"returned"}
    BY <1>12 DEF StatementFails, StartCycle, EndCycle, EndThread, Restart, Crash, Filling
  <2>2. QED
    BY <1>1, <1>2, <2>1 DEF FillInv, Progress
<1>13. QED
  BY <1>3, <1>4, <1>5, <1>7, <1>8, <1>9, <1>10, <1>11, <1>12 DEF BackfillerNext, CycleStep

-----------------------------------------------------------------------------

\* Steps of others take nothing from a cycle: rows are only added.
LEMMA FillStays ==
  ASSUME TypeOK, FillInv, UNCHANGED bf, Stored \subseteq Stored',
         now' \in Int, now <= now', \A t \in Stored' : t <= now'
  PROVE  FillInv'
<1>0. /\ UNCHANGED <<gaps, found, whole, faults, stale, all_rows, since, thread>>
      /\ now \in Int /\ all_rows \subseteq Int /\ found \subseteq Trades \X Trades
      /\ Trades \subseteq Int
  BY TradesAreFinite
    DEF bf, cycle, history, TypeOK, TicksTypeOK, BackfillerTypeOK, Trades
<1>1. NothingEarly'
  <2>1. ASSUME NEW t \in all_rows PROVE t <= now'
    BY <1>0, <2>1 DEF FillInv, NothingEarly
  <2>2. QED
    BY <1>0, <2>1 DEF NothingEarly
<1>2. StaleIsStored' /\ GapsFromFound'
  BY <1>0 DEF FillInv, StaleIsStored, GapsFromFound
<1>3. FoundApart'
  <2>1. ASSUME NEW g \in found PROVE g[2] <= now'
    <3>1. g[2] \in Int /\ g[2] <= now
      BY <1>0 DEF FillInv, FoundApart
    <3>2. QED
      BY <1>0, <3>1
  <2>2. QED
    BY <1>0, <2>1 DEF FillInv, FoundApart
<1>4. FilledOrPending'
  BY <1>0 DEF FillInv, FilledOrPending, ComingUp, Inside
<1>5. StaleWhereFilled'
  BY <1>0 DEF FillInv, StaleWhereFilled, Inside
<1>6. QED
  BY <1>1, <1>2, <1>3, <1>4, <1>5 DEF FillInv

\* What no load will reach stays so: time passes, and rows are never removed.
LEMMA UnreachedStays ==
  ASSUME TypeOK, TicksTypeOK', now <= now',
         \A s \in Sources, t \in Trades : rows[s][t] <= rows'[s][t],
         NEW u \in Kraken, Unreached(u)
  PROVE  Unreached(u)'
<1>0. now \in Int /\ now' \in Int /\ DaysBack \in Int /\ u \in Int /\ u \in Trades
  BY TradesAreFinite, LoadAssumption DEF TypeOK, TicksTypeOK, Trades
<1>1. CASE u <= now - DaysBack
  <2>1. \A m, n, d, x \in Int : m <= n /\ x <= m - d => x <= n - d
    OBVIOUS
  <2>2. u <= now' - DaysBack
    BY <1>0, <1>1, <2>1
  <2>3. QED
    BY <2>2 DEF Unreached
<1>2. CASE \E w \in Stored : u < w /\ rows["consumer"][w] + rows["backfiller"][w] > 0
  <2>1. PICK w \in Stored : u < w /\ rows["consumer"][w] + rows["backfiller"][w] > 0
    BY <1>2
  <2>2. w \in Trades /\ \E s \in Sources : rows[s][w] > 0
    BY DEF Stored
  <2>3. \A s \in Sources : rows[s][w] \in Nat /\ rows'[s][w] \in Nat /\ rows[s][w] <= rows'[s][w]
    BY <2>2 DEF TypeOK, TicksTypeOK
  <2>4. w \in Stored'
    BY <2>2, <2>3 DEF Stored
  <2>5. rows'["consumer"][w] + rows'["backfiller"][w] > 0
    BY <2>1, <2>3 DEF Sources
  <2>6. QED
    BY <2>1, <2>4, <2>5 DEF Unreached
<1>3. QED
  BY <1>1, <1>2 DEF Unreached

\* No step removes a row.
LEMMA RowsGrow ==
  ASSUME TypeOK, NEW s \in Sources, NEW T, T \subseteq Trades,
         rows' = rows \/ rows' = Inserted(s, T)
  PROVE  /\ \A r \in Sources, t \in Trades : rows[r][t] <= rows'[r][t]
         /\ Stored \subseteq Stored' /\ Stored' \subseteq Stored \cup T
         /\ rows' \in [Sources -> [Trades -> Nat]]
<1>0. rows \in [Sources -> [Trades -> Nat]]
  BY DEF TypeOK, TicksTypeOK
<1>1. \A r \in Sources, t \in Trades : rows[r][t] \in Nat /\ rows[r][t] <= rows[r][t] + 1
  BY <1>0
<1>2. CASE rows' = rows
  BY <1>0, <1>1, <1>2 DEF Stored
<1>3. CASE rows' = Inserted(s, T)
  <2>1. \A r \in Sources, t \in Trades : rows'[r][t] = rows[r][t] \/ rows'[r][t] = rows[r][t] + 1
    BY <1>0, <1>3, InsertedCounts
  <2>2. \A r \in Sources, t \in Trades : rows[r][t] <= rows'[r][t]
    BY <1>1, <2>1
  <2>3. QED
    BY <1>0, <1>3, <2>2, InsertedCounts, StoredAfter
<1>4. QED
  BY <1>2, <1>3

\* Steps of others leave no holes.
LEMMA HolesStay ==
  ASSUME TypeOK, HoleInv, TicksTypeOK', UNCHANGED ld, now <= now', Stored \subseteq Stored',
         \A s \in Sources, t \in Trades : rows[s][t] <= rows'[s][t],
         rows'["loader"] = rows["loader"]
  PROVE  HoleInv'
<1>0. now \in Int /\ now' \in Int /\ \A l \in Loaders : until[l] \in Int
  BY DEF TypeOK, TicksTypeOK, LoaderTypeOK
<1>1. LoadsArePast'
  BY <1>0 DEF HoleInv, LoadsArePast, ld
<1>2. NothingSkipped'
  BY DEF HoleInv, NothingSkipped, Ahead, ld
<1>3. BeforeStart'
  BY UnreachedStays DEF HoleInv, BeforeStart, ld
<1>4. NoHoles'
  BY UnreachedStays DEF HoleInv, NoHoles
<1>5. QED
  BY <1>1, <1>2, <1>3, <1>4 DEF HoleInv

\* A loader stores the oldest trades of its batch: what it leaves out is before
\* its start.
LEMMA StoringLeavesNoHole ==
  ASSUME TypeOK, TicksTypeOK', LoadInv, HoleInv, NEW l \in Loaders, loader[l] \in {"insert", "last"},
         NEW T, T \subseteq batch[l], rows' = Inserted("loader", T), now' = now,
         \A v \in T, u \in batch[l] : u < v => u \in T
  PROVE  NoHoles' /\ BeforeStart
<1>0. /\ T \subseteq Trades /\ "loader" \in Sources /\ Trades \subseteq Int /\ Kraken \subseteq Trades
      /\ rows \in [Sources -> [Trades -> Nat]] /\ now \in Int /\ now <= now
      /\ batch[l] \subseteq Kraken /\ start[l] \in Int /\ until[l] \in Int
  <2>1. Trades \subseteq Int /\ Kraken \subseteq Trades
    BY TradesAreFinite DEF Trades
  <2>2. \A c \in Times : c \in Int
    BY TimeAssumption, LoadAssumption DEF Times
  <2>3. batch[l] \subseteq Kraken /\ start[l] \in Int /\ until[l] \in Int
    BY <2>2 DEF TypeOK, LoaderTypeOK
  <2>4. T \subseteq Trades
    BY <2>1, <2>3
  <2>5. rows \in [Sources -> [Trades -> Nat]] /\ now \in 0 .. MaxTime /\ "loader" \in Sources
    BY DEF TypeOK, TicksTypeOK, Sources
  <2>6. now \in Int /\ now <= now
    BY <2>5, TimeAssumption
  <2>7. QED
    BY <2>1, <2>3, <2>4, <2>5, <2>6
<1>1. /\ Stored' = Stored \cup T
      /\ \A r \in Sources, t \in Trades : rows[r][t] <= rows'[r][t]
      /\ \A t \in Trades : rows'["loader"][t] = IF t \in T THEN rows["loader"][t] + 1
                                                          ELSE rows["loader"][t]
  <2>1. Stored' = Stored \cup T
    BY <1>0, StoredAfter
  <2>2. \A r \in Sources, t \in Trades : rows[r][t] <= rows'[r][t]
    BY <1>0, RowsGrow
  <2>3. \A t \in Trades : Inserted("loader", T)["loader"][t] =
          IF t \in T THEN rows["loader"][t] + 1 ELSE rows["loader"][t]
    BY <1>0, InsertedCounts
  <2>4. QED
    BY <2>1, <2>2, <2>3
<1>2. BeforeStart /\ NoHoles /\ NothingSkipped /\ LoadsArePast /\ BatchInOrder
  BY DEF HoleInv, LoadInv
<1>3. ASSUME NEW u \in Kraken, NEW v \in Trades, u < v, rows'["loader"][v] > 0, u \notin Stored'
      PROVE  Unreached(u)
  <2>1. u \in Int /\ v \in Int /\ u \notin Stored /\ u \notin T
    BY <1>0, <1>1, <1>3
  <2>2. CASE rows["loader"][v] > 0
    BY <1>2, <1>3, <2>1, <2>2 DEF NoHoles
  <2>3. CASE v \in T
    <3>1. v \in batch[l] /\ v <= until[l] /\ (loader[l] = "insert" => v <= cursor[l])
      BY <1>2, <2>3 DEF LoadsArePast, BatchInOrder
    <3>2. CASE u <= start[l]
      BY <1>2, <2>1, <3>2 DEF BeforeStart
    <3>3. CASE start[l] < u
      <4>1. u <= until[l]
        BY <1>0, <1>3, <2>1, <3>1
      <4>2. Ahead(l, u)
        BY <1>2, <2>1, <3>3, <4>1 DEF NothingSkipped
      <4>3. u \notin batch[l]
        BY <1>3, <2>1, <2>3
      <4>4. loader[l] = "insert" /\ cursor[l] < u
        BY <4>2, <4>3 DEF Ahead
      <4>5. cursor[l] \in Int
        <5>1. \A c \in Times : c \in Int
          BY TimeAssumption, LoadAssumption DEF Times
        <5>2. QED
          BY <5>1 DEF TypeOK, LoaderTypeOK
      <4>6. QED
        BY <1>3, <2>1, <3>1, <4>4, <4>5
    <3>4. QED
      BY <1>0, <2>1, <3>2, <3>3
  <2>4. QED
    BY <1>1, <1>3, <2>2, <2>3
<1>4. ASSUME NEW u \in Kraken, Unreached(u) PROVE Unreached(u)'
  BY <1>0, <1>1, <1>4, UnreachedStays
<1>5. NoHoles'
  BY <1>3, <1>4 DEF NoHoles
<1>6. QED
  BY <1>2, <1>5

\* A loader stores the oldest trades of its batch, keeps the others, and goes
\* on; or it fails.
StoresAndGoes(l, T, step, left) ==
  /\ loader[l] \in {"insert", "last"} /\ loader' = [loader EXCEPT ![l] = step]
  /\ T \subseteq batch[l] /\ rows' = Inserted("loader", T) /\ now' = now
  /\ \A v \in T, u \in batch[l] : u < v => u \in T
  /\ batch' = [batch EXCEPT ![l] = left] /\ left \subseteq batch[l]
  /\ UNCHANGED <<until, start>>
  /\ \/ step = "failed" /\ \E c : cursor' = [cursor EXCEPT ![l] = c]
     \/ /\ cursor' = cursor /\ batch[l] = T \cup left
        /\ \/ step \in {"fetch", "insert"} /\ loader[l] = "insert"
           \/ step \in {"last", "refresh"} /\ loader[l] = "last"

\* No step of a loader leaves a hole: it goes on from the latest row, and stores
\* the oldest trades first.
LEMMA LoaderHoles ==
  ASSUME TypeOK, TicksTypeOK', LoadInv, HoleInv, LoaderNext
  PROVE  /\ HoleInv' /\ now' = now
         /\ \E T \in SUBSET {t \in Kraken : t <= now} : rows' = rows \/ rows' = Inserted("loader", T)
<1>0. /\ LoaderTypeOK /\ TicksTypeOK /\ LoadsArePast /\ NothingSkipped /\ BeforeStart /\ NoHoles
      /\ BatchInOrder /\ "loader" \in Sources
  BY DEF TypeOK, HoleInv, LoadInv, Sources
<1>01. /\ Trades \subseteq Int /\ Kraken \subseteq Trades /\ Times \subseteq Int /\ now \in Int
       /\ LoadSize \in Nat /\ DaysBack \in Nat /\ Kraken \subseteq 0 .. MaxTime
       /\ \A l \in Loaders : until[l] \in Int /\ start[l] \in Int /\ cursor[l] \in Int
                             /\ batch[l] \subseteq Kraken
  <2>1. Trades \subseteq Int /\ Kraken \subseteq Trades /\ Kraken \subseteq 0 .. MaxTime
    BY TradesAreFinite DEF Trades
  <2>2. \A c \in Times : c \in Int
    BY TimeAssumption, LoadAssumption DEF Times
  <2>3. now \in Int /\ LoadSize \in Nat /\ DaysBack \in Nat
    BY <1>0, LoadAssumption DEF TicksTypeOK
  <2>4. \A l \in Loaders : until[l] \in Int
    BY <1>0 DEF LoaderTypeOK
  <2>5. QED
    BY <1>0, <2>1, <2>2, <2>3, <2>4 DEF LoaderTypeOK
<1>1. ASSUME rows' = rows, now' = now
      PROVE  /\ Stored' = Stored /\ NoHoles' /\ \A u : Unreached(u) => Unreached(u)'
             /\ \E T \in SUBSET {t \in Kraken : t <= now} : rows' = rows \/ rows' = Inserted("loader", T)
  BY <1>0, <1>1 DEF NoHoles, Stored, Unreached
<1>2. ASSUME NEW l \in Loaders, StartLoader(l)
      PROVE  HoleInv' /\ now' = now /\ rows' = rows
  <2>1. /\ loader[l] = "none" /\ loader' = [loader EXCEPT ![l] = "latest"]
        /\ until' = [until EXCEPT ![l] = now] /\ rows' = rows /\ now' = now
        /\ UNCHANGED <<start, cursor, batch, load_faults>>
    BY <1>2 DEF StartLoader, Goto, ticks
  <2>2. LoadsArePast'
    <3>1. batch[l] = {}
      BY <1>0, <2>1 DEF BatchInOrder
    <3>2. QED
      BY <1>0, <1>01, <2>1, <3>1 DEF LoadsArePast, LoaderTypeOK
  <2>3. NothingSkipped'
    BY <1>0, <1>1, <2>1 DEF NothingSkipped, LoaderTypeOK, Ahead
  <2>4. BeforeStart'
    BY <1>0, <1>1, <2>1 DEF BeforeStart, LoaderTypeOK
  <2>5. QED
    BY <1>1, <2>1, <2>2, <2>3, <2>4 DEF HoleInv
<1>3. ASSUME NEW l \in Loaders, GetLatest(l)
      PROVE  HoleInv' /\ now' = now /\ rows' = rows
  <2>1. PICK c \in CursorsAt(StartAt(l)) : cursor' = [cursor EXCEPT ![l] = c]
    BY <1>3 DEF GetLatest
  <2>2. /\ loader[l] = "latest" /\ loader' = [loader EXCEPT ![l] = "fetch"]
        /\ start' = [start EXCEPT ![l] = StartAt(l)] /\ rows' = rows /\ now' = now
        /\ UNCHANGED <<until, batch, load_faults>>
    BY <1>3 DEF GetLatest, Goto, ticks
  <2>3. StartAt(l) \in Int /\ (c = StartAt(l) \/ c = StartAt(l) - 1)
    BY <1>01, StartOfLoad DEF CursorsAt
  <2>4. LoadsArePast'
    BY <1>0, <2>2 DEF LoadsArePast
  <2>5. NothingSkipped'
    <3>1. ASSUME NEW t \in Kraken, StartAt(l) < t PROVE c < t
      <4>1. t \in Int
        BY <1>01
      <4>2. QED
        BY <2>3, <3>1, <4>1
    <3>2. QED
      BY <1>0, <1>1, <2>1, <2>2, <3>1 DEF NothingSkipped, LoaderTypeOK, Ahead
  <2>6. ASSUME NEW u \in Kraken, u <= StartAt(l), u \notin Stored PROVE Unreached(u)
    <3>1. u \in Int /\ until[l] \in Int /\ until[l] <= now
      BY <1>0, <1>01 DEF LoadsArePast
    <3>2. CASE StartAt(l) = until[l] - DaysBack
      <4>1. \A m, n, d, x \in Int : m <= n /\ x <= m - d => x <= n - d
        OBVIOUS
      <4>2. u <= now - DaysBack
        BY <1>01, <2>6, <3>1, <3>2, <4>1
      <4>3. QED
        BY <4>2 DEF Unreached
    <3>3. CASE Stored # {} /\ StartAt(l) = Max(Stored)
      <4>1. Stored \subseteq 0 .. MaxTime
        <5>1. Stored \subseteq Trades
          BY DEF Stored
        <5>2. 1 .. MaxTime \subseteq 0 .. MaxTime
          BY TimeAssumption
        <5>3. QED
          BY <5>1, <5>2, TradesAreFinite
      <4>2. Max(Stored) \in Stored
        BY <3>3, <4>1, MaxIsMember
      <4> DEFINE w == Max(Stored)
      <4>3. w \in Trades /\ u < w /\ \E s \in Sources : rows[s][w] > 0
        <5>1. w \in Trades /\ \E s \in Sources : rows[s][w] > 0
          BY <4>2 DEF Stored
        <5>2. w \in Int /\ u <= w /\ u # w
          BY <1>01, <2>6, <3>3, <4>2, <5>1
        <5>3. QED
          BY <3>1, <5>1, <5>2
      <4>4. CASE rows["loader"][w] > 0
        BY <1>0, <2>6, <4>3, <4>4 DEF NoHoles
      <4>5. CASE rows["consumer"][w] + rows["backfiller"][w] > 0
        BY <4>2, <4>3, <4>5 DEF Unreached
      <4>6. \A s \in Sources : rows[s][w] \in Nat
        BY <1>0, <4>3 DEF TicksTypeOK
      <4>7. rows["loader"][w] > 0 \/ rows["consumer"][w] + rows["backfiller"][w] > 0
        BY <4>3, <4>6 DEF Sources
      <4>8. QED
        BY <4>4, <4>5, <4>7
    <3>4. QED
      BY <3>2, <3>3 DEF StartAt
  <2>7. BeforeStart'
    BY <1>0, <1>1, <2>2, <2>6 DEF BeforeStart, LoaderTypeOK
  <2>8. QED
    BY <1>1, <2>2, <2>4, <2>5, <2>7 DEF HoleInv
<1>4. ASSUME NEW l \in Loaders, LoadPage(l)
      PROVE  HoleInv' /\ now' = now /\ rows' = rows
  <2> DEFINE page == Page(cursor[l])
             last == NextCursor(cursor[l])
             kept == batch[l] \cup {t \in page : t <= until[l]}
  <2>1. /\ loader[l] = "fetch" /\ batch' = [batch EXCEPT ![l] = kept] /\ rows' = rows /\ now' = now
        /\ UNCHANGED <<until, start, load_faults>>
        /\ \/ /\ page = {} \/ last >= until[l]
              /\ Goto(l, "last") /\ cursor' = [cursor EXCEPT ![l] = 0]
           \/ AfterPage(l, kept) /\ cursor' = [cursor EXCEPT ![l] = last]
    BY <1>4 DEF LoadPage, ticks
  <2>2. PICK step \in {"last", "insert", "fetch"}, c \in Int :
          /\ loader' = [loader EXCEPT ![l] = step] /\ cursor' = [cursor EXCEPT ![l] = c]
          /\ IF step = "last" THEN page = {} \/ last >= until[l] ELSE c = last
    <3>1. last \in Int
      BY <1>01, NextCursorIsLater
    <3>2. QED
      BY <2>1, <3>1 DEF AfterPage, Goto
  <2>3. LoadsArePast'
    BY <1>0, <2>1 DEF LoadsArePast, LoaderTypeOK
  <2>4. ASSUME NEW t \in Kraken, start[l] < t, t <= until[l], t \notin Stored
        PROVE  t \in kept \/ (step # "last" /\ last < t)
    <3>1. t \in batch[l] \/ cursor[l] < t
      BY <1>0, <2>1, <2>4 DEF NothingSkipped, Ahead
    <3>2. CASE cursor[l] < t
      <4>1. t \in Int /\ t <= now
        BY <1>0, <1>01, <2>4 DEF LoadsArePast
      <4>2. page # {} /\ (t \in page \/ last < t)
        BY <1>01, <3>2, <4>1, PageIsComplete
      <4>3. last < t => ~(last >= until[l])
        <5>1. last = cursor[l] \/ last \in Kraken
          BY <1>01, NextCursorIsLater
        <5>2. last \in Int /\ until[l] \in Int
          BY <1>01, <5>1
        <5>3. QED
          BY <2>4, <4>1, <5>2
      <4>4. QED
        BY <2>2, <2>4, <4>2, <4>3
    <3>3. QED
      BY <3>1, <3>2
  <2>5. NothingSkipped'
    <3>1. /\ loader'[l] = step /\ cursor'[l] = c /\ batch'[l] = kept
          /\ \A k \in Loaders \ {l} : /\ loader'[k] = loader[k] /\ cursor'[k] = cursor[k]
                                      /\ batch'[k] = batch[k]
      BY <1>0, <2>1, <2>2 DEF LoaderTypeOK
    <3>2. ASSUME NEW t \in Kraken, start[l] < t, t <= until[l], t \notin Stored
          PROVE  Ahead(l, t)'
      BY <2>2, <2>4, <3>1, <3>2 DEF Ahead
    <3>3. QED
      BY <1>0, <1>1, <2>1, <3>1, <3>2 DEF NothingSkipped, Ahead
  <2>6. BeforeStart'
    BY <1>0, <1>1, <2>1, <2>2 DEF BeforeStart, LoaderTypeOK
  <2>7. QED
    BY <1>1, <2>1, <2>3, <2>5, <2>6 DEF HoleInv
<1>5. ASSUME NEW l \in Loaders, NEW T, NEW step, NEW left, StoresAndGoes(l, T, step, left)
      PROVE  /\ HoleInv' /\ now' = now
             /\ \E S \in SUBSET {t \in Kraken : t <= now} : rows' = rows \/ rows' = Inserted("loader", S)
  <2>0. /\ loader[l] \in {"insert", "last"} /\ loader' = [loader EXCEPT ![l] = step]
        /\ T \subseteq batch[l] /\ rows' = Inserted("loader", T) /\ now' = now
        /\ \A v \in T, u \in batch[l] : u < v => u \in T
        /\ batch' = [batch EXCEPT ![l] = left] /\ left \subseteq batch[l]
        /\ UNCHANGED <<until, start>>
        /\ \/ step = "failed" /\ \E c : cursor' = [cursor EXCEPT ![l] = c]
           \/ /\ cursor' = cursor /\ batch[l] = T \cup left
              /\ \/ step \in {"fetch", "insert"} /\ loader[l] = "insert"
                 \/ step \in {"last", "refresh"} /\ loader[l] = "last"
    BY <1>5 DEF StoresAndGoes
  <2>1. NoHoles'
    BY <1>0, <2>0, StoringLeavesNoHole
  <2>2. T \subseteq Trades /\ T \in SUBSET {t \in Kraken : t <= now}
    <3>1. ASSUME NEW t \in T PROVE t \in Trades /\ t \in Kraken /\ t <= now
      <4>1. t \in batch[l] /\ t <= until[l] /\ until[l] <= now
        BY <1>0, <2>0 DEF LoadsArePast
      <4>2. t \in Int /\ until[l] \in Int /\ t \in Kraken /\ t \in Trades
        BY <1>01, <4>1
      <4>3. QED
        BY <1>01, <4>1, <4>2
    <3>2. QED
      BY <3>1
  <2>3. /\ Stored' = Stored \cup T
        /\ \A r \in Sources, t \in Trades : rows[r][t] <= rows'[r][t]
    BY <1>0, <2>0, <2>2, StoredAfter, RowsGrow DEF TicksTypeOK
  <2>4. \A u \in Kraken : Unreached(u) => Unreached(u)'
    BY <1>01, <2>0, <2>3, UnreachedStays
  <2>5. /\ loader'[l] = step /\ batch'[l] = left
        /\ \A k \in Loaders \ {l} : /\ loader'[k] = loader[k] /\ cursor'[k] = cursor[k]
                                    /\ batch'[k] = batch[k]
    BY <1>0, <2>0 DEF LoaderTypeOK
  <2>6. LoadsArePast'
    BY <1>0, <2>0, <2>5 DEF LoadsArePast
  <2>7. NothingSkipped'
    <3>1. ASSUME NEW t \in Kraken, start[l] < t, t <= until[l], t \notin Stored', step # "failed"
          PROVE  Ahead(l, t)'
      <4>1. t \notin Stored /\ t \notin T
        BY <2>3, <3>1
      <4>2. Ahead(l, t)
        BY <1>0, <2>0, <3>1, <4>1 DEF NothingSkipped
      <4>3. QED
        BY <2>0, <2>5, <3>1, <4>1, <4>2 DEF Ahead
    <3>2. QED
      BY <1>0, <2>0, <2>3, <2>5, <3>1 DEF NothingSkipped, Ahead
  <2>8. BeforeStart'
    BY <1>0, <2>0, <2>3, <2>4, <2>5 DEF BeforeStart
  <2>9. QED
    BY <2>0, <2>1, <2>2, <2>6, <2>7, <2>8 DEF HoleInv
<1>6. ASSUME NEW l \in Loaders
      PROVE  /\ Oldest(batch[l], LoadSize) \subseteq batch[l]
             /\ \A v \in Oldest(batch[l], LoadSize), u \in batch[l] :
                  u < v => u \in Oldest(batch[l], LoadSize)
  <2>1. batch[l] \subseteq 0 .. MaxTime
    BY <1>01
  <2>2. QED
    BY <1>01, <2>1, OldestComeFirst DEF Oldest
<1>7. ASSUME NEW l \in Loaders, InsertFull(l)
      PROVE  /\ HoleInv' /\ now' = now
             /\ \E S \in SUBSET {t \in Kraken : t <= now} : rows' = rows \/ rows' = Inserted("loader", S)
  <2> DEFINE full == Oldest(batch[l], LoadSize)
             left == batch[l] \ full
  <2>1. /\ rows' = Inserted("loader", full) /\ now' = now
        /\ batch' = [batch EXCEPT ![l] = left] /\ left \subseteq batch[l]
        /\ batch[l] = full \cup left
        /\ UNCHANGED <<until, start>> /\ cursor' = cursor
        /\ loader[l] \in {"insert", "last"}
    BY <1>6, <1>7 DEF InsertFull, Store
  <2>2. \E step : /\ loader' = [loader EXCEPT ![l] = step]
                  /\ \/ step \in {"fetch", "insert"} /\ loader[l] = "insert"
                     \/ step = "last" /\ loader[l] = "last"
    <3>1. CASE loader[l] = "last"
      BY <1>0, <1>7, <3>1 DEF InsertFull, LoaderTypeOK
    <3>2. CASE loader[l] = "insert"
      BY <1>7, <2>1, <3>2 DEF InsertFull, AfterPage, Goto
    <3>3. QED
      BY <2>1, <3>1, <3>2
  <2>3. PICK step : /\ loader' = [loader EXCEPT ![l] = step]
                    /\ \/ step \in {"fetch", "insert"} /\ loader[l] = "insert"
                       \/ step = "last" /\ loader[l] = "last"
    BY <2>2
  <2>4. /\ full \subseteq batch[l]
        /\ \A v \in full, u \in batch[l] : u < v => u \in full
    BY <1>6
  <2>5. StoresAndGoes(l, full, step, left)
    BY <2>1, <2>3, <2>4 DEF StoresAndGoes
  <2>6. QED
    BY <1>5, <2>5
<1>8. ASSUME NEW l \in Loaders, InsertRest(l)
      PROVE  /\ HoleInv' /\ now' = now
             /\ \E S \in SUBSET {t \in Kraken : t <= now} : rows' = rows \/ rows' = Inserted("loader", S)
  <2>1. /\ rows' = Inserted("loader", batch[l]) /\ now' = now
        /\ batch' = [batch EXCEPT ![l] = {}] /\ {} \subseteq batch[l]
        /\ batch[l] = batch[l] \cup {} /\ batch[l] \subseteq batch[l]
        /\ UNCHANGED <<until, start>> /\ cursor' = cursor
        /\ loader[l] = "last" /\ loader' = [loader EXCEPT ![l] = "refresh"]
    BY <1>8 DEF InsertRest, Store, Goto
  <2>2. \A v \in batch[l], u \in batch[l] : u < v => u \in batch[l]
    OBVIOUS
  <2>3. StoresAndGoes(l, batch[l], "refresh", {})
    BY <2>1, <2>2 DEF StoresAndGoes
  <2>4. QED
    BY <1>5, <2>3
<1>9. ASSUME NEW l \in Loaders, RefreshCas(l)
      PROVE  HoleInv' /\ now' = now /\ rows' = rows
  <2>1. /\ loader[l] = "refresh" /\ loader' = [loader EXCEPT ![l] = "complete"]
        /\ rows' = rows /\ now' = now /\ UNCHANGED <<until, start, cursor, batch>>
    BY <1>9 DEF RefreshCas, Goto, ticks
  <2>2. NothingSkipped'
    BY <1>0, <1>1, <2>1 DEF NothingSkipped, LoaderTypeOK, Ahead
  <2>3. LoadsArePast' /\ BeforeStart'
    BY <1>0, <1>1, <2>1 DEF LoadsArePast, BeforeStart, LoaderTypeOK
  <2>4. QED
    BY <1>1, <2>1, <2>2, <2>3 DEF HoleInv
<1>10. ASSUME NEW l \in Loaders, LoaderFails(l)
       PROVE  /\ HoleInv' /\ now' = now
             /\ \E S \in SUBSET {t \in Kraken : t <= now} : rows' = rows \/ rows' = Inserted("loader", S)
  <2>1. /\ loader' = [loader EXCEPT ![l] = "failed"] /\ batch' = [batch EXCEPT ![l] = {}]
        /\ cursor' = [cursor EXCEPT ![l] = 0] /\ UNCHANGED <<until, start>> /\ now' = now
        /\ {} \subseteq batch[l]
    BY <1>10 DEF LoaderFails, Goto
  <2>2. CASE rows' = rows
    <3>1. NothingSkipped'
      BY <1>0, <1>1, <2>1, <2>2 DEF NothingSkipped, LoaderTypeOK, Ahead
    <3>2. LoadsArePast' /\ BeforeStart'
      BY <1>0, <1>1, <2>1, <2>2 DEF LoadsArePast, BeforeStart, LoaderTypeOK
    <3>3. QED
      BY <1>1, <2>1, <2>2, <3>1, <3>2 DEF HoleInv
  <2>3. CASE loader[l] \in {"insert", "last"} /\ rows' = Inserted("loader", Oldest(batch[l], LoadSize))
    <3> DEFINE full == Oldest(batch[l], LoadSize)
    <3>1. /\ full \subseteq batch[l] /\ rows' = Inserted("loader", full)
          /\ \A v \in full, u \in batch[l] : u < v => u \in full
      BY <1>6, <2>3
    <3>2. \E c : cursor' = [cursor EXCEPT ![l] = c]
      BY <2>1
    <3>3. StoresAndGoes(l, full, "failed", {})
      BY <2>1, <2>3, <3>1, <3>2 DEF StoresAndGoes
    <3>4. QED
      BY <1>5, <3>3
  <2>4. QED
    BY <1>10, <2>2, <2>3 DEF LoaderFails
<1>11. QED
  BY <1>1, <1>2, <1>3, <1>4, <1>7, <1>8, <1>9, <1>10 DEF LoaderNext, LoaderStep

(* The invariant, and what follows from it.                                *)

\* Nothing is stored at first, and nothing runs.
LEMMA HistoryInvInit == Init => HistoryInv
<1> SUFFICES ASSUME Init PROVE HistoryInv
  OBVIOUS
<1>1. /\ RowsInv /\ TypeOK /\ now \in 0 .. MaxTime
      /\ rows = [s \in Sources |-> [t \in Trades |-> 0]]
  BY RowsInvInit DEF RowsInv, TypeOK, Init, TicksInit, TicksTypeOK
<1>2. Stored = {} /\ \A t \in Trades : rows["loader"][t] = 0
  BY <1>1 DEF Stored, Sources
<1>3. FillInv
  BY <1>2 DEF Init, BackfillerInit, FillInv, NothingEarly, StaleIsStored, FoundApart, GapsFromFound,
              FilledOrPending, StaleWhereFilled, Filling
<1>4. LoadsArePast
  BY <1>1, TimeAssumption DEF Init, LoaderInit, LoadsArePast
<1>5. NothingSkipped /\ BeforeStart
  BY DEF Init, LoaderInit, NothingSkipped, BeforeStart
<1>6. NoHoles
  BY <1>2 DEF NoHoles
<1>7. QED
  BY <1>1, <1>3, <1>4, <1>5, <1>6 DEF HistoryInv, HoleInv

\* Each writer keeps its part of the invariant by its own lemmas, and the parts
\* of the others because it adds rows of trades of the past, and only that.
LEMMA HistoryInvStep == HistoryInv /\ [Next]_vars => HistoryInv'
<1> SUFFICES ASSUME HistoryInv, [Next]_vars PROVE HistoryInv'
  OBVIOUS
<1>0. /\ RowsInv /\ FillInv /\ HoleInv /\ RowsInv'
      /\ TypeOK /\ CycleInv /\ LoadInv /\ TicksTypeOK'
  BY RowsInvStep DEF HistoryInv, RowsInv, TypeOK
<1>1. /\ now \in Int /\ now' \in Int /\ now <= now /\ Sources = {"consumer", "backfiller", "loader"}
      /\ rows \in [Sources -> [Trades -> Nat]] /\ Stored \subseteq Trades /\ Trades \subseteq Int
      /\ Kraken \subseteq Trades
  <2>1. now \in Int /\ now' \in Int /\ rows \in [Sources -> [Trades -> Nat]]
    BY <1>0 DEF TypeOK, TicksTypeOK
  <2>2. now <= now
    BY <2>1
  <2>3. QED
    BY <2>1, <2>2, TradesAreFinite DEF Sources, Stored, Trades
\* Whatever source a row is of, its trade is in the past.
<1> DEFINE Past == {t \in Trades : t <= now}
<1>2. ASSUME NEW s \in Sources, NEW T \in SUBSET Past,
             rows' = rows \/ rows' = Inserted(s, T), now <= now'
      PROVE  /\ \A r \in Sources, t \in Trades : rows[r][t] <= rows'[r][t]
             /\ Stored \subseteq Stored' /\ \A t \in Stored' : t <= now'
             /\ s # "loader" => rows'["loader"] = rows["loader"]
  <2>1. /\ \A r \in Sources, t \in Trades : rows[r][t] <= rows'[r][t]
        /\ Stored \subseteq Stored' /\ Stored' \subseteq Stored \cup T
    <3>1. T \subseteq Trades
      OBVIOUS
    <3>2. QED
      BY <1>0, <1>2, <3>1, RowsGrow
  <2>2. ASSUME NEW t \in Stored' PROVE t <= now'
    <3>1. t \in Int /\ t <= now
      BY <1>0, <1>1, <1>2, <2>1 DEF FillInv, NothingEarly
    <3>2. QED
      BY <1>1, <1>2, <3>1
  <2>3. s # "loader" => rows'["loader"] = rows["loader"]
    BY <1>1, <1>2, InsertedCounts
  <2>4. QED
    BY <2>1, <2>2, <2>3
<1>3. CASE TicksNext /\ UNCHANGED <<bf, ld>>
  <2>1. PICK T \in SUBSET Past : rows' = rows \/ rows' = Inserted("consumer", T)
    <3>1. CASE Tick
      <4>1. {} \in SUBSET Past /\ rows' = rows
        BY <3>1 DEF Tick
      <4>2. QED
        BY <4>1
    <3>2. ASSUME NEW t \in Trades, Consume(t)
          PROVE  {t} \in SUBSET Past /\ rows' = Inserted("consumer", {t})
      BY <3>2 DEF Consume
    <3>3. QED
      BY <1>3, <3>1, <3>2 DEF TicksNext
  <2>2. now <= now'
    <3>1. now' = now + 1 \/ now' = now
      BY <1>3 DEF TicksNext, Tick, Consume
    <3>2. QED
      BY <1>1, <3>1
  <2>3. /\ \A r \in Sources, t \in Trades : rows[r][t] <= rows'[r][t]
        /\ Stored \subseteq Stored' /\ \A t \in Stored' : t <= now'
        /\ rows'["loader"] = rows["loader"]
    BY <1>1, <1>2, <2>1, <2>2
  <2>4. FillInv'
    BY <1>0, <1>1, <1>3, <2>2, <2>3, FillStays
  <2>5. HoleInv'
    BY <1>0, <1>3, <2>2, <2>3, HolesStay
  <2>6. QED
    BY <1>0, <2>4, <2>5 DEF HistoryInv
<1>4. CASE BackfillerNext /\ UNCHANGED ld
  <2>1. now' = now /\ (rows' = rows \/ (thread = "commit" /\ rows' = Inserted("backfiller", Batch)))
    BY <1>0, <1>4, BackfillerStores
  <2>2. Batch \in SUBSET Past
    <3>1. Batch \subseteq all_rows /\ all_rows \subseteq Kraken
      BY <1>0 DEF Batch, Oldest, TypeOK, BackfillerTypeOK
    <3>2. QED
      BY <1>0, <1>1, <3>1 DEF FillInv, NothingEarly
  <2>3. /\ \A r \in Sources, t \in Trades : rows[r][t] <= rows'[r][t]
        /\ Stored \subseteq Stored' /\ rows'["loader"] = rows["loader"]
    BY <1>1, <1>2, <2>1, <2>2
  <2>4. FillInv'
    BY <1>0, <1>4, FillInvStep
  <2>5. HoleInv'
    BY <1>0, <1>1, <1>4, <2>1, <2>3, HolesStay
  <2>6. QED
    BY <1>0, <2>4, <2>5 DEF HistoryInv
<1>5. CASE LoaderNext /\ UNCHANGED bf
  <2>1. HoleInv' /\ now' = now
    BY <1>0, <1>5, LoaderHoles
  <2>2. PICK T \in SUBSET {t \in Kraken : t <= now} : rows' = rows \/ rows' = Inserted("loader", T)
    BY <1>0, <1>5, LoaderHoles
  <2>3. T \in SUBSET Past
    BY <1>1, <2>2
  <2>4. Stored \subseteq Stored' /\ \A t \in Stored' : t <= now'
    BY <1>1, <1>2, <2>1, <2>2, <2>3
  <2>5. FillInv'
    BY <1>0, <1>1, <1>5, <2>1, <2>4, FillStays
  <2>6. QED
    BY <1>0, <2>1, <2>5 DEF HistoryInv
<1>6. CASE UNCHANGED vars
  <2>1. /\ rows' = rows /\ now' = now /\ UNCHANGED bf /\ UNCHANGED ld
    BY <1>6 DEF vars, ticks
  <2>2. "consumer" \in Sources /\ {} \in SUBSET Past /\ now <= now'
    BY <1>1, <2>1
  <2>3. /\ \A r \in Sources, t \in Trades : rows[r][t] <= rows'[r][t]
        /\ Stored \subseteq Stored' /\ \A t \in Stored' : t <= now'
    BY <1>1, <1>2, <2>1, <2>2
  <2>4. FillInv'
    BY <1>0, <1>1, <2>1, <2>3, FillStays
  <2>5. HoleInv'
    BY <1>0, <1>1, <2>1, <2>3, HolesStay
  <2>6. QED
    BY <1>0, <2>4, <2>5 DEF HistoryInv
<1>7. QED
  BY <1>3, <1>4, <1>5, <1>6 DEF Next

-----------------------------------------------------------------------------

\* The invariant holds whatever the trades, the bounds, and the faults.
THEOREM HistoryInvariance == Spec => []HistoryInv
<1>1. QED
  BY HistoryInvInit, HistoryInvStep, PTL DEF Spec

\* The jobs of module2_timescale keep their variables in their types; among
\* them, the backfiller reports no more gaps filled than found, whatever fails.
THEOREM TypeCorrect == Spec => []TypeOK
<1>1. HistoryInv => TypeOK
  BY DEF HistoryInv, RowsInv
<1>2. QED
  BY <1>1, HistoryInvariance, PTL

\* However a cycle is cancelled, its thread commits one batch at most after
\* that: the one whose commit was under way (the thread that
\* smart_backfiller.py's run_in_executor started cannot be cancelled, but its
\* connection is closed).
THEOREM CancelledCyclesStoreOneBatch == Spec => []CancelledStoresOneBatch
<1>1. HistoryInv => CancelledStoresOneBatch
  BY DEF HistoryInv, RowsInv, CycleInv, LateOnce, CancelledStoresOneBatch
<1>2. QED
  BY <1>1, HistoryInvariance, PTL

\* Although raw_ticks has no constraint that refuses a second row, the
\* backfiller makes one only of the ends of gaps, once per gap found, and a
\* loader at most one of each trade, whatever fails, is cancelled or restarted.
THEOREM RowsRepeatAtEndsOnly == Spec => []RowsRepeatOnlyAtEnds
<1>1. ASSUME HistoryInv PROVE RowsRepeatOnlyAtEnds
  <2> SUFFICES ASSUME NEW t \in Kraken
               PROVE  /\ rows["backfiller"][t] <= 1 + ends[t]
                      /\ rows["loader"][t] <=
                           Cardinality({l \in Loaders : loader[l] \notin {"unused", "none"}
                                                         /\ start[l] <= t})
    BY DEF RowsRepeatOnlyAtEnds
  <2> DEFINE Loading == {l \in Loaders : loader[l] \notin {"unused", "none"} /\ start[l] <= t}
  <2>0. TypeOK /\ CycleInv /\ RowsAllowed /\ LoadedOnce
    BY <1>1 DEF HistoryInv, RowsInv, LoadInv
  <2>1. rows["backfiller"][t] \in Nat /\ rows["loader"][t] \in Nat /\ ends[t] \in Nat
    BY <2>0 DEF TypeOK, TicksTypeOK, BackfillerTypeOK, Sources, Trades
  <2>2. rows["backfiller"][t] <= 1 + ends[t]
    BY <2>0, <2>1, AwaitingIsFinite DEF RowsAllowed
  <2>3. rows["loader"][t] <= Cardinality(Loading)
    <3>1. IsFiniteSet(Loading)
      BY LoadAssumption, FS_Subset
    <3>2. PassedBy(t) \subseteq Loading
      BY DEF PassedBy
    <3>3. /\ Cardinality(PassedBy(t)) \in Nat /\ Cardinality(Loading) \in Nat
          /\ Cardinality(PassedBy(t)) <= Cardinality(Loading)
      BY <3>1, <3>2, FS_Subset, FS_CardinalityType
    <3>4. QED
      BY <2>0, <2>1, <3>3 DEF LoadedOnce
  <2>4. QED
    BY <2>2, <2>3
<1>2. QED
  BY <1>1, HistoryInvariance, PTL

\* A cycle that has returned, and to which Kraken answered completely, has
\* stored every trade inside its gaps, whoever else wrote meanwhile; and where
\* nothing failed, it refreshed the aggregates around each of them after its
\* last batch (run_backfill_cycle and refresh_aggregates).
THEOREM FinishedCyclesAreComplete == Spec => []FinishedCycleIsComplete
<1>1. ASSUME HistoryInv PROVE FinishedCycleIsComplete
  <2> SUFFICES ASSUME thread = "returned", NEW g \in found, NEW t \in Kraken, Inside(g, t)
               PROVE  (whole => t \in Stored) /\ (faults = 0 => t \notin stale)
    BY DEF FinishedCycleIsComplete, Inside
  <2>1. FilledOrPending /\ StaleWhereFilled /\ gaps = <<>> /\ DOMAIN gaps = {}
    BY <1>1 DEF HistoryInv, RowsInv, FillInv, CycleInv, CycleInPlace
  <2>2. QED
    BY <2>1 DEF FilledOrPending, StaleWhereFilled
<1>2. QED
  BY <1>1, HistoryInvariance, PTL

\* A loader that has inserted everything has left out no trade between its
\* first and its start; and whichever loaders failed, ran at once or follow
\* each other, a trade missing before a loaded one is out of every load's reach
\* (fetch_real_data.py starts from the latest row, and copies in order).
THEOREM LoadsLeaveNoHoles == Spec => []LoadsLeaveNoHole
<1>1. ASSUME HistoryInv PROVE LoadsLeaveNoHole
  <2>0. NothingSkipped /\ NoHoles /\ BatchInOrder /\ Kraken \subseteq Trades
    BY <1>1 DEF HistoryInv, RowsInv, LoadInv, HoleInv, Trades
  <2>1. ASSUME NEW l \in Loaders, NEW t \in Kraken, loader[l] \in {"refresh", "complete"},
               start[l] < t, t <= until[l]
        PROVE  t \in Stored
    BY <2>0, <2>1 DEF NothingSkipped, BatchInOrder, Ahead
  <2>2. \A u, v \in Kraken :
          u < v /\ rows["loader"][v] > 0 /\ u \notin Stored => Unreached(u)
    BY <2>0 DEF NoHoles
  <2>3. QED
    BY <2>1, <2>2 DEF LoadsLeaveNoHole
<1>2. QED
  BY <1>1, HistoryInvariance, PTL
=============================================================================
