------------------------------ MODULE RawTicks ------------------------------
(***************************************************************************)
(* The table raw_ticks as the jobs of module2_timescale see it: the trades *)
(* of one symbol on a time line, the rows each source has made of them,    *)
(* and Kraken's history of the trades, which is read page by page.         *)
(*                                                                         *)
(* A trade is named by its time.  A row carries the trade's time but       *)
(* rounded to microseconds, and each source rounds in its own way: whether *)
(* a trade lies on, before or after the time of its own row is open.       *)
(***************************************************************************)
EXTENDS Integers, FiniteSets, FiniteSetsExt

CONSTANTS
  Kraken,   \* the trades of the symbol on Kraken
  Own,      \* its trades in the own order book: rows Kraken does not know
  Received, \* the trades that reach the consumer
  MaxTime,  \* bound: the last instant
  PageSize  \* the trades of one answer of Kraken: 1000 in the code

Trades == Kraken \cup Own

ASSUME TimeAssumption ==
  /\ MaxTime \in Nat /\ Trades \subseteq 1 .. MaxTime
  /\ Received \subseteq Trades /\ Kraken \cap Own = {}

ASSUME PageAssumption == PageSize \in Nat \ {0}

Sources == {"consumer", "backfiller", "loader"}

VARIABLES
  now,  \* the time
  rows  \* how many rows of raw_ticks each source has made of each trade

ticks == <<now, rows>>

Stored == {t \in Trades : \E s \in Sources : rows[s][t] > 0}

\* The rows after a source has inserted one for each trade of T.
Inserted(s, T) ==
  [rows EXCEPT ![s] = [t \in Trades |-> IF t \in T THEN @[t] + 1 ELSE @[t]]]

\* What Kraken answers to a request for the trades since a cursor, and the
\* cursor of the next request.
Page(cursor) ==
  LET Later == {t \in Kraken : cursor < t /\ t <= now}
  IN  {t \in Later : Cardinality({u \in Later : u <= t}) <= PageSize}

NextCursor(cursor) == IF Page(cursor) = {} THEN cursor ELSE Max(Page(cursor))

\* Mutant: the cursor is rounded down too far.
CursorsBefore(time) == {time, time - 2}

\* The cursor made of a row's time: the trade of that row may lie after it.
CursorsAt(time) == {time, time - 1}

\* The first n trades of a set.
Oldest(T, n) == {t \in T : Cardinality({u \in T : u <= t}) <= n}

-----------------------------------------------------------------------------

TicksInit ==
  /\ now \in 0 .. MaxTime
  /\ rows = [s \in Sources |-> [t \in Trades |-> 0]]

TicksTypeOK ==
  /\ now \in 0 .. MaxTime
  /\ rows \in [Sources -> [Trades -> Nat]]

Tick == now < MaxTime /\ now' = now + 1 /\ UNCHANGED rows

\* The consumer inserts a trade that reached it, in any order and at any time
\* after the trade, or never.
Consume(t) ==
  /\ t \in Received /\ t <= now /\ rows["consumer"][t] = 0
  /\ rows' = Inserted("consumer", {t}) /\ UNCHANGED now

TicksNext == Tick \/ \E t \in Trades : Consume(t)
=============================================================================
