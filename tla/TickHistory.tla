----------------------------- MODULE TickHistory ----------------------------
(***************************************************************************)
(* Who writes to raw_ticks while the service runs: the consumer, the smart *)
(* backfiller and the loaders, each on its own connection, with no order   *)
(* between them and no constraint that would refuse a second row.          *)
(***************************************************************************)
EXTENDS SmartBackfiller, HistoryLoader

CONSTANT Plans  \* bound: when a behaviour begins, its cycles and its loaders

ASSUME PlanAssumption ==
  Plans \subseteq [now : 0 .. MaxTime, cycles : 0 .. MaxCycles, loaders : SUBSET Loaders]

vars == <<ticks, bf, ld>>

TypeOK == TicksTypeOK /\ BackfillerTypeOK /\ LoaderTypeOK

Planned(p) ==
  /\ now = p.now /\ cycles = MaxCycles - p.cycles
  /\ p.loaders = {l \in Loaders : loader[l] = "none"}

Init ==
  /\ TicksInit /\ BackfillerInit /\ LoaderInit
  /\ \E p \in Plans : Planned(p)

Next ==
  \/ TicksNext /\ UNCHANGED <<bf, ld>>
  \/ BackfillerNext /\ UNCHANGED ld
  \/ LoaderNext /\ UNCHANGED bf

Spec == Init /\ [][Next]_vars

\* The thread and the task keep running, and Kraken answers now and then.
FairSpec ==
  /\ Spec
  /\ WF_vars(CycleStep /\ UNCHANGED ld)
  /\ SF_vars(FetchPage /\ UNCHANGED ld)

-----------------------------------------------------------------------------

\* A trade gets a second row from the backfiller only where it is the end of a
\* gap, once for each time that gap is found: what a cycle has filled is never
\* the inside of a gap again, whatever fails in between.  And a loader process
\* makes one row of a trade at most.
RowsRepeatOnlyAtEnds ==
  \A t \in Kraken :
    /\ rows["backfiller"][t] <= 1 + ends[t]
    /\ rows["loader"][t] <=
         Cardinality({l \in Loaders : loader[l] \notin {"unused", "none"} /\ start[l] <= t})

\* A cycle that got complete answers, for a symbol that has a Kraken pair in
\* SYMBOL_TO_PAIR, has stored what lies inside its gaps, and if nothing failed
\* the aggregates there were refreshed after that.
FinishedCycleIsComplete ==
  thread = "returned" =>
    \A g \in found, t \in Kraken : g[1] < t /\ t < g[2] =>
      /\ whole => t \in Stored
      /\ faults = 0 => t \notin stale

\* Once its task is cancelled, the thread of a cycle stores a batch at most.
CancelledStoresOneBatch == late <= BatchSize

\* A loader that has completed left no trade out between its first and its
\* start.  One that was cut off leaves no hole to the next: a trade that is
\* missing before a loaded one is older than any load reaches, or another source
\* has a newer row, from which a load went on.
Unreached(t) ==
  \/ t <= now - DaysBack
  \/ \E w \in Stored : t < w /\ rows["consumer"][w] + rows["backfiller"][w] > 0

LoadsLeaveNoHole ==
  /\ \A l \in Loaders, t \in Kraken :
       loader[l] \in {"refresh", "complete"} /\ start[l] < t /\ t <= until[l] => t \in Stored
  /\ \A u, v \in Kraken :
       u < v /\ rows["loader"][v] > 0 /\ u \notin Stored => Unreached(u)

\* Every cycle ends, however often requests to Kraken fail: the task goes on to
\* the next one, and once it is cancelled the process can exit.
CyclesEnd == []<>(thread = "idle")
=============================================================================
