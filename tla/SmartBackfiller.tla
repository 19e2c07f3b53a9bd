--------------------------- MODULE SmartBackfiller --------------------------
(***************************************************************************)
(* module2_timescale/smart_backfiller.py: a task of the analytics service  *)
(* that looks for gaps between the rows of raw_ticks and fills them from   *)
(* Kraken's history.  Its cycle runs in a thread; the task awaits it, and  *)
(* owns the connection the thread uses.                                    *)
(***************************************************************************)
EXTENDS RawTicks, Sequences

CONSTANTS
  GapThreshold,  \* GAP_THRESHOLD_S
  Lookback,      \* LOOKBACK_HOURS
  BatchSize,     \* BATCH_SIZE: 5000 in the code
  MaxCycles,     \* bound: the cycles that are started
  MaxFaults      \* bound: errors of Kraken, statements and connections that fail

ASSUME BackfillAssumption ==
  /\ BatchSize \in Nat \ {0}
  /\ {GapThreshold, Lookback, MaxCycles, MaxFaults} \subseteq Nat

VARIABLES
  task,    \* where run_backfiller is
  conn,    \* its connection
  thread,  \* where run_backfill_cycle is
  gaps,    \* the gaps the cycle has still to fill, the present one first
  since,   \* the cursor of the request for the present gap
  all_rows,\* what was fetched for it and is not inserted yet
  tally,   \* what the cycle has counted
  backfiller_state,
  stale,   \* trades inserted since their aggregates were refreshed
  whole,   \* history: whether every answer of this cycle was complete
  found,   \* history: the gaps of this cycle
  ends,    \* history: how often a trade was the end of a gap
  late,    \* history: the rows inserted after the task was cancelled
  cycles,  \* the cycles started: some may be used up from the beginning
  faults   \* history: the faults so far

cycle == <<gaps, since, all_rows, tally>>
history == <<whole, found, ends, late, cycles>>
bf == <<task, conn, thread, cycle, backfiller_state, stale, history, faults>>

Tasks == {"sleep", "await", "ended"}
Steps == {"idle", "detect", "next", "fetch", "wait", "insert", "commit",
          "refresh", "returned", "raised"}
Zero == [gaps_found |-> 0, gaps_filled |-> 0, rows_backfilled |-> 0]

BackfillerTypeOK ==
  /\ task \in Tasks /\ conn \in {"open", "closed"} /\ thread \in Steps
  /\ gaps \in Seq(Trades \X Trades) /\ since \in 0 .. MaxTime
  /\ all_rows \subseteq Kraken /\ stale \subseteq Kraken
  /\ tally \in [DOMAIN Zero -> Nat] /\ backfiller_state \in [DOMAIN Zero -> Nat]
  /\ backfiller_state.gaps_filled <= backfiller_state.gaps_found
  /\ whole \in BOOLEAN /\ found \subseteq Trades \X Trades
  /\ ends \in [Trades -> Nat]
  /\ late \in Nat /\ cycles \in 0 .. MaxCycles /\ faults \in 0 .. MaxFaults

BackfillerInit ==
  /\ task = "sleep" /\ conn = "closed" /\ thread = "idle"
  /\ gaps = <<>> /\ since = 0 /\ all_rows = {} /\ tally = Zero
  /\ backfiller_state = Zero /\ stale = {}
  /\ whole = TRUE /\ found = {} /\ ends = [t \in Trades |-> 0]
  /\ late = 0 /\ cycles \in 0 .. MaxCycles /\ faults = 0

Fault == faults < MaxFaults /\ faults' = faults + 1

-----------------------------------------------------------------------------
(* The cycle, in its thread.                                               *)

\* Neighbours among the recent rows that are too far apart.
Gaps ==
  LET Recent == {t \in Stored : t > now - Lookback}
  IN  {g \in Recent \X Recent :
         /\ g[2] - g[1] > GapThreshold
         /\ \A t \in Recent : t <= g[1] \/ g[2] <= t}

Length(g) == g[2] - g[1]

\* The gaps, longest first.
GapLists ==
  {q \in [1 .. Cardinality(Gaps) -> Gaps] :
     \A i, j \in DOMAIN q : i < j => q[i] # q[j] /\ Length(q[i]) >= Length(q[j])}

DetectGaps ==
  /\ thread = "detect" /\ conn = "open"
  /\ gaps' \in GapLists
  /\ found' = Gaps
  /\ ends' = [t \in Trades |-> ends[t] + Cardinality({g \in Gaps : t \in {g[1], g[2]}})]
  /\ tally' = [tally EXCEPT !.gaps_found = Cardinality(Gaps)]
  /\ thread' = "next"
  /\ UNCHANGED <<ticks, task, conn, since, all_rows, backfiller_state, stale,
                 whole, late, cycles, faults>>

NextGap ==
  /\ thread = "next" /\ gaps # <<>>
  /\ since' \in CursorsAt(gaps[1][1])
  /\ all_rows' = {} /\ thread' = "fetch"
  /\ UNCHANGED <<ticks, task, conn, gaps, tally, backfiller_state, stale,
                 history, faults>>

\* The gap is done with, or nothing was found for it.
LeaveGap == gaps' = Tail(gaps) /\ thread' = "next"

EndFetch(fetched) ==
  IF fetched = {}
  THEN LeaveGap /\ all_rows' = {}
  ELSE gaps' = gaps /\ thread' = "insert" /\ all_rows' = fetched

\* A page: the trades before the gap are skipped, the first one after it ends
\* the fetch.  The trades at the two ends may lie within or without.  The symbol
\* is one of SYMBOL_TO_PAIR: for any other the fetch returns nothing at once.
FetchPage ==
  /\ thread = "fetch"
  /\ LET start == gaps[1][1]
         end   == gaps[1][2]
         page  == Page(since)
     IN \E within \in {{t \in page : start <= t /\ t <= end} \ without :
                         without \in SUBSET {start, end}} :
          LET fetched == all_rows \cup within
          IN IF page = {} \/ NextCursor(since) >= end
             THEN EndFetch(fetched)
             ELSE all_rows' = fetched /\ UNCHANGED <<gaps, thread>>
  /\ since' = NextCursor(since)
  /\ UNCHANGED <<ticks, task, conn, tally, backfiller_state, stale, history, faults>>

\* Kraken answers with an error: what was fetched so far is all.
ApiError ==
  /\ thread = "fetch" /\ Fault
  /\ EndFetch(all_rows)
  /\ whole' = FALSE
  /\ UNCHANGED <<ticks, task, conn, since, tally, backfiller_state, stale,
                 found, ends, late, cycles>>

\* Mutant: a request that fails ends the fetch.
RequestGivesUp ==
  /\ thread = "fetch" /\ EndFetch(all_rows)
  /\ UNCHANGED <<ticks, task, conn, since, tally, backfiller_state, stale, history, faults>>

\* The request fails and is repeated after a while, for ever if need be.
RequestFails ==
  /\ thread = "fetch" /\ thread' = "wait"
  /\ UNCHANGED <<ticks, task, conn, cycle, backfiller_state, stale, history, faults>>

Retry ==
  /\ thread = "wait" /\ thread' = "fetch"
  /\ UNCHANGED <<ticks, task, conn, cycle, backfiller_state, stale, history, faults>>

Batch == Oldest(all_rows, BatchSize)

\* The batch is sent, and its commit is under way.
InsertBatch ==
  /\ thread = "insert" /\ conn = "open"
  /\ thread' = "commit"
  /\ UNCHANGED <<ticks, task, conn, cycle, backfiller_state, stale, history, faults>>

\* No constraint of raw_ticks can conflict: every row of the batch is new.
StoreBatch ==
  /\ rows' = Inserted("backfiller", Batch) /\ stale' = stale \cup Batch
  /\ late' = IF task = "ended" THEN late + Cardinality(Batch) ELSE late
  /\ UNCHANGED now

\* Mutant: each batch begins with the last trade of the one before.
CommitOverlap ==
  /\ thread = "commit" /\ conn = "open"
  /\ StoreBatch
  /\ all_rows' = all_rows \ Oldest(all_rows, BatchSize - 1)
  /\ thread' = "insert"
  /\ UNCHANGED <<task, conn, gaps, since, tally, backfiller_state, whole, found, ends,
                 cycles, faults>>

Commit ==
  /\ thread = "commit" /\ conn = "open"
  /\ StoreBatch
  /\ all_rows' = all_rows \ Batch
  /\ IF all_rows' = {}
     THEN /\ thread' = "refresh"
          /\ tally' = [tally EXCEPT !.gaps_filled = @ + 1,
                                    !.rows_backfilled = @ + Cardinality(Batch)]
     ELSE /\ thread' = "insert"
          /\ tally' = [tally EXCEPT !.rows_backfilled = @ + Cardinality(Batch)]
  /\ UNCHANGED <<task, conn, gaps, since, backfiller_state, whole, found, ends,
                 cycles, faults>>

\* Mutant: a statement that fails is repeated.
StatementRepeated ==
  /\ thread \in {"detect", "insert", "commit"} /\ Fault
  /\ UNCHANGED <<ticks, task, conn, thread, cycle, backfiller_state, stale, history>>

\* A statement finds its connection closed, or fails.  A commit may have been
\* executed all the same.
StatementFails ==
  /\ thread \in {"detect", "insert", "commit"}
  /\ IF conn = "closed" THEN UNCHANGED faults ELSE Fault
  /\ \/ UNCHANGED <<ticks, stale, late>>
     \/ thread = "commit" /\ StoreBatch
  /\ thread' = "raised"
  /\ UNCHANGED <<task, conn, cycle, backfiller_state, whole, found, ends, cycles>>

\* The aggregates around the gap are refreshed, over a connection of its own.
RefreshAggregates ==
  /\ thread = "refresh"
  /\ stale' = {t \in stale : t < gaps[1][1] \/ t > gaps[1][2]}
  /\ LeaveGap
  /\ UNCHANGED <<ticks, task, conn, since, all_rows, tally, backfiller_state,
                 history, faults>>

\* A view that fails is logged and left; no connection raises.
RefreshFails ==
  /\ thread = "refresh" /\ Fault
  /\ LeaveGap \/ (thread' = "raised" /\ gaps' = gaps)
  /\ UNCHANGED <<ticks, task, conn, since, all_rows, tally, backfiller_state,
                 stale, history>>

Return ==
  /\ thread = "next" /\ gaps = <<>>
  /\ thread' = "returned"
  /\ UNCHANGED <<ticks, task, conn, cycle, backfiller_state, stale, history, faults>>

-----------------------------------------------------------------------------
(* The task.                                                               *)

StartCycle ==
  /\ task = "sleep" /\ cycles < MaxCycles
  /\ task' = "await" /\ conn' = "open" /\ thread' = "detect"
  /\ tally' = Zero /\ whole' = TRUE /\ found' = {} /\ cycles' = cycles + 1
  /\ UNCHANGED <<ticks, gaps, since, all_rows, backfiller_state, stale, ends,
                 late, faults>>

ConnectFails ==
  /\ task = "sleep" /\ Fault
  /\ UNCHANGED <<ticks, task, conn, thread, cycle, backfiller_state, stale, history>>

Sum(f, g) == [k \in DOMAIN f |-> f[k] + g[k]]

\* The thread is done; the task adds its tally, or logs its error.
EndCycle ==
  /\ task = "await" /\ thread \in {"returned", "raised"}
  /\ backfiller_state' = IF thread = "returned" THEN Sum(backfiller_state, tally)
                                                ELSE backfiller_state
  /\ task' = "sleep" /\ conn' = "closed" /\ thread' = "idle"
  /\ gaps' = <<>> /\ all_rows' = {}
  /\ UNCHANGED <<ticks, since, tally, stale, history, faults>>

\* Mutant: the connection is left to the thread.
CancelOpen ==
  /\ task # "ended" /\ task' = "ended"
  /\ UNCHANGED <<ticks, conn, thread, cycle, backfiller_state, stale, history, faults>>

\* The task is cancelled and closes the connection; its thread goes on.
Cancel ==
  /\ task # "ended"
  /\ task' = "ended" /\ conn' = "closed"
  /\ UNCHANGED <<ticks, thread, cycle, backfiller_state, stale, history, faults>>

\* The thread of a cancelled task ends on its own.
EndThread ==
  /\ task = "ended" /\ thread \in {"returned", "raised"}
  /\ thread' = "idle" /\ gaps' = <<>> /\ all_rows' = {}
  /\ UNCHANGED <<ticks, task, conn, since, tally, backfiller_state, stale,
                 history, faults>>

\* The process exits once its thread has ended, and is started again.
Restart ==
  /\ task = "ended" /\ thread = "idle" /\ cycles < MaxCycles
  /\ task' = "sleep" /\ backfiller_state' = Zero /\ late' = 0
  /\ UNCHANGED <<ticks, conn, thread, cycle, stale, whole, found, ends, cycles, faults>>

\* The process dies at any point, and a commit under way is executed or not.
Crash ==
  /\ Fault
  /\ \/ UNCHANGED <<rows, stale>>
     \/ thread = "commit" /\ rows' = Inserted("backfiller", Batch)
                          /\ stale' = stale \cup Batch
  /\ task' = "sleep" /\ conn' = "closed" /\ thread' = "idle"
  /\ gaps' = <<>> /\ all_rows' = {} /\ backfiller_state' = Zero /\ late' = 0
  /\ UNCHANGED <<now, since, tally, whole, found, ends, cycles>>

CycleStep ==
  \/ DetectGaps \/ NextGap \/ FetchPage \/ Retry \/ InsertBatch \/ Commit
  \/ RefreshAggregates \/ Return \/ EndThread \/ EndCycle \/ StartCycle
  \/ StatementFails

BackfillerNext == CycleStep \/ ApiError \/ RequestFails \/ RefreshFails
                  \/ ConnectFails \/ Cancel \/ Restart \/ Crash
=============================================================================
