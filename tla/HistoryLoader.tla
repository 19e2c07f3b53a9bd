---------------------------- MODULE HistoryLoader ---------------------------
(***************************************************************************)
(* module2_timescale/fetch_real_data.py: processes that append Kraken's    *)
(* history to raw_ticks, from the latest row on.  The analytics service    *)
(* starts one when it finds the table nearly empty, and one for each       *)
(* request to /analytics/refresh; nothing keeps two from running at once.  *)
(***************************************************************************)
EXTENDS RawTicks

CONSTANTS
  Loaders,       \* the processes
  DaysBack,      \* DAYS_BACK
  LoadSize,      \* BATCH_SIZE: 5000 in the code
  MaxLoadFaults  \* bound: processes that fail

ASSUME LoadAssumption ==
  IsFiniteSet(Loaders) /\ LoadSize \in Nat \ {0} /\ {DaysBack, MaxLoadFaults} \subseteq Nat

VARIABLES
  loader,       \* where each process is
  until,        \* the time at which it started
  start,        \* the time from which it loads
  cursor,       \* the cursor of its next request
  batch,        \* what it has fetched and not inserted
  load_faults   \* history: the processes that failed

ld == <<loader, until, start, cursor, batch, load_faults>>

LoaderSteps == {"unused", "none", "latest", "fetch", "insert", "last", "refresh",
                "complete", "failed"}
Times == -DaysBack - 1 .. MaxTime

LoaderTypeOK ==
  /\ loader \in [Loaders -> LoaderSteps]
  /\ until \in [Loaders -> 0 .. MaxTime]
  /\ start \in [Loaders -> Times] /\ cursor \in [Loaders -> Times]
  /\ batch \in [Loaders -> SUBSET Kraken]
  /\ load_faults \in 0 .. MaxLoadFaults

LoaderInit ==
  /\ loader \in [Loaders -> {"unused", "none"}]
  /\ until = [l \in Loaders |-> 0] /\ start = until /\ cursor = until
  /\ batch = [l \in Loaders |-> {}]
  /\ load_faults = 0

Goto(l, step) == loader' = [loader EXCEPT ![l] = step]

StartLoader(l) ==
  /\ loader[l] = "none"
  /\ Goto(l, "latest") /\ until' = [until EXCEPT ![l] = now]
  /\ UNCHANGED <<ticks, start, cursor, batch, load_faults>>

\* Mutant: what comes after the latest row is taken to be in it.
StartAfter(l) ==
  LET oldest == until[l] - DaysBack
  IN  IF Stored # {} /\ Max(Stored) > oldest THEN Max(Stored) + 1 ELSE oldest

\* MAX(ts) of the symbol, whatever source the row is of, if it is recent.
StartAt(l) ==
  LET oldest == until[l] - DaysBack
  IN  IF Stored # {} /\ Max(Stored) > oldest THEN Max(Stored) ELSE oldest

GetLatest(l) ==
  /\ loader[l] = "latest"
  /\ start' = [start EXCEPT ![l] = StartAt(l)]
  /\ \E c \in CursorsAt(StartAt(l)) : cursor' = [cursor EXCEPT ![l] = c]
  /\ Goto(l, "fetch")
  /\ UNCHANGED <<ticks, until, batch, load_faults>>

Store(l, T) == rows' = Inserted("loader", T) /\ UNCHANGED now

\* After a page: another one, once there is no full batch left to insert.
AfterPage(l, left) ==
  Goto(l, IF Cardinality(left) >= LoadSize THEN "insert" ELSE "fetch")

\* A page; trades after the start of the process are left out.  The pages end
\* with one that is empty, or that reaches the start of the process.
LoadPage(l) ==
  /\ loader[l] = "fetch"
  /\ LET page == Page(cursor[l])
         last == NextCursor(cursor[l])
         kept == batch[l] \cup {t \in page : t <= until[l]}
     IN /\ batch' = [batch EXCEPT ![l] = kept]
        /\ IF page = {} \/ last >= until[l]
           THEN Goto(l, "last") /\ cursor' = [cursor EXCEPT ![l] = 0]
           ELSE AfterPage(l, kept) /\ cursor' = [cursor EXCEPT ![l] = last]
  /\ UNCHANGED <<ticks, until, start, load_faults>>

\* Every LoadSize rows are copied and committed.
InsertFull(l) ==
  /\ loader[l] \in {"insert", "last"} /\ Cardinality(batch[l]) >= LoadSize
  /\ LET full == Oldest(batch[l], LoadSize)
     IN /\ Store(l, full)
        /\ batch' = [batch EXCEPT ![l] = @ \ full]
        /\ IF loader[l] = "last" THEN UNCHANGED loader ELSE AfterPage(l, batch[l] \ full)
  /\ UNCHANGED <<until, start, cursor, load_faults>>

\* What is left when the pages end, if anything.
InsertRest(l) ==
  /\ loader[l] = "last" /\ Cardinality(batch[l]) < LoadSize
  /\ Store(l, batch[l])
  /\ batch' = [batch EXCEPT ![l] = {}]
  /\ Goto(l, "refresh")
  /\ UNCHANGED <<until, start, cursor, load_faults>>

RefreshCas(l) ==
  /\ loader[l] = "refresh"
  /\ Goto(l, "complete")
  /\ UNCHANGED <<ticks, until, start, cursor, batch, load_faults>>

\* A database error ends the process, and so may anything else; the batch that
\* was being copied is committed or not.  Requests that fail are repeated.
LoaderFails(l) ==
  /\ loader[l] \in {"latest", "fetch", "insert", "last", "refresh"} /\ load_faults < MaxLoadFaults
  /\ \/ UNCHANGED rows
     \/ loader[l] \in {"insert", "last"} /\ rows' = Inserted("loader", Oldest(batch[l], LoadSize))
  /\ Goto(l, "failed") /\ batch' = [batch EXCEPT ![l] = {}]
  /\ cursor' = [cursor EXCEPT ![l] = 0]
  /\ load_faults' = load_faults + 1
  /\ UNCHANGED <<now, until, start>>

LoaderStep(l) ==
  \/ GetLatest(l) \/ LoadPage(l) \/ InsertFull(l)
  \/ InsertRest(l) \/ RefreshCas(l)

LoaderNext == \E l \in Loaders : StartLoader(l) \/ LoaderStep(l) \/ LoaderFails(l)
=============================================================================
