--------------------------- MODULE QuantumService ---------------------------
(***************************************************************************)
(* module4_quantum: quantum_loop, the background task of the quantum       *)
(* engine, and the requests of quantum_api.py that share its event loop.   *)
(*                                                                         *)
(* The loop fetches the rates of the graph service, looks for arbitrage    *)
(* with Bellman-Ford, then with Grover's search in a thread, and inserts   *)
(* what either found.  Each insert commits on its own.  From the first     *)
(* insert to the last the event loop does nothing else.                    *)
(*                                                                         *)
(* The table is not the loop's alone: the detector of the graph service,   *)
(* another process, inserts CLASSICAL rows too, at any time.               *)
(***************************************************************************)
EXTENDS Grover

CONSTANTS
  Symbols,     \* the assets, in the order of the graph service's answer
  Matrices,    \* the rates the graph service may have
  Synthetic,   \* those that a request to run the search may draw
  Requests,    \* the requests to run the search
  MaxRounds,   \* bound: the rounds of the loop that find rates
  MaxFailures, \* bound: calls and statements that fail, and crashes
  MaxChanges,  \* bound: changes of the graph service's rates
  MaxDetected  \* bound: the rows of the graph service's detector

\* A rate of a symbol to itself is skipped.  <<>> stands for the predecessor
\* that a node does not have.
ASSUME MatrixAssumption ==
  /\ Synthetic \subseteq Matrices /\ Symbols \in Seq(ToSet(Symbols)) /\ <<>> \notin ToSet(Symbols)
  /\ \A r \in Matrices : \A e \in DOMAIN r :
       /\ e \in ToSet(Symbols) \X ToSet(Symbols) /\ e[1] # e[2]
       /\ r[e] \in Int
  /\ {MaxRounds, MaxFailures, MaxChanges, MaxDetected} \subseteq Nat

Methods == {"GROVER", "CLASSICAL", "BOTH"}
None == [path |-> <<>>, profit_pct |-> 0]

VARIABLES
  matrix,     \* the rates of the graph service
  changes,    \* their changes so far
  loop,       \* where quantum_loop is
  rates,      \* the rates of this round
  classical,  \* the path and profit that Bellman-Ford found for them
  grover_result, \* what the search found, once its thread has ended
  thread,     \* whether the thread of the search runs
  signals,    \* the table arbitrage_signals, oldest first; a row's round is a history
  fetched,    \* history: the rates of each round
  raised,     \* history: the rounds in which Bellman-Ford raised
  failed,     \* history: the rounds cut short after it
  failures,   \* history: the failures so far
  request,    \* where each request to run the search is
  result      \* its response, as far as it is known

begun == <<fetched, raised>>
loopvars == <<loop, rates, classical, grover_result, thread, signals, begun, failed, failures>>
api == <<request, result>>
world == <<matrix, changes>>
quantumvars == <<world, loopvars, api>>

NodeList(r) == Only(NodesOf(r), Symbols)

\* The order of the matrix: source by source.
RateRows(r) ==
  LET n == Len(Symbols)
      all == [i \in 1 .. n * n |-> <<Symbols[((i - 1) \div n) + 1], Symbols[((i - 1) % n) + 1]>>]
  IN Only(DOMAIN r, all)

\* Bellman-Ford's path and its profit, for the rates given.
Classical ==
  [r \in Matrices |->
     LET path == BellmanFordArbitrage(r, RateRows(r), NodeList(r))
     IN IF Len(path) >= 3 THEN [path |-> path, profit_pct |-> CycleProfit(path, r)] ELSE None]

\* What the search may return.
Search == [r \in Matrices |-> RunGrover(r, NodeList(r))]

SomeRates == CHOOSE r \in Matrices : TRUE

\* What is known of a request that was not answered.
Unanswered == [rates |-> SomeRates, grover |-> NoPath(0), classical |-> None]

QuantumInit ==
  /\ matrix \in Matrices /\ changes = 0
  /\ loop = "fetch" /\ rates = SomeRates /\ classical = None
  /\ grover_result = NoPath(0) /\ thread = FALSE
  /\ signals = <<>> /\ fetched = <<>> /\ raised = {} /\ failed = {} /\ failures = 0
  /\ request = [q \in Requests |-> "none"]
  /\ result = [q \in Requests |-> Unanswered]

\* The event loop is busy with the inserts.
Blocked == loop \in {"classical", "quantum"}

Round == Len(fetched)

\* The round under way is cut short.
CutShort ==
  failed' = failed \cup (IF loop \in {"grover", "classical", "quantum"} THEN {Round} ELSE {})

Failure == failures < MaxFailures /\ failures' = failures + 1 /\ CutShort

-----------------------------------------------------------------------------
(* quantum_loop.                                                           *)

\* The rates arrive, and Bellman-Ford runs at once, or raises.
FetchRates ==
  /\ loop = "fetch" /\ Round < MaxRounds
  /\ IF Len(NodeList(matrix)) < 3
     THEN loop' = "sleep" /\ UNCHANGED <<rates, classical, thread, begun, failures>>
     ELSE /\ rates' = matrix /\ fetched' = Append(fetched, matrix)
          /\ loop' = "grover" /\ thread' = TRUE
          /\ \/ classical' = Classical[matrix] /\ UNCHANGED <<raised, failures>>
             \/ /\ classical' = None /\ raised' = raised \cup {Round + 1}
                /\ failures < MaxFailures /\ failures' = failures + 1
  /\ UNCHANGED <<world, grover_result, signals, failed, api>>

FetchFails ==
  /\ loop = "fetch" /\ loop' = "sleep" /\ Failure
  /\ UNCHANGED <<world, rates, classical, grover_result, thread, signals, begun, api>>

\* Mutant: the search reads the rates again.
GroverDoneCurrent ==
  /\ loop = "grover" /\ thread
  /\ grover_result' \in Search[matrix]
  /\ thread' = FALSE /\ loop' = "classical"
  /\ UNCHANGED <<world, rates, classical, signals, begun, failed, failures, api>>

\* The thread returns, and the loop goes on to the inserts.
GroverDone ==
  /\ loop = "grover" /\ thread
  /\ grover_result' \in Search[rates]
  /\ thread' = FALSE /\ loop' = "classical"
  /\ UNCHANGED <<world, rates, classical, signals, begun, failed, failures, api>>

\* The search raises: there is no result of it, and the round goes on.
GroverFails ==
  /\ loop = "grover" /\ thread /\ failures < MaxFailures /\ failures' = failures + 1
  /\ thread' = FALSE /\ grover_result' = NoPath(0) /\ loop' = "classical"
  /\ UNCHANGED <<world, rates, classical, signals, begun, failed, api>>

Signal(method, path, profit_pct) ==
  [method |-> method, path |-> path, profit_pct |-> profit_pct, round |-> Round]

Insert(method, found) ==
  signals' = Append(signals, Signal(method, found.path, found.profit_pct))

\* Mutant: round trips of two assets are left out.
WorthLong(found) == Len(found.path) > 3 /\ found.profit_pct > 0

Worth(found) == Len(found.path) >= 3 /\ found.profit_pct > 0

Sleep == loop' = "sleep" /\ grover_result' = NoPath(0) /\ UNCHANGED classical

InsertClassical ==
  /\ loop = "classical" /\ loop' = "quantum"
  /\ IF Worth(classical) THEN Insert("CLASSICAL", classical) ELSE UNCHANGED signals
  /\ UNCHANGED <<world, rates, classical, grover_result, thread, begun, failed, failures, api>>

InsertQuantum ==
  /\ loop = "quantum" /\ Sleep
  /\ IF Worth(grover_result) THEN Insert("QUANTUM", grover_result) ELSE UNCHANGED signals
  /\ UNCHANGED <<world, rates, thread, begun, failed, failures, api>>

\* Mutant: each insert has a handler of its own.
InsertSkipped ==
  /\ Blocked /\ Failure
  /\ \/ UNCHANGED signals
     \/ loop = "classical" /\ Worth(classical) /\ Insert("CLASSICAL", classical)
     \/ loop = "quantum" /\ Worth(grover_result) /\ Insert("QUANTUM", grover_result)
  /\ IF loop = "quantum" THEN Sleep ELSE loop' = "quantum" /\ UNCHANGED <<classical, grover_result>>
  /\ UNCHANGED <<world, rates, thread, begun, api>>

\* No connection, or an insert fails; it may have been executed all the same.
InsertFails ==
  /\ Blocked /\ Sleep /\ Failure
  /\ \/ UNCHANGED signals
     \/ loop = "classical" /\ Worth(classical) /\ Insert("CLASSICAL", classical)
     \/ loop = "quantum" /\ Worth(grover_result) /\ Insert("QUANTUM", grover_result)
  /\ UNCHANGED <<world, rates, thread, begun, api>>

WakeLoop ==
  /\ loop = "sleep" /\ loop' = "fetch"
  /\ UNCHANGED <<world, rates, classical, grover_result, thread, signals, begun,
                 failed, failures, api>>

\* The service stops: the task is cancelled where it awaits something.  The
\* thread of the search is not, but nobody takes its result.
Cancel ==
  /\ loop \in {"fetch", "grover", "sleep"}
  /\ loop' = "cancelled" /\ classical' = None
  /\ CutShort
  /\ UNCHANGED <<world, rates, grover_result, thread, signals, begun, failures, api>>

ThreadEnds ==
  /\ loop = "cancelled" /\ thread /\ thread' = FALSE
  /\ UNCHANGED <<world, loop, rates, classical, grover_result, signals, begun,
                 failed, failures, api>>

Answered == {"grover_done", "done"}

\* The requests under way end with the process.
Abandon ==
  /\ request' = [q \in Requests |-> IF request[q] \in Answered THEN request[q] ELSE "none"]
  /\ result' = [q \in Requests |-> IF request[q] \in Answered THEN result[q] ELSE Unanswered]

\* A new process, once the old one has ended or died.
Restart ==
  /\ loop = "cancelled" /\ ~thread /\ loop' = "fetch"
  /\ Abandon
  /\ UNCHANGED <<world, rates, classical, grover_result, thread, signals, begun,
                 failed, failures>>

\* The process dies; an insert under way is executed or not.
Crash ==
  /\ Failure /\ loop' = "fetch" /\ thread' = FALSE
  /\ classical' = None /\ grover_result' = NoPath(0) /\ Abandon
  /\ \/ UNCHANGED signals
     \/ loop = "classical" /\ Worth(classical) /\ Insert("CLASSICAL", classical)
     \/ loop = "quantum" /\ Worth(grover_result) /\ Insert("QUANTUM", grover_result)
  /\ UNCHANGED <<world, rates, begun>>

-----------------------------------------------------------------------------
(* quantum_api.py.                                                         *)

\* The request draws its rates; with the search to run it awaits a thread,
\* else Bellman-Ford runs at once.
PostRunGrover(q) ==
  /\ request[q] = "none" /\ ~Blocked
  /\ \E r \in Synthetic, method \in Methods :
       IF method = "CLASSICAL"
       THEN /\ request' = [request EXCEPT ![q] = "done"]
            /\ result' = [result EXCEPT ![q] =
                            [rates |-> r, grover |-> NoPath(0), classical |-> Classical[r]]]
       ELSE /\ request' = [request EXCEPT ![q] = method]
            /\ result' = [result EXCEPT ![q] =
                            [rates |-> r, grover |-> NoPath(0), classical |-> None]]
  /\ UNCHANGED <<world, loopvars>>

\* The thread returns; for both methods Bellman-Ford runs on the same rates.
RespondRunGrover(q) ==
  /\ request[q] \in {"GROVER", "BOTH"} /\ ~Blocked
  /\ LET r == result[q].rates
     IN \E found \in Search[r] :
          result' = [result EXCEPT ![q] =
                       [rates |-> r, grover |-> found,
                        classical |-> IF request[q] = "BOTH" THEN Classical[r] ELSE None]]
  /\ request' = [request EXCEPT ![q] = IF @ = "BOTH" THEN "done" ELSE "grover_done"]
  /\ UNCHANGED <<world, loopvars>>

\* GET /quantum/signals: the newest rows of a method, newest first, whoever
\* has inserted them.
GetSignals(limit, method) ==
  LET chosen == {s \in ToSet(signals) : method = "ALL" \/ s.method = method}
      newest == Reverse(Only(chosen, signals))
  IN SubSeq(newest, 1, IF limit < Len(newest) THEN limit ELSE Len(newest))

\* GET /health.
Health == IF loop = "cancelled" THEN "stopped" ELSE "running"

-----------------------------------------------------------------------------

(* The graph service, another process.                                     *)

\* It sets other rates.
Change ==
  /\ changes < MaxChanges /\ changes' = changes + 1
  /\ matrix' \in Matrices \ {matrix}
  /\ UNCHANGED <<loopvars, api>>

\* A row of the loop; the detector's rows belong to no round.
Own(s) == s.round > 0

\* Its detector has found a cycle that gains, and inserts it.
DetectorInserts ==
  /\ Cardinality({i \in DOMAIN signals : ~Own(signals[i])}) < MaxDetected
  /\ LET found == Classical[matrix]
     IN /\ found.profit_pct > 0
        /\ signals' = Append(signals, [method |-> "CLASSICAL", path |-> found.path,
                                       profit_pct |-> found.profit_pct, round |-> 0])
  /\ UNCHANGED <<world, loop, rates, classical, grover_result, thread, begun, failed, failures, api>>

LoopStep ==
  \/ FetchRates \/ GroverDone \/ InsertClassical \/ InsertQuantum \/ WakeLoop
  \/ ThreadEnds \/ Restart

ApiStep == \E q \in Requests : PostRunGrover(q) \/ RespondRunGrover(q)

QuantumNext == LoopStep \/ FetchFails \/ GroverFails \/ InsertFails \/ Cancel \/ Crash
        \/ ApiStep \/ Change \/ DetectorInserts

QuantumSpec == QuantumInit /\ [][QuantumNext]_quantumvars

\* The loop goes on: the fetch has a timeout, the thread and the statements
\* end in one way or another.
LeaveFetch == loop = "fetch" /\ Round < MaxRounds /\ loop' \in {"grover", "sleep"}
LeaveGrover == loop = "grover" /\ loop' = "classical"

FairSpec ==
  /\ QuantumSpec
  /\ WF_loop(LeaveFetch) /\ WF_loop(LeaveGrover)
  /\ WF_quantumvars(InsertClassical \/ InsertQuantum) /\ WF_quantumvars(WakeLoop)

-----------------------------------------------------------------------------

\* Whatever the search is led to by the circuit, and however the rates change
\* while it runs, a signal that the loop stores is a cycle that gained at the
\* rates its own round had fetched, and its profit is the one it had there.
SignalsWereProfitable ==
  \A i \in DOMAIN signals :
    LET s == signals[i] IN
      Own(s) => /\ IsProfitable(s.path, fetched[s.round])
                /\ s.profit_pct = CycleProfit(s.path, fetched[s.round])

\* A round of the loop stores one signal of each method at most, and never the
\* quantum one alone: whichever insert fails and whenever the process dies, a
\* quantum row has the classical row of its round before it, unless Bellman-Ford
\* raised there.  On a page of GET /quantum/signals that row follows, with
\* nothing but rows of the graph service's detector between them, or the page is
\* cut off among those.  (A classical row alone is what a failure may leave.)
RoundsAreWhole ==
  /\ \A i, j \in DOMAIN signals :
       /\ Own(signals[i])
       /\ signals[i].round = signals[j].round /\ signals[i].method = signals[j].method
       => i = j
  /\ \A limit \in 1 .. Len(signals) :
       LET page == GetSignals(limit, "ALL") IN
         \A i \in 1 .. limit :
           page[i].method = "QUANTUM" /\ page[i].round \notin raised =>
             \/ limit < Len(signals) /\ \A j \in i + 1 .. limit : ~Own(page[j])
             \/ \E j \in i + 1 .. limit :
                  /\ page[j].method = "CLASSICAL" /\ page[j].round = page[i].round
                  /\ \A k \in i + 1 .. j - 1 : ~Own(page[k])

\* In a round of the loop as in a response for both methods, the search counts
\* profitable cycles only where Bellman-Ford finds one, and a profit it reports
\* is that of its path.
Agree(found, bf, r) ==
  /\ found.n_profitable > 0 => bf.profit_pct > 0
  /\ found.profit_pct > 0 => IsProfitable(found.path, r)

AlgorithmsAgree ==
  /\ loop = "classical" /\ Round \notin raised => Agree(grover_result, classical, rates)
  /\ \A q \in Requests :
       request[q] = "done" => Agree(result[q].grover, result[q].classical, result[q].rates)

\* The number of repetitions makes every state the oracle has marked likelier
\* than every other one, at the rates of any round.
MarkedStandOut ==
  loop = "grover" =>
    LET cycles == EnumerateCycles(NodeList(rates))
    IN ProfitableIdxs(cycles, rates) # {} =>
         Likeliest(Circuit(cycles, rates)) = Circuit(cycles, rates).marked

\* Arbitrage is signalled: where Bellman-Ford finds a cycle that gains, the
\* round stores a signal of its own in the end, even if the search raises,
\* unless it is cut short (cancelled, killed, or an insert fails).
ArbitrageIsSignalled ==
  []<>(\/ Round \in failed \/ classical = None
       \/ \E i \in DOMAIN signals : signals[i].round = Round)

\* What build_oracle is documented to do: a phase of -1 for the states whose
\* index is one of the profitable cycles'.
OracleFlipsProfitable ==
  loop = "grover" =>
    LET cycles == EnumerateCycles(NodeList(rates))
    IN ProfitableIdxs(cycles, rates) # {} =>
         FlippedIndices(cycles, rates) = ProfitableIdxs(cycles, rates)
=============================================================================
