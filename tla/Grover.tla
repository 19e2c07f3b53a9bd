------------------------------- MODULE Grover -------------------------------
(***************************************************************************)
(* module4_quantum/run_grover.py and its circuits: Grover's search for a   *)
(* profitable cycle of three assets.                                       *)
(*                                                                         *)
(* The circuit has n_qubits qubits; a basis state is the number that       *)
(* Qiskit's bit string writes, the ancilla its first bit.  The amplitudes  *)
(* are real, and every step of the search multiplies them by the same      *)
(* power of two here, so that they are integers.  The shots are taken to   *)
(* be enough to tell a likelier state from a less likely one.              *)
(***************************************************************************)
EXTENDS BellmanFord

\* itertools.permutations: the triples of positions in lexicographic order.
EnumerateCycles(nodes) ==
  LET n == Len(nodes)
      Rank(p) == (p[1] * n + p[2]) * n + p[3]
      triples == {p \in [1 .. 3 -> 1 .. n] : IsInjective(p)}
  IN [i \in 1 .. Cardinality(triples) |->
        LET p == CHOOSE p \in triples : Cardinality({q \in triples : Rank(q) <= Rank(p)}) = i
        IN <<nodes[p[1]], nodes[p[2]], nodes[p[3]]>>]

Closed(cycle) == Append(cycle, cycle[1])

\* Mutant: the edge that closes the cycle is forgotten.
IsProfitableOpen(cycle, rates) == IsProfitable(cycle, rates)

IsProfitableCycle(cycle, rates) == IsProfitable(Closed(cycle), rates)

\* The indices of the profitable cycles, from 0.
ProfitableIdxs(cycles, rates) ==
  {i \in 0 .. Len(cycles) - 1 : IsProfitableCycle(cycles[i + 1], rates)}

Pow2(n) == LET power[i \in 0 .. n] == IF i = 0 THEN 1 ELSE 2 * power[i - 1] IN power[n]

\* max(1, ceil(log2(n))): bits enough to count n cycles.
NData(n) == CHOOSE d \in 1 .. n : Pow2(d) >= n /\ \A c \in 1 .. d - 1 : Pow2(c) < n

\* Mutant: the number of solutions is left out.
NIterOfOne(space, marked) ==
  CHOOSE k \in 1 .. space :
    /\ k = 1 \/ 160000 * k * k <= 98696 * space
    /\ 160000 * (k + 1) * (k + 1) > 98696 * space

\* max(1, floor(pi/4 * sqrt(space / marked))), with pi^2 = 9.8696.
NIter(space, marked) ==
  CHOOSE k \in 1 .. space :
    /\ k = 1 \/ 160000 * k * k * marked <= 98696 * space
    /\ 160000 * (k + 1) * (k + 1) * marked > 98696 * space

\* The bits of a cycle's index are handed to the qubits most significant
\* first, but qubit i stands for bit i of the basis state.
Reversed(i, n) ==
  LET Bit(b) == (i \div Pow2(b)) % 2
      from[b \in 0 .. n] == IF b = 0 THEN 0 ELSE from[b - 1] + Bit(b - 1) * Pow2(n - b)
  IN from[n]

\* The states whose phase the oracle flips.  Its controls are the data qubits,
\* its target the ancilla, a qubit of the superposition like the others: the
\* phase is that of the states where the ancilla is one.
BuildOracle(idxs, n_data) == {Pow2(n_data) + Reversed(i, n_data) : i \in idxs}

\* The uniform superposition.  All marked states keep one amplitude, and all
\* other ones another.
Uniform == [marked |-> 1, other |-> 1]

\* One repetition, for m marked states among n: the phases of the marked
\* states are flipped, and every amplitude is reflected about the mean (and
\* multiplied by n / 2).
Repetition(amp, m, n) ==
  LET total == (n - m) * amp.other - m * amp.marked
  IN [marked |-> total + (n \div 2) * amp.marked, other |-> total - (n \div 2) * amp.other]

\* The amplitudes after k repetitions.
Amplitudes(m, n, k) ==
  LET after[i \in 0 .. k] == IF i = 0 THEN Uniform ELSE Repetition(after[i - 1], m, n)
  IN after[k]

Square(x) == x * x

\* The circuit for the cycles and rates given: its basis states, those the
\* oracle marks, and the amplitudes that are measured.
Circuit(cycles, rates) ==
  LET idxs   == ProfitableIdxs(cycles, rates)
      n_data == NData(Len(cycles))
      n_iter == NIter(Pow2(n_data), Cardinality(idxs))
  IN [states |-> 0 .. Pow2(n_data + 1) - 1, marked |-> BuildOracle(idxs, n_data),
      amp |-> Amplitudes(Cardinality(idxs), Pow2(n_data + 1), n_iter)]

\* The states that may be measured most often.
Likeliest(circuit) ==
  LET marked == Square(circuit.amp.marked)
      other  == Square(circuit.amp.other)
  IN IF marked > other THEN circuit.marked
     ELSE IF marked < other THEN circuit.states \ circuit.marked ELSE circuit.states

\* The ancilla's bit is dropped, and the rest taken modulo the cycles.
Decode(s, n_data, n_cycles) == (s % Pow2(n_data)) % n_cycles

\* What run_grover may return: no path, or the cycle of a likeliest state, with
\* its profit, whether or not it is profitable.  A missing rate makes it -100.
ProfitPct(cycle, rates) ==
  IF \A i \in 1 .. 3 : <<Closed(cycle)[i], Closed(cycle)[i + 1]>> \in DOMAIN rates
  THEN CycleProfit(Closed(cycle), rates)
  ELSE -100

NoPath(n) == [path |-> <<>>, profit_pct |-> 0, n_profitable |-> n]

RunGrover(rates, nodes) ==
  LET cycles == EnumerateCycles(nodes)
      idxs   == ProfitableIdxs(cycles, rates)
  IN IF Len(nodes) < 3 \/ idxs = {} THEN {NoPath(0)}
     ELSE {LET cycle == cycles[Decode(s, NData(Len(cycles)), Len(cycles)) + 1]
           IN [path |-> Closed(cycle), profit_pct |-> ProfitPct(cycle, rates),
               n_profitable |-> Cardinality(idxs)] :
             s \in Likeliest(Circuit(cycles, rates))}

-----------------------------------------------------------------------------
(* What the circuit is for, in terms of the states alone.                  *)

\* The data states whose phase is flipped when the ancilla is one.
FlippedIndices(cycles, rates) ==
  LET n_data == NData(Len(cycles))
  IN {s - Pow2(n_data) : s \in Circuit(cycles, rates).marked}

=============================================================================
