------------------------- MODULE BookRegistryProofs -------------------------
(***************************************************************************)
(* Proofs about BookRegistry, for any number of threads, symbols and       *)
(* stripes and every assignment of symbols to stripes.                     *)
(***************************************************************************)
EXTENDS BookRegistry, TLAPS

\* Inside get_book or its engine a thread holds its symbol's stripe, and inside
\* the health check's loop the stripe it visits.
LockHeld ==
  \A t \in Threads :
    /\ pc[t] \in {"find", "use"} \cup Maps => holder[StripeOf[sym[t]]] = t
    /\ pc[t] = "iterate" => holder[stripe[t]] = t

\* The maps that were filled before the one a thread inserts into.
Filled(m) ==
  {n \in Maps : \/ n = "bid_levels" /\ m # "bid_levels"
                \/ n = "ask_levels" /\ m \in {"loggers", "books"}
                \/ n = "loggers" /\ m = "books"}

\* A thread that makes a book makes the first one of its symbol.
FirstMaker ==
  \A t \in Threads : pc[t] \in Maps =>
    /\ sym[t] \notin maps["books"]
    /\ \A n \in Filled(pc[t]) : sym[t] \in maps[n]

\* An engine is constructed when its symbol enters books, and only then.
BuiltWhenEntered == \A y \in Symbols : built[y] = IF y \in maps["books"] THEN 1 ELSE 0

IInv == TypeOK /\ LockHeld /\ FirstMaker /\ BuiltWhenEntered /\ NoHalfMadeBook

USE DEF Maps, Places, Stripes

\* A thread that holds the lock of a symbol's stripe.
LEMMA OneInBook ==
  ASSUME LockHeld, NEW t \in Threads, NEW u \in Threads,
         pc[t] \in {"find", "use"} \cup Maps, pc[u] \in {"find", "use"} \cup Maps,
         sym[t] = sym[u]
  PROVE  t = u
  BY DEF LockHeld

LEMMA LockSafe ==
  ASSUME IInv, NEW t \in Threads, NEW y \in Symbols, Lock(t, y)
  PROVE  IInv'
<1> USE DEF IInv, Lock, At, Goto
<1>1. TypeOK'
  BY StripeAssumption DEF TypeOK
<1>2. LockHeld'
  BY NobodyAssumption, StripeAssumption DEF TypeOK, LockHeld
<1>3. FirstMaker'
  BY DEF TypeOK, FirstMaker
<1>4. BuiltWhenEntered' /\ NoHalfMadeBook'
  BY DEF BuiltWhenEntered, NoHalfMadeBook
<1>5. QED
  BY <1>1, <1>2, <1>3, <1>4

LEMMA FindSafe ==
  ASSUME IInv, NEW t \in Threads, Find(t)
  PROVE  IInv'
<1> USE DEF IInv, Find, At, Goto
<1>1. TypeOK'
  BY DEF TypeOK
<1>2. LockHeld'
  BY DEF TypeOK, LockHeld
<1>3. FirstMaker'
  BY DEF TypeOK, FirstMaker, Filled
<1>4. BuiltWhenEntered' /\ NoHalfMadeBook'
  BY DEF BuiltWhenEntered, NoHalfMadeBook
<1>5. QED
  BY <1>1, <1>2, <1>3, <1>4

\* The four insertions happen in order under one lock, so the engine is the
\* first of its symbol and its levels and logger are there.
LEMMA InsertSafe ==
  ASSUME IInv, NEW t \in Threads, Insert(t)
  PROVE  IInv'
<1> USE DEF IInv
<1>1. pc[t] \in Maps /\ sym[t] \in Symbols /\ pc'[t] = After[pc[t]]
      /\ After[pc[t]] \in Maps \cup {"use"}
      /\ \A u \in Threads \ {t} : pc'[u] = pc[u]
  BY DEF Insert, At, Goto, TypeOK, After
<1>2. maps' \in [Maps -> SUBSET Symbols] /\ maps'[pc[t]] = maps[pc[t]] \cup {sym[t]}
      /\ \A m \in Maps \ {pc[t]} : maps'[m] = maps[m]
  BY <1>1 DEF Insert, TypeOK
<1>3. TypeOK'
  BY <1>1, <1>2 DEF Insert, Goto, TypeOK
<1>4. LockHeld'
  BY <1>1 DEF Insert, TypeOK, LockHeld
<1>5. FirstMaker'
  <2>1. \A n \in Filled(After[pc[t]]) : pc'[t] \in Maps => n = pc[t] \/ n \in Filled(pc[t])
    BY <1>1 DEF Filled, After
  <2>2. pc'[t] \in Maps => pc[t] # "books"
    BY <1>1 DEF After
  <2>3. ASSUME NEW u \in Threads \ {t}, pc[u] \in Maps PROVE sym[u] # sym[t]
    BY <1>1, <2>3, OneInBook
  <2>4. ASSUME NEW u \in Threads, pc'[u] \in Maps
        PROVE  sym[u] \notin maps'["books"] /\ \A n \in Filled(pc'[u]) : sym[u] \in maps'[n]
    <3>1. CASE u = t
      BY <1>1, <1>2, <2>1, <2>2, <2>4, <3>1 DEF FirstMaker, Filled
    <3>2. CASE u # t
      BY <1>1, <1>2, <2>3, <2>4, <3>2 DEF FirstMaker, Filled
    <3>3. QED
      BY <3>1, <3>2
  <2>5. QED
    BY <2>4 DEF FirstMaker, Insert
<1>6. BuiltWhenEntered'
  BY <1>1, <1>2 DEF Insert, TypeOK, FirstMaker, BuiltWhenEntered
<1>7. NoHalfMadeBook'
  <2>1. CASE pc[t] = "books"
    <3>1. \A m \in Maps : sym[t] \in maps'[m]
      BY <1>2, <2>1 DEF FirstMaker, Filled
    <3>2. built'[sym[t]] > 0 /\ \A y \in Symbols \ {sym[t]} : built'[y] = built[y]
      BY <1>1, <2>1 DEF Insert, TypeOK
    <3>3. QED
      BY <1>2, <2>1, <3>1, <3>2 DEF NoHalfMadeBook, TypeOK
  <2>2. CASE pc[t] # "books"
    BY <1>1, <1>2, <2>2 DEF Insert, NoHalfMadeBook
  <2>3. QED
    BY <2>1, <2>2
<1>8. QED
  BY <1>3, <1>4, <1>5, <1>6, <1>7

LEMMA UnlockSafe ==
  ASSUME IInv, NEW t \in Threads, Unlock(t)
  PROVE  IInv'
<1> USE DEF IInv, Unlock, At, Goto
<1>1. TypeOK'
  BY StripeAssumption DEF TypeOK
<1>2. LockHeld'
  BY DEF TypeOK, LockHeld
<1>3. FirstMaker'
  BY DEF TypeOK, FirstMaker
<1>4. BuiltWhenEntered' /\ NoHalfMadeBook'
  BY DEF BuiltWhenEntered, NoHalfMadeBook
<1>5. QED
  BY <1>1, <1>2, <1>3, <1>4

\* The health check takes and releases stripes and changes no map.
LEMMA HealthSafe ==
  ASSUME IInv, NEW t \in Threads, Health(t) \/ HealthLock(t) \/ HealthUnlock(t)
  PROVE  IInv'
<1> USE DEF IInv, At, Goto
<1>1. TypeOK'
  <2>1. CASE Health(t)
    BY <2>1, StripeAssumption DEF Health, TypeOK
  <2>2. CASE HealthLock(t)
    BY <2>2 DEF HealthLock, TypeOK
  <2>3. CASE HealthUnlock(t)
    <3>1. stripe[t] \in 0 .. LastStripe /\ LastStripe \in Nat
      BY StripeAssumption DEF TypeOK, Stripes
    <3>2. stripe' \in [Threads -> 0 .. LastStripe]
      <4>1. CASE stripe[t] = LastStripe
        BY <2>3, <4>1 DEF HealthUnlock, TypeOK, Stripes
      <4>2. CASE stripe[t] # LastStripe
        <5>1. stripe[t] + 1 \in 0 .. LastStripe
          BY <3>1, <4>2
        <5>2. stripe' = [stripe EXCEPT ![t] = stripe[t] + 1]
          BY <2>3, <4>2 DEF HealthUnlock
        <5>3. QED
          BY <5>1, <5>2 DEF TypeOK, Stripes
      <4>3. QED
        BY <4>1, <4>2
    <3>3. holder' \in [Stripes -> Threads \cup {Nobody}]
      BY <2>3 DEF HealthUnlock, TypeOK
    <3>4. pc' \in [Threads -> Places]
      BY <2>3 DEF HealthUnlock, TypeOK, Places
    <3>5. maps' = maps /\ built' = built /\ sym' = sym
      BY <2>3 DEF HealthUnlock
    <3>6. QED
      BY <3>2, <3>3, <3>4, <3>5 DEF TypeOK, Stripes
  <2>4. QED
    BY <2>1, <2>2, <2>3
<1>2. LockHeld'
  <2>1. CASE Health(t)
    BY <2>1 DEF Health, TypeOK, LockHeld
  <2>2. CASE HealthLock(t)
    BY <2>2, NobodyAssumption DEF HealthLock, TypeOK, LockHeld
  <2>3. CASE HealthUnlock(t)
    BY <2>3 DEF HealthUnlock, TypeOK, LockHeld
  <2>4. QED
    BY <2>1, <2>2, <2>3
<1>3. FirstMaker'
  BY DEF Health, HealthLock, HealthUnlock, TypeOK, FirstMaker
<1>4. BuiltWhenEntered' /\ NoHalfMadeBook'
  BY DEF Health, HealthLock, HealthUnlock, BuiltWhenEntered, NoHalfMadeBook
<1>5. QED
  BY <1>1, <1>2, <1>3, <1>4

LEMMA IInvInit == Init => IInv
<1> SUFFICES ASSUME Init PROVE IInv
  OBVIOUS
<1>1. TypeOK
  <2>1. (CHOOSE y \in Symbols : TRUE) \in Symbols
    BY StripeAssumption
  <2>2. QED
    BY <2>1, StripeAssumption DEF Init, TypeOK
<1>2. LockHeld /\ FirstMaker /\ BuiltWhenEntered /\ NoHalfMadeBook
  BY DEF Init, LockHeld, FirstMaker, BuiltWhenEntered, NoHalfMadeBook
<1>3. QED
  BY <1>1, <1>2 DEF IInv

LEMMA IInvStep == IInv /\ [Next]_vars => IInv'
<1> SUFFICES ASSUME IInv, [Next]_vars PROVE IInv'
  OBVIOUS
<1>1. ASSUME NEW t \in Threads, Step(t) PROVE IInv'
  BY <1>1, LockSafe, FindSafe, InsertSafe, UnlockSafe, HealthSafe DEF Step
<1>2. CASE UNCHANGED vars
  BY <1>2 DEF vars, IInv, TypeOK, LockHeld, FirstMaker, BuiltWhenEntered, NoHalfMadeBook
<1>3. QED
  BY <1>1, <1>2 DEF Next

\* Every variable has its type, and a health check visits no stripe beyond the
\* last (lob_server.cpp:518-522).
THEOREM TypeCorrect == Spec => []TypeOK
<1>1. IInv => TypeOK
  BY DEF IInv
<1>2. QED
  BY <1>1, IInvInit, IInvStep, PTL DEF Spec

\* No symbol's engine is ever constructed twice: get_book runs under the
\* symbol's stripe (lob_server.cpp:89-99).
THEOREM EnginesAreMadeOnce == Spec => []OneEnginePerSymbol
<1>1. IInv => OneEnginePerSymbol
  BY DEF IInv, BuiltWhenEntered, OneEnginePerSymbol
<1>2. QED
  BY <1>1, IInvInit, IInvStep, PTL DEF Spec

\* Whoever finds a symbol in books finds an engine with its levels and its
\* logger (lob_server.cpp:93-97).
THEOREM BooksAreWhole == Spec => []NoHalfMadeBook
<1>1. IInv => NoHalfMadeBook
  BY DEF IInv
<1>2. QED
  BY <1>1, IInvInit, IInvStep, PTL DEF Spec

=============================================================================
