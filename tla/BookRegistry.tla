---------------------------- MODULE BookRegistry ----------------------------
(***************************************************************************)
(* The global maps of module1_lob/lob_server.cpp: bid_levels, ask_levels,  *)
(* loggers and books, filled by get_book under the caller's stripe lock    *)
(* and read by /lob/health under one stripe lock at a time.                *)
(*                                                                         *)
(* A lookup, an insertion and an iteration of an unordered_map take time:  *)
(* a thread is inside one for as long as its pc names it, and the effect   *)
(* comes with the step that leaves it.  What happens after a data race is  *)
(* undefined, so a behaviour of the model ends in its first race.          *)
(***************************************************************************)
EXTENDS Integers, FiniteSets

CONSTANTS
  Threads,
  Nobody,
  Symbols,
  LastStripe, \* the last index of book_mutexes: 15 in the code
  StripeOf    \* hash(symbol) % 16

Stripes == 0 .. LastStripe

ASSUME NobodyAssumption == Nobody \notin Threads

ASSUME StripeAssumption ==
  LastStripe \in Nat /\ Symbols # {} /\ StripeOf \in [Symbols -> Stripes]

VARIABLES
  holder,  \* book_mutexes
  maps,    \* for each map, the symbols it has an entry for
  built,   \* how many engines were ever constructed for each symbol
  pc,      \* where each thread is
  sym,     \* the symbol its handler is about
  stripe   \* the stripe its health check visits next

vars == <<holder, maps, built, pc, sym, stripe>>

Maps == {"bid_levels", "ask_levels", "loggers", "books"}

Places == {"idle", "find", "use", "visit", "iterate"} \cup Maps

\* The map a thread is inside of, if any, and whether it writes it.  (The last
\* insertion of get_book looks its key up in the three other maps as well, which
\* is not counted: more races than these are possible, not fewer.)
Reads(t, m) == m = "books" /\ pc[t] \in {"find", "iterate"}

Writes(t, m) == pc[t] = m

\* Two threads are inside the same map and one of them writes it.
Race ==
  \E t, u \in Threads, m \in Maps :
    t # u /\ Writes(t, m) /\ (Writes(u, m) \/ Reads(u, m))

Init ==
  /\ holder = [s \in Stripes |-> Nobody]
  /\ maps = [m \in Maps |-> {}]
  /\ built = [y \in Symbols |-> 0]
  /\ pc = [t \in Threads |-> "idle"]
  /\ sym = [t \in Threads |-> CHOOSE y \in Symbols : TRUE]
  /\ stripe = [t \in Threads |-> 0]

\* A thread goes on only while no race has happened.
At(t, places) == ~Race /\ pc[t] \in places

Goto(t, place) == pc' = [pc EXCEPT ![t] = place]

\* Mutant: the handler takes no lock.
NoLock(t, y) ==
  /\ At(t, {"idle"})
  /\ sym' = [sym EXCEPT ![t] = y]
  /\ Goto(t, "find")
  /\ UNCHANGED <<holder, maps, built, stripe>>

\* A handler of some symbol takes its stripe and calls get_book.
Lock(t, y) ==
  /\ At(t, {"idle"}) /\ holder[StripeOf[y]] = Nobody
  /\ holder' = [holder EXCEPT ![StripeOf[y]] = t]
  /\ sym' = [sym EXCEPT ![t] = y]
  /\ Goto(t, "find")
  /\ UNCHANGED <<maps, built, stripe>>

\* books.find(sym): the book is returned, or has to be made.
Find(t) ==
  /\ At(t, {"find"})
  /\ Goto(t, IF sym[t] \in maps["books"] THEN "use" ELSE "bid_levels")
  /\ UNCHANGED <<holder, maps, built, sym, stripe>>

After == [m \in Maps |-> CASE m = "bid_levels" -> "ask_levels"
                           [] m = "ask_levels" -> "loggers"
                           [] m = "loggers"    -> "books"
                           [] m = "books"      -> "use"]

\* Mutant: the engine is entered before its logger.
InsertUnordered(t) ==
  /\ At(t, Maps)
  /\ maps' = [maps EXCEPT ![IF pc[t] = "loggers" THEN "books" ELSE pc[t]] = @ \cup {sym[t]}]
  /\ Goto(t, After[pc[t]])
  /\ UNCHANGED <<holder, built, sym, stripe>>

\* One of the four insertions; the last constructs the engine over the levels
\* and the logger that were inserted before.
Insert(t) ==
  /\ At(t, Maps)
  /\ maps' = [maps EXCEPT ![pc[t]] = @ \cup {sym[t]}]
  /\ built' = IF pc[t] = "books" THEN [built EXCEPT ![sym[t]] = @ + 1] ELSE built
  /\ Goto(t, After[pc[t]])
  /\ UNCHANGED <<holder, sym, stripe>>

\* The handler has used the engine and releases the stripe.
Unlock(t) ==
  /\ At(t, {"use"})
  /\ holder' = [holder EXCEPT ![StripeOf[sym[t]]] = Nobody]
  /\ Goto(t, "idle")
  /\ UNCHANGED <<maps, built, sym, stripe>>

\* GET /lob/health visits the stripes in order and iterates books under each.
Health(t) ==
  /\ At(t, {"idle"})
  /\ stripe' = [stripe EXCEPT ![t] = 0]
  /\ Goto(t, "visit")
  /\ UNCHANGED <<holder, maps, built, sym>>

HealthLock(t) ==
  /\ At(t, {"visit"}) /\ holder[stripe[t]] = Nobody
  /\ holder' = [holder EXCEPT ![stripe[t]] = t]
  /\ Goto(t, "iterate")
  /\ UNCHANGED <<maps, built, sym, stripe>>

\* Mutant: the loop over the stripes runs one too far.
HealthUnlockBeyond(t) ==
  /\ At(t, {"iterate"})
  /\ holder' = [holder EXCEPT ![stripe[t]] = Nobody]
  /\ stripe' = [stripe EXCEPT ![t] = @ + 1]
  /\ Goto(t, IF stripe[t] > LastStripe THEN "idle" ELSE "visit")
  /\ UNCHANGED <<maps, built, sym>>

\* The stripe is released; after the last one the check answers.
HealthUnlock(t) ==
  /\ At(t, {"iterate"})
  /\ holder' = [holder EXCEPT ![stripe[t]] = Nobody]
  /\ IF stripe[t] = LastStripe
     THEN Goto(t, "idle") /\ UNCHANGED stripe
     ELSE Goto(t, "visit") /\ stripe' = [stripe EXCEPT ![t] = @ + 1]
  /\ UNCHANGED <<maps, built, sym>>

Step(t) ==
  \/ \E y \in Symbols : Lock(t, y)
  \/ Find(t) \/ Insert(t) \/ Unlock(t)
  \/ Health(t) \/ HealthLock(t) \/ HealthUnlock(t)

Next == \E t \in Threads : Step(t)

Spec == Init /\ [][Next]_vars

-----------------------------------------------------------------------------
(* Properties.                                                             *)

\* Every variable has its type.
TypeOK ==
  /\ holder \in [Stripes -> Threads \cup {Nobody}]
  /\ maps \in [Maps -> SUBSET Symbols]
  /\ built \in [Symbols -> Nat]
  /\ pc \in [Threads -> Places]
  /\ sym \in [Threads -> Symbols]
  /\ stripe \in [Threads -> Stripes]

\* Up to the first race, no symbol's engine is constructed twice: a second
\* construction would destroy the levels and the book of a live engine, and
\* every order in it.
OneEnginePerSymbol == \A y \in Symbols : built[y] <= 1

\* Whoever looks a symbol up in books finds an engine whose levels and logger
\* exist: no handler ever sees a book that is half made.
NoHalfMadeBook ==
  \A y \in maps["books"] : built[y] > 0 /\ \A m \in Maps : y \in maps[m]

\* "It processes limit and market orders using striped mutexes"
\* (docs/system_architecture.md:25): the stripes keep the handlers of different
\* orders out of each other's data.
NoDataRace == ~Race

=============================================================================
