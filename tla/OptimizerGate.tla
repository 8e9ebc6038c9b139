---------------------------- MODULE OptimizerGate ----------------------------
(***************************************************************************)
(* The kernel admission gate and the untrusted optimizer (afco/optimizer): *)
(* proposals arrive one after the other, and the schedule in force is what *)
(* the gate's verdicts say: the items admitted, or the fallback the caller *)
(* passed, which admit hands back without looking at it.                   *)
(***************************************************************************)
EXTENDS Integers, Sequences, FiniteSetsExt

CONSTANTS
  Ceiling,       \* power_limit_kw
  QueueCapacity, \* queue_capacity, as a set of one, or {} for None
  Items,         \* schedule items: [kw, priority, arrival]
  MaxItems,      \* bound: the length of a proposal
  MaxFallback    \* bound: the length of a fallback, unless it is the schedule in force

ASSUME GateAssumption ==
  /\ Ceiling \in Nat
  /\ QueueCapacity \subseteq Nat
  /\ \A i \in Items : i.kw \in Int /\ i.priority \in Int /\ i.arrival \in Int
  /\ MaxItems \in Nat
  /\ MaxFallback \in Nat

VARIABLES
  schedule, \* the items in force
  reason,   \* of the last verdict
  trusted   \* history: no fallback in force was one the gate would have refused

gateVars == <<schedule, reason, trusted>>

\* HeuristicOptimizer.propose sorts by one of three keys; the sort is stable.
Strategies == {"arrival", "power", "priority"}
Key(strategy, i) ==
  [arrival  |-> <<i.arrival, -i.priority, 0>>,
   power    |-> <<i.kw, i.arrival, -i.priority>>,
   priority |-> <<-i.priority, i.arrival, 0>>][strategy]

KeyLess(a, b) == \E n \in 1..3 : a[n] < b[n] /\ \A m \in 1..(n - 1) : a[m] = b[m]

\* Before(strategy, items, m, n): position m of the items comes before n.
Before(strategy, items, m, n) ==
  LET key(k) == Key(strategy, items[k])
  IN  KeyLess(key(m), key(n)) \/ (key(m) = key(n) /\ m < n)

Proposal(strategy, items) ==
  LET place(n) == Cardinality({m \in DOMAIN items : Before(strategy, items, m, n)}) + 1
  IN  [k \in DOMAIN items |-> items[CHOOSE n \in DOMAIN items : place(n) = k]]

Aggregate(items, S) == MapThenSumSet(LAMBDA n : items[n].kw, S)
Total(items) == Aggregate(items, DOMAIN items)

NegativeRequest(items) == \E n \in DOMAIN items : items[n].kw < 0
QueueTooLong(items) == \E c \in QueueCapacity : Len(items) > c

\* A mutant: negative requests are left to the ceiling.
ObjectionsToTotal(items) ==
  IF Total(items) > Ceiling THEN "ceiling"
  ELSE IF QueueTooLong(items) THEN "capacity" ELSE "admitted"

\* The checks of admit, in their order.
Objections(items) ==
  IF NegativeRequest(items) THEN "negative"
  ELSE IF Total(items) > Ceiling THEN "ceiling"
  ELSE IF QueueTooLong(items) THEN "capacity" ELSE "admitted"

GateInit == schedule = <<>> /\ reason = "none" /\ trusted = TRUE

Admit(items) ==
  /\ reason' = Objections(items)
  /\ reason' = "admitted"
  /\ schedule' = items
  /\ trusted' = TRUE

Refuse(items, fallback) ==
  /\ reason' = Objections(items)
  /\ reason' # "admitted"
  /\ schedule' = fallback
  /\ trusted' = IF fallback = schedule THEN trusted ELSE Objections(fallback) = "admitted"

Lists(n) == UNION {[1..m -> Items] : m \in 0..n}

\* The caller of admit chooses the fallback: the schedule in force, nothing (the
\* default), one that was never admitted (as scenario D12 does), or any other.
Dispose(items) ==
  Admit(items) \/ \E fallback \in Lists(MaxFallback) \cup {schedule} : Refuse(items, fallback)

\* Whatever items, from the optimizer in the order of a strategy, or any other way.
GateNext ==
  \E items \in Lists(MaxItems) :
    Dispose(items) \/ \E strategy \in Strategies : Dispose(Proposal(strategy, items))

GateSpec == GateInit /\ [][GateNext]_gateVars

-----------------------------------------------------------------------------
\* Whichever of the sessions draw at the same time, what they draw together is within the ceiling (I2), and the queue holds them all.
WithinCeiling(items) ==
  /\ \A S \in SUBSET DOMAIN items : Aggregate(items, S) \in 0..Ceiling
  /\ \A c \in QueueCapacity : Len(items) <= c

\* Whichever proposals were disposed of before, a schedule is safe unless a
\* caller brought one in as a fallback that the gate itself would have refused
\* (D12's fallback, never admitted before, is one it admits next).  That the
\* sum is within the ceiling says it of every subset only without negative
\* requests, which admit refuses first.
ScheduleWithinCeiling == trusted => WithinCeiling(schedule)

\* What plan.md:305 says of the gate without that condition: the kernel rejects
\* an unsafe proposal "and enforces a safe fallback schedule".
FallbackEnforcedIsSafe == WithinCeiling(schedule)
=============================================================================
