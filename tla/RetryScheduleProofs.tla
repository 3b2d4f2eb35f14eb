------------------------ MODULE RetryScheduleProofs ------------------------
(***************************************************************************)
(* Theorems about retries for any number of workers and events, any        *)
(* capacities and any settings that the options accept.                    *)
(***************************************************************************)
EXTENDS RetrySchedule, FiniteSetTheorems, WellFoundedInduction, TLAPS

(* A leaf is for Zenon unless it names another prover. *)
USE Zenon

(* Induction for this module: a nonempty set of naturals has a least one. *)
LEMMA LeastElement ==
  ASSUME NEW T \in SUBSET Nat, T # {}
  PROVE  \E m \in T : \A n \in T : m <= n
<1> DEFINE R == OpToRel(<, Nat)
<1>1. IsWellFoundedOn(R, Nat) BY NatLessThanWellFounded
<1>2. \A x, y \in Nat : y < x => <<y, x>> \in R BY DEF OpToRel
<1> HIDE DEF R
<1>3. PICK m \in T : \A n \in T : ~(<<n, m>> \in R) BY <1>1, WFMin
<1>4. \A n \in T : ~(n < m) BY <1>2, <1>3
<1> QED BY <1>4, SMT

LEMMA Remainder ==
  ASSUME NEW m \in Nat, NEW n \in Nat, m < n
  PROVE  m % n = m
  BY SMT

(* Arithmetic does not wrap below the limit. *)
LEMMA WrapSmall ==
  ASSUME NEW d \in Nat, d < DurationLimit
  PROVE  Wrap(d) = d
<1> DEFINE L == DurationLimit
<1>1. L \in Nat BY DurationAssumption
<1> HIDE DEF L
<1>2. 2 * L \in Nat /\ d + L \in Nat /\ d + L < 2 * L BY <1>1, SMT DEF L
<1>3. (d + L) % (2 * L) = d + L BY <1>2, Remainder
<1>4. (d + L) - L = d BY <1>1, SMT
<1> QED BY <1>3, <1>4 DEF Wrap, L

-----------------------------------------------------------------------------
(* The loop of worker that doubles the delay. *)
LEMMA DoubleStep ==
  ASSUME NEW maximum \in Nat, maximum < DurationLimit, NEW d \in 1 .. maximum
  PROVE  Double(d, maximum) = Least(2 * d, maximum)
<1>1. CASE d > maximum \div 2 BY <1>1, SMT DEF Double, Least
<1>2. CASE ~(d > maximum \div 2)
  <2>1. 2 * d \in Nat /\ 2 * d <= maximum BY <1>2, SMT
  <2>2. 2 * d < DurationLimit BY <2>1, DurationAssumption, SMT
  <2>3. Wrap(2 * d) = 2 * d BY <2>1, <2>2, WrapSmall
  <2> QED BY <1>2, <2>1, <2>3, SMT DEF Double, Least
<1> QED BY <1>1, <1>2

(* What it means that f has the delays after up to n rounds. *)
Rounds(f, initial, maximum, n) ==
  f = [k \in 0 .. n |-> IF k = 0 THEN initial ELSE Double(f[k - 1], maximum)]

(* The definition of the loop is sound: there is such a function. *)
LEMMA RoundsExist ==
  ASSUME NEW initial, NEW maximum, NEW n \in Nat
  PROVE  \E f : Rounds(f, initial, maximum, n)
<1> DEFINE T == {k \in Nat : ~\E f : Rounds(f, initial, maximum, k)}
<1> SUFFICES ASSUME T # {} PROVE FALSE OBVIOUS
<1>1. PICK m \in T : \A k \in T : m <= k
  <2> HIDE DEF T
  <2>1. T \in SUBSET Nat BY DEF T
  <2> QED BY <2>1, LeastElement
<1>2. CASE m = 0
  <2> DEFINE f == [k \in 0 .. 0 |-> initial]
  <2>1. f = [k \in 0 .. 0 |-> IF k = 0 THEN initial ELSE Double(f[k - 1], maximum)] BY SMT
  <2> HIDE DEF f
  <2> QED BY <1>2, <2>1 DEF Rounds
<1>3. CASE m # 0
  <2>1. m \in Nat /\ m - 1 \in Nat /\ m - 1 \notin T BY <1>1, <1>3, SMT
  <2>2. PICK g : Rounds(g, initial, maximum, m - 1) BY <2>1
  <2> DEFINE f == [k \in 0 .. m |-> IF k = m THEN Double(g[m - 1], maximum) ELSE g[k]]
  <2>3. \A k \in 0 .. m : f[k] = IF k = 0 THEN initial ELSE Double(f[k - 1], maximum)
    BY <1>3, <2>1, <2>2, SMT DEF Rounds
  <2>4. f = [k \in 0 .. m |-> IF k = 0 THEN initial ELSE Double(f[k - 1], maximum)]
    <3>1. DOMAIN f = 0 .. m OBVIOUS
    <3>2. f = [k \in 0 .. m |-> f[k]] OBVIOUS
    <3> HIDE DEF f
    <3> QED BY <2>3, <3>2
  <2> HIDE DEF f
  <2> QED BY <2>4, <1>1 DEF Rounds
<1> QED BY <1>2, <1>3

LEMMA DelaysDefined ==
  ASSUME NEW initial, NEW maximum
  PROVE  Rounds(Delays(initial, maximum), initial, maximum, MaxDoublings)
<1>1. \E f : Rounds(f, initial, maximum, MaxDoublings) BY RoundsExist, DurationAssumption
<1>2. Delays(initial, maximum) = CHOOSE f : Rounds(f, initial, maximum, MaxDoublings)
  BY DEF Delays, Rounds
<1> QED BY <1>1, <1>2

LEMMA DelaysBounded ==
  ASSUME NEW initial \in Nat, NEW maximum \in Nat, ValidBackoff(initial, maximum),
         maximum < DurationLimit, NEW n \in 0 .. MaxDoublings
  PROVE  Delays(initial, maximum)[n] \in 1 .. maximum
<1> DEFINE f == Delays(initial, maximum)
           T == {k \in 0 .. MaxDoublings : f[k] \notin 1 .. maximum}
<1>0. Rounds(f, initial, maximum, MaxDoublings) BY DelaysDefined
<1>1. \A k \in 0 .. MaxDoublings :
        f[k] = IF k = 0 THEN initial ELSE Double(f[k - 1], maximum)
  <2> HIDE DEF f
  <2> QED BY <1>0 DEF Rounds
<1> HIDE DEF f
<1> SUFFICES ASSUME T # {} PROVE FALSE BY DEF f
<1>2. PICK m \in T : \A k \in T : m <= k
  <2>1. T \in SUBSET Nat BY SMT
  <2> HIDE DEF T
  <2> QED BY <2>1, LeastElement
<1>3. m # 0 BY <1>1, <1>2, SMT DEF ValidBackoff
<1>4. m - 1 \in 0 .. MaxDoublings /\ f[m - 1] \in 1 .. maximum
  BY <1>2, <1>3, DurationAssumption, SMT
<1>5. f[m] = Least(2 * f[m - 1], maximum) BY <1>1, <1>2, <1>3, <1>4, DoubleStep
<1> QED BY <1>2, <1>4, <1>5, SMT DEF Least

(* The same for the doublings without a maximum. *)
Doubles(f, d, n) == f = [k \in 0 .. n |-> IF k = 0 THEN d ELSE 2 * f[k - 1]]

LEMMA DoublesExist ==
  ASSUME NEW d, NEW n \in Nat
  PROVE  \E f : Doubles(f, d, n)
<1> DEFINE T == {k \in Nat : ~\E f : Doubles(f, d, k)}
<1> SUFFICES ASSUME T # {} PROVE FALSE OBVIOUS
<1>1. PICK m \in T : \A k \in T : m <= k
  <2> HIDE DEF T
  <2>1. T \in SUBSET Nat BY DEF T
  <2> QED BY <2>1, LeastElement
<1>2. CASE m = 0
  <2> DEFINE f == [k \in 0 .. 0 |-> d]
  <2>1. f = [k \in 0 .. 0 |-> IF k = 0 THEN d ELSE 2 * f[k - 1]] BY SMT
  <2> HIDE DEF f
  <2> QED BY <1>2, <2>1 DEF Doubles
<1>3. CASE m # 0
  <2>1. m \in Nat /\ m - 1 \in Nat /\ m - 1 \notin T BY <1>1, <1>3, SMT
  <2>2. PICK g : Doubles(g, d, m - 1) BY <2>1
  <2> DEFINE f == [k \in 0 .. m |-> IF k = m THEN 2 * g[m - 1] ELSE g[k]]
  <2>3. \A k \in 0 .. m : f[k] = IF k = 0 THEN d ELSE 2 * f[k - 1]
    BY <1>3, <2>1, <2>2, SMT DEF Doubles
  <2>4. f = [k \in 0 .. m |-> IF k = 0 THEN d ELSE 2 * f[k - 1]]
    <3>2. f = [k \in 0 .. m |-> f[k]] OBVIOUS
    <3> HIDE DEF f
    <3> QED BY <2>3, <3>2
  <2> HIDE DEF f
  <2> QED BY <2>4, <1>1 DEF Doubles
<1> QED BY <1>2, <1>3

LEMMA DoubledStep ==
  ASSUME NEW d \in Nat, NEW k \in 0 .. 2 * MaxDoublings
  PROVE  Doubled(d)[k] = IF k = 0 THEN d ELSE 2 * Doubled(d)[k - 1]
<1> DEFINE m == 2 * MaxDoublings
<1>0. m \in Nat BY DurationAssumption, SMT
<1>1. Doubled(d) = CHOOSE f : Doubles(f, d, m) BY DEF Doubled, Doubles
<1> HIDE DEF m
<1>2. Doubles(Doubled(d), d, m) BY <1>0, <1>1, DoublesExist
<1>3. k \in 0 .. m BY DEF m
<1> QED BY <1>2, <1>3 DEF Doubles

(* A positive duration at least doubles from round to round, and stays      *)
(* above the limit once it had MaxDoublings of them.                        *)
LEMMA DoubledGrows ==
  ASSUME NEW d \in Nat \ {0}, NEW k \in 0 .. 2 * MaxDoublings
  PROVE  /\ Doubled(d)[k] \in Nat \ {0}
         /\ Doubled(d)[k] >= Doubled(1)[k]
<1> DEFINE f == Doubled(d)
           g == Doubled(1)
           Right(j) == f[j] \in Nat \ {0} /\ g[j] \in Nat /\ f[j] >= g[j]
           T == {j \in 0 .. 2 * MaxDoublings : ~Right(j)}
<1>1. \A j \in 0 .. 2 * MaxDoublings :
        /\ f[j] = IF j = 0 THEN d ELSE 2 * f[j - 1]
        /\ g[j] = IF j = 0 THEN 1 ELSE 2 * g[j - 1]
  BY DoubledStep
<1> HIDE DEF f, g
<1> SUFFICES ASSUME T # {} PROVE FALSE BY DEF f, g
<1>2. PICK m \in T : \A j \in T : m <= j
  <2>1. T \in SUBSET Nat BY SMT
  <2> HIDE DEF T
  <2> QED BY <2>1, LeastElement
<1>3. m # 0 BY <1>1, <1>2, SMT
<1>4. m - 1 \in 0 .. 2 * MaxDoublings /\ Right(m - 1) BY <1>2, <1>3, DurationAssumption, SMT
<1> QED BY <1>1, <1>2, <1>3, <1>4, SMT

LEMMA DoubledBeyond ==
  ASSUME NEW d \in Nat \ {0}, NEW k \in MaxDoublings .. 2 * MaxDoublings
  PROVE  Doubled(d)[k] >= DurationLimit
<1> DEFINE f == Doubled(d)
           T == {j \in MaxDoublings .. 2 * MaxDoublings : ~(f[j] >= DurationLimit)}
<1>1. \A j \in 0 .. 2 * MaxDoublings :
        f[j] \in Nat /\ f[j] = IF j = 0 THEN d ELSE 2 * f[j - 1]
  BY DoubledStep, DoubledGrows
<1>2. f[MaxDoublings] >= DurationLimit
  BY DoubledGrows, DurationAssumption, SMT DEF DurationLimit
<1> HIDE DEF f
<1> SUFFICES ASSUME T # {} PROVE FALSE BY DEF f
<1>3. PICK m \in T : \A j \in T : m <= j
  <2>1. T \in SUBSET Nat BY DurationAssumption, SMT
  <2> HIDE DEF T
  <2> QED BY <2>1, LeastElement
<1>4. m # MaxDoublings BY <1>2, <1>3
<1>5. m - 1 \in MaxDoublings .. 2 * MaxDoublings /\ f[m - 1] >= DurationLimit
  BY <1>3, <1>4, DurationAssumption, SMT
<1> QED BY <1>1, <1>3, <1>5, DurationAssumption, SMT

(* The loop computes the doublings, cut at the maximum. *)
LEMMA DelaysDouble ==
  ASSUME NEW initial \in Nat, NEW maximum \in Nat, ValidBackoff(initial, maximum),
         maximum < DurationLimit, NEW n \in 0 .. MaxDoublings
  PROVE  Delays(initial, maximum)[n] = Least(Doubled(initial)[n], maximum)
<1> DEFINE f == Delays(initial, maximum)
           g == Doubled(initial)
           T == {k \in 0 .. MaxDoublings : f[k] # Least(g[k], maximum)}
<1>0. Rounds(f, initial, maximum, MaxDoublings) BY DelaysDefined
<1>1. \A k \in 0 .. MaxDoublings :
        f[k] = IF k = 0 THEN initial ELSE Double(f[k - 1], maximum)
  <2> HIDE DEF f
  <2> QED BY <1>0 DEF Rounds
<1>2. \A k \in 0 .. MaxDoublings : f[k] \in 1 .. maximum BY DelaysBounded
<1>3. \A k \in 0 .. MaxDoublings : g[k] \in Nat /\ g[k] = IF k = 0 THEN initial ELSE 2 * g[k - 1]
  BY DoubledStep, DoubledGrows, DurationAssumption, SMT DEF ValidBackoff
<1> HIDE DEF f, g
<1> SUFFICES ASSUME T # {} PROVE FALSE BY DEF f, g
<1>4. PICK m \in T : \A k \in T : m <= k
  <2>1. T \in SUBSET Nat BY SMT
  <2> HIDE DEF T
  <2> QED BY <2>1, LeastElement
<1>5. m # 0 BY <1>1, <1>3, <1>4, SMT DEF ValidBackoff, Least
<1>6. /\ m - 1 \in 0 .. MaxDoublings
      /\ f[m - 1] = Least(g[m - 1], maximum) /\ f[m - 1] \in 1 .. maximum
  BY <1>2, <1>4, <1>5, DurationAssumption, SMT
<1>7. f[m] = Least(2 * f[m - 1], maximum) BY <1>1, <1>4, <1>5, <1>6, DoubleStep
<1>8. g[m] = 2 * g[m - 1] /\ g[m - 1] \in Nat BY <1>3, <1>4, <1>5, <1>6
<1> QED BY <1>4, <1>6, <1>7, <1>8, SMT DEF Least

(* For every backoff that WithRetryBackoff accepts and every width of a     *)
(* duration that holds its maximum, the delay that a worker computes after  *)
(* attempt n is the initial one doubled n - 1 times, or the maximum if that *)
(* is less; it never overflows, however many attempts there are.            *)
THEOREM BackoffDoubles == Spec => []BackoffDoublesToMaximum
<1>1. BackoffDoublesToMaximum
  <2> SUFFICES ASSUME NEW maximum \in 1 .. DurationLimit - 1, NEW initial \in 1 .. DurationLimit - 1,
                      NEW n \in 1 .. 2 * MaxDoublings, ValidBackoff(initial, maximum)
               PROVE  Backoff(initial, maximum, n) = Least(Doubled(initial)[n - 1], maximum)
    BY DEF BackoffDoublesToMaximum
  <2>1. initial \in Nat \ {0} /\ maximum \in Nat /\ maximum < DurationLimit BY DurationAssumption, SMT
  <2>2. \A k \in 0 .. MaxDoublings :
          Delays(initial, maximum)[k] = Least(Doubled(initial)[k], maximum)
    BY <2>1, DelaysDouble
  <2>3. CASE n - 1 <= MaxDoublings
    <3>1. Least(n - 1, MaxDoublings) = n - 1 /\ n - 1 \in 0 .. MaxDoublings
      BY <2>3, DurationAssumption, SMT DEF Least
    <3>2. Doubled(initial)[n - 1] \in Nat BY <2>1, <3>1, DoubledGrows, DurationAssumption, SMT
    <3> QED BY <2>1, <2>2, <3>1, <3>2 DEF Backoff, Least
  <2>4. CASE n - 1 > MaxDoublings
    <3>1. Least(n - 1, MaxDoublings) = MaxDoublings BY <2>4, DurationAssumption, SMT DEF Least
    <3>2. /\ Doubled(initial)[MaxDoublings] >= DurationLimit
          /\ Doubled(initial)[n - 1] >= DurationLimit
      BY <2>1, <2>4, DoubledBeyond, DurationAssumption, SMT
    <3>3. Doubled(initial)[MaxDoublings] \in Nat /\ Doubled(initial)[n - 1] \in Nat
      BY <2>1, <2>4, DoubledGrows, DurationAssumption, SMT
    <3>4. Delays(initial, maximum)[MaxDoublings] = maximum
      BY <2>1, <2>2, <3>2, <3>3, DurationAssumption, SMT DEF Least
    <3> QED BY <2>1, <3>1, <3>2, <3>3, <3>4, DurationAssumption, SMT DEF Backoff, Least
  <2> QED BY <2>3, <2>4, DurationAssumption, SMT
<1> QED BY <1>1, PTL

(* The delay after any attempt is positive and at most RetryMax. *)
LEMMA BackoffBounded ==
  ASSUME NEW n \in Nat \ {0}
  PROVE  Backoff(RetryBase, RetryMax, n) \in 1 .. RetryMax
<1>1. Least(n - 1, MaxDoublings) \in 0 .. MaxDoublings BY DurationAssumption, SMT DEF Least
<1>2. Delays(RetryBase, RetryMax)[Least(n - 1, MaxDoublings)] \in 1 .. RetryMax
  BY <1>1, DelaysBounded, ConfigAssumption, DurationAssumption
<1> QED BY <1>2, ConfigAssumption, SMT DEF Backoff, Least

-----------------------------------------------------------------------------
LEMMA TypeInit == Init => TypeOK
<1> SUFFICES ASSUME Init PROVE TypeOK OBVIOUS
<1>1. items = {} /\ IsFiniteSet(items) /\ Cardinality(items) = 0 BY FS_EmptySet DEF Init
<1>2. Cardinality(items) <= Capacity BY <1>1, ConfigAssumption, SMT DEF ValidCapacities
<1>3. clock \in Nat /\ published \in 0 .. MaxEvents /\ sequence \in Nat
  BY BoundAssumption, SMT DEF Init
<1>4. changed \in BOOLEAN /\ closed \in BOOLEAN /\ stopped \in BOOLEAN BY DEF Init
<1>5. /\ worker \in [Workers -> {"pop", "attempt", "schedule", "check", "nap", "done"}]
      /\ held \in [Workers -> Retry \cup {NoRetry}]
      /\ \A w \in Workers : worker[w] \in {"pop", "done"} <=> held[w] = NoRetry
      /\ alarm \in [Workers -> Nat]
  BY DEF Init
<1>6. taken \in Retry \cup {NoRetry} /\ (taken # NoRetry <=> scheduler = "push")
  BY DEF Init
<1> QED BY <1>1, <1>2, <1>3, <1>4, <1>5, <1>6 DEF Init, TypeOK

LEMMA NumberedRetry ==
  ASSUME NEW x \in Retry, NEW n \in Nat
  PROVE  Numbered(x, n) \in Retry /\ Numbered(x, n).due = x.due
  BY DEF Numbered, Retry

(* A heap that lost retries still fits. *)
LEMMA SmallerHeap ==
  ASSUME TypeOK, NEW T \in SUBSET items
  PROVE  T \in SUBSET Retry /\ IsFiniteSet(T) /\ Cardinality(T) <= Capacity
<1>1. IsFiniteSet(T) /\ Cardinality(T) <= Cardinality(items) BY FS_Subset DEF TypeOK
<1>2. Cardinality(T) \in Nat /\ Cardinality(items) \in Nat /\ Capacity \in Nat
  BY <1>1, FS_CardinalityType, ConfigAssumption DEF TypeOK, ValidCapacities
<1> QED BY <1>1, <1>2, SMT DEF TypeOK

(* What schedule leaves in the heap. *)
LEMMA PushedHeap ==
  ASSUME TypeOK, NEW w \in Workers, NEW told, Push(w, told)
  PROVE  /\ items' \in SUBSET Retry /\ IsFiniteSet(items')
         /\ Cardinality(items') <= Capacity
         /\ held[w] \in Retry
         /\ \/ worker'[w] = "check" /\ held'[w] \in Retry
            \/ worker'[w] = "pop" /\ held'[w] = NoRetry
<1> DEFINE new == Numbered(held[w], sequence + 1)
           heap == items \cup {new}
<1>1. held[w] \in Retry BY DEF Push, TypeOK
<1>2. new \in Retry BY <1>1, NumberedRetry, SMT DEF TypeOK
<1>3. /\ IsFiniteSet(heap) /\ Cardinality(heap) \in Nat /\ Capacity \in Nat
      /\ Cardinality(heap) <= Capacity + 1 /\ heap \in SUBSET Retry
  <2>1. IsFiniteSet(heap) /\ (Cardinality(heap) = Cardinality(items)
                               \/ Cardinality(heap) = Cardinality(items) + 1)
    BY FS_AddElement DEF TypeOK
  <2>2. Cardinality(items) \in Nat /\ Cardinality(items) <= Capacity /\ Capacity \in Nat
    BY FS_CardinalityType, ConfigAssumption DEF TypeOK, ValidCapacities
  <2> QED BY <1>2, <2>1, <2>2, SMT DEF TypeOK
<1> HIDE DEF new
<1>4. CASE Overfull(heap)
  <2>1. PICK x \in heap : /\ items' = heap \ {x}
                          /\ held' = [held EXCEPT ![w] = Out(x)]
                          /\ worker' = [worker EXCEPT ![w] = "check"]
    BY <1>4 DEF Push, new
  <2>2. IsFiniteSet(items') /\ Cardinality(items') = Cardinality(heap) - 1
    <3> HIDE DEF heap
    <3> QED BY <1>3, <2>1, FS_RemoveElement
  <2>3. Out(x) \in Retry BY <1>3, <2>1, NumberedRetry DEF Out
  <2> QED BY <1>1, <1>3, <2>1, <2>2, <2>3, SMT DEF TypeOK
<1>5. CASE ~Overfull(heap)
  <2>1. /\ items' = heap
        /\ held' = [held EXCEPT ![w] = NoRetry]
        /\ worker' = [worker EXCEPT ![w] = "pop"]
    BY <1>5 DEF Push, new
  <2> QED BY <1>1, <1>3, <1>5, <2>1, SMT DEF TypeOK, Overfull
<1> QED BY <1>4, <1>5

(* What AttemptFails keeps for the next attempt. *)
LEMMA FailedRetry ==
  ASSUME TypeOK, NEW w \in Workers, AttemptFails(w)
  PROVE  held' = [held EXCEPT ![w] = held'[w]] /\ held'[w] \in Retry
<1>1. held[w] \in Retry BY DEF TypeOK, AttemptFails
<1> DEFINE n == held[w].attempts + 1
<1>2. n \in Nat \ {0} /\ held[w].event \in Events BY <1>1, SMT DEF Retry
<1> HIDE DEF n
<1>3. Backoff(RetryBase, RetryMax, n) \in Nat BY <1>2, BackoffBounded, ConfigAssumption, SMT
<1>4. clock + Backoff(RetryBase, RetryMax, n) \in Nat BY <1>3, SMT DEF TypeOK
<1> QED BY <1>2, <1>4 DEF AttemptFails, TypeOK, Retry, n

LEMMA TypeWorker ==
  ASSUME TypeOK, NEW w \in Workers, WorkerStep(w)
  PROVE  TypeOK'
<1>1. CASE Pop(w) BY <1>1, NoRetryAssumption DEF TypeOK, Pop, queue, loop
<1>2. CASE PopClosed(w) BY <1>2 DEF TypeOK, PopClosed, queue, loop
<1>3. CASE AttemptEnds(w) BY <1>3 DEF TypeOK, AttemptEnds, Drop, queue, loop
<1>4. CASE AttemptFails(w)
  <2>1. held' = [held EXCEPT ![w] = held'[w]] /\ held'[w] \in Retry BY <1>4, FailedRetry
  <2>2. worker' = [worker EXCEPT ![w] = "schedule"] BY <1>4 DEF AttemptFails
  <2>3. UNCHANGED <<clock, published, sendQueue, items, sequence, changed, closed, stopped,
                    stale, alarm, scheduler, next, timer, taken>>
    BY <1>4 DEF AttemptFails, queue, loop
  <2> QED BY <2>1, <2>2, <2>3, NoRetryAssumption DEF TypeOK
<1>5. CASE Schedule(w)
  <2>0. Push(w, TRUE) BY <1>5 DEF Schedule
  <2>1. /\ items' \in SUBSET Retry /\ IsFiniteSet(items')
        /\ Cardinality(items') <= Capacity
        /\ \/ worker'[w] = "check" /\ held'[w] \in Retry
           \/ worker'[w] = "pop" /\ held'[w] = NoRetry
    BY <2>0, PushedHeap
  <2>2. /\ worker' = [worker EXCEPT ![w] = worker'[w]]
        /\ held' = [held EXCEPT ![w] = held'[w]]
    BY <2>0 DEF Push, TypeOK
  <2>3. sequence' \in Nat /\ changed' = TRUE BY <2>0, SMT DEF Push, TypeOK
  <2>4. UNCHANGED <<clock, published, sendQueue, closed, stopped, stale, alarm, scheduler,
                    next, timer, taken>>
    BY <2>0 DEF Push, loop
  <2>5. /\ worker' \in [Workers -> {"pop", "attempt", "schedule", "check", "nap", "done"}]
        /\ held' \in [Workers -> Retry \cup {NoRetry}]
        /\ \A v \in Workers : worker'[v] \in {"pop", "done"} <=> held'[v] = NoRetry
    BY <2>1, <2>2, NoRetryAssumption, SMT DEF TypeOK
  <2> QED BY <2>1, <2>3, <2>4, <2>5 DEF TypeOK
<1>6. CASE ScheduleClosed(w) BY <1>6 DEF TypeOK, ScheduleClosed, queue, loop
<1>7. CASE GiveUp(w) BY <1>7 DEF TypeOK, GiveUp, Drop, queue, loop
<1>8. CASE Nap(w)
  <2>1. held[w] \in Retry BY <1>8 DEF TypeOK, Nap
  <2>2. clock + Least(held[w].due - clock, SchedulerDelay) \in Nat
    BY <1>8, <2>1, ConfigAssumption, SMT DEF TypeOK, Nap, Retry, Least, ValidDelay
  <2> QED BY <1>8, <2>2 DEF TypeOK, Nap, queue, loop
<1>9. CASE NapEnds(w) BY <1>9 DEF TypeOK, NapEnds, queue, loop
<1>10. CASE RetryNow(w) BY <1>10 DEF TypeOK, RetryNow, queue, loop
<1> QED BY <1>1, <1>2, <1>3, <1>4, <1>5, <1>6, <1>7, <1>8, <1>9, <1>10 DEF WorkerStep

LEMMA TypeScheduler ==
  ASSUME TypeOK, SchedulerStep
  PROVE  TypeOK'
<1>1. CASE PollDue
  <2>1. PICK x \in items : items' = items \ {x} /\ taken' = Out(x) BY <1>1 DEF PollDue
  <2>2. items' \in SUBSET Retry /\ IsFiniteSet(items') /\ Cardinality(items') <= Capacity
    BY <2>1, SmallerHeap
  <2>3. taken' \in Retry BY <2>1, NumberedRetry DEF Out, TypeOK
  <2> QED BY <1>1, <2>2, <2>3, NoRetryAssumption DEF TypeOK, PollDue, workers
<1>2. CASE PollNext
  <2>1. next' \in Nat \cup {None} BY <1>2 DEF PollNext, TypeOK, Retry
  <2> QED BY <1>2, <2>1 DEF TypeOK, PollNext, queue, workers
<1>3. CASE PushTaken BY <1>3 DEF TypeOK, PushTaken, queue, workers
<1>4. CASE ArmTimer
  <2>1. timer' \in Nat \cup {None}
    BY <1>4, ConfigAssumption, SMT DEF ArmTimer, TypeOK, None, Least, Most, ValidDelay
  <2> QED BY <1>4, <2>1 DEF TypeOK, ArmTimer, queue, workers
<1>5. CASE WakeUp BY <1>5 DEF TypeOK, WakeUp, workers
<1>6. CASE SchedulerEnds BY <1>6 DEF TypeOK, SchedulerEnds, queue, workers
<1>7. CASE CheckTaken BY <1>7 DEF TypeOK, CheckTaken, queue, workers
<1> QED BY <1>1, <1>2, <1>3, <1>4, <1>5, <1>6, <1>7 DEF SchedulerStep

LEMMA TypeStep == TypeOK /\ [Next]_vars => TypeOK'
<1> SUFFICES ASSUME TypeOK, [Next]_vars PROVE TypeOK' OBVIOUS
<1>1. CASE Publish
  <2>1. published' \in 1 .. MaxEvents BY <1>1, BoundAssumption, SMT DEF Publish, TypeOK
  <2>2. Fresh(published') \in Retry BY <2>1 DEF Fresh, Retry, Events
  <2> QED BY <1>1, <2>1, <2>2, SMT DEF TypeOK, Publish, queue, workers, loop
<1>2. ASSUME NEW e \in Events, Retire(e) PROVE TypeOK'
  BY <1>2 DEF TypeOK, Retire, queue, workers, loop
<1>3. ASSUME NEW w \in Workers, WorkerStep(w) PROVE TypeOK' BY <1>3, TypeWorker
<1>4. CASE SchedulerStep BY <1>4, TypeScheduler
<1>5. CASE Remove
  <2>1. items' \in SUBSET items BY <1>5 DEF Remove
  <2>2. items' \in SUBSET Retry /\ IsFiniteSet(items') /\ Cardinality(items') <= Capacity
    BY <2>1, SmallerHeap
  <2> QED BY <1>5, <2>2 DEF TypeOK, Remove, workers, loop
<1>6. CASE CloseQueues BY <1>6 DEF TypeOK, CloseQueues, queue, workers, loop
<1>7. CASE Stop BY <1>7 DEF TypeOK, Stop, queue, workers, loop
<1>8. CASE Tick BY <1>8, SMT DEF TypeOK, Tick, queue, workers, loop
<1>9. CASE UNCHANGED vars BY <1>9 DEF TypeOK, vars, queue, workers, loop
<1> QED BY <1>1, <1>2, <1>3, <1>4, <1>5, <1>6, <1>7, <1>8, <1>9 DEF Next, Horizon

(* The state has its type and the heap of retries never outgrows the        *)
(* capacity given to WithQueueCapacities, however many workers fail at the  *)
(* same time (schedule hands the first retry of a full heap back).          *)
THEOREM HeapIsBounded == Spec => []TypeOK
<1> QED BY TypeInit, TypeStep, PTL DEF Spec

-----------------------------------------------------------------------------
(* The inductive invariant of the timed properties.  To show that the       *)
(* scheduler does not oversleep it is needed that the time which popDue     *)
(* returned is still right when the timer is set from it, or a change is    *)
(* signalled that ends the sleep at once.                                   *)
NextIsFirst ==
  (scheduler = "arm" /\ ~changed) => \A x \in items : next # None /\ next <= x.due

Timely == NeverEarly /\ NapsAreShort /\ NextIsFirst /\ NeverOversleeps

LEMMA TimelyInit == Init => Timely
  BY DEF Init, Timely, NeverEarly, NapsAreShort, NextIsFirst, NeverOversleeps

LEMMA FirstIsDueFirst ==
  ASSUME NEW heap \in SUBSET Retry, NEW x \in heap, IsFirst(x, heap)
  PROVE  \A y \in heap : x.due <= y.due
<1>1. \A y \in heap : y.due \in Int BY SMT DEF Retry
<1> QED BY <1>1, SMT DEF IsFirst, Less

LEMMA NeverEarlyStep == TypeOK /\ NeverEarly /\ [Next]_vars => NeverEarly'
<1> SUFFICES ASSUME TypeOK, NeverEarly, [Next]_vars PROVE NeverEarly' OBVIOUS
<1>0. /\ clock \in Nat /\ \A x \in Retry : x.due \in Nat
      /\ \A w \in Workers : worker[w] = "attempt" => held[w] \in Retry
      /\ scheduler \in {"taken", "push"} => taken \in Retry
  BY DEF TypeOK, Retry
<1>1. CASE Publish
  <2>1. Fresh(published').due = 0 BY DEF Fresh
  <2> QED BY <1>0, <1>1, <2>1, SMT DEF NeverEarly, Publish, workers, loop
<1>2. ASSUME NEW e \in Events, Retire(e) PROVE NeverEarly'
  BY <1>2 DEF NeverEarly, Retire, workers, loop
<1>3. ASSUME NEW w \in Workers, WorkerStep(w) PROVE NeverEarly'
  <2>0. DOMAIN held = Workers /\ DOMAIN worker = Workers BY DEF TypeOK
  <2>1. CASE Pop(w) BY <2>0, <2>1 DEF NeverEarly, Pop, loop
  <2>2. CASE RetryNow(w) BY <2>0, <2>2 DEF NeverEarly, RetryNow, loop
  <2>3. CASE Schedule(w)
    <3>1. Push(w, TRUE) BY <2>3 DEF Schedule
    <3>2. worker'[w] # "attempt" BY <3>1, PushedHeap
    <3>3. \A v \in Workers \ {w} : worker'[v] = worker[v] /\ held'[v] = held[v]
      BY <2>0, <3>1 DEF Push
    <3>4. UNCHANGED <<clock, sendQueue, scheduler, taken>> BY <3>1 DEF Push, loop
    <3> QED BY <3>2, <3>3, <3>4 DEF NeverEarly
  <2>4. CASE ~(Pop(w) \/ RetryNow(w) \/ Schedule(w))
    <3>1. /\ worker'[w] # "attempt"
          /\ \A v \in Workers \ {w} : worker'[v] = worker[v] /\ held'[v] = held[v]
          /\ UNCHANGED <<clock, sendQueue, scheduler, taken>>
      BY <1>3, <2>0, <2>4 DEF WorkerStep, PopClosed, AttemptEnds, AttemptFails, Drop,
         ScheduleClosed, GiveUp, Nap, NapEnds, loop
    <3> QED BY <3>1 DEF NeverEarly
  <2> QED BY <2>1, <2>2, <2>3, <2>4
<1>4. CASE SchedulerStep
  <2>1. CASE PollDue
    <3>1. PICK x \in items : x.due <= clock /\ taken' = Out(x) BY <2>1 DEF PollDue
    <3>2. taken'.due = x.due BY <3>1, NumberedRetry DEF Out, TypeOK
    <3> QED BY <2>1, <3>1, <3>2 DEF NeverEarly, PollDue, workers
  <2>2. CASE PushTaken BY <2>2 DEF NeverEarly, PushTaken, workers
  <2>3. CASE PollNext \/ ArmTimer \/ WakeUp \/ SchedulerEnds
    BY <2>3 DEF NeverEarly, PollNext, ArmTimer, WakeUp, SchedulerEnds, workers
  <2>4. CASE CheckTaken BY <2>4 DEF NeverEarly, CheckTaken, workers
  <2> QED BY <1>4, <2>1, <2>2, <2>3, <2>4 DEF SchedulerStep
<1>5. CASE Remove BY <1>5 DEF NeverEarly, Remove, workers, loop
<1>6. CASE CloseQueues \/ Stop \/ UNCHANGED vars
  BY <1>6 DEF NeverEarly, CloseQueues, Stop, vars, workers, loop
<1>7. CASE Tick
  <2>1. /\ clock' = clock + 1
        /\ UNCHANGED <<sendQueue, worker, held, scheduler, taken>>
    BY <1>7 DEF Tick, workers, loop
  <2>2. \A x \in Retry : x.due <= clock => x.due <= clock' BY <1>0, <2>1, SMT
  <2>3. sendQueue \in SUBSET Retry BY DEF TypeOK
  <2> QED BY <1>0, <2>1, <2>2, <2>3 DEF NeverEarly
<1> QED BY <1>1, <1>2, <1>3, <1>4, <1>5, <1>6, <1>7 DEF Next, Horizon

LEMMA NapsStep == TypeOK /\ NapsAreShort /\ [Next]_vars => NapsAreShort'
<1> SUFFICES ASSUME TypeOK, NapsAreShort, [Next]_vars PROVE NapsAreShort' OBVIOUS
<1>0. /\ clock \in Nat /\ SchedulerDelay \in Nat
      /\ \A w \in Workers : alarm[w] \in Nat
      /\ DOMAIN held = Workers /\ DOMAIN worker = Workers /\ DOMAIN alarm = Workers
  BY ConfigAssumption DEF TypeOK, ValidDelay
<1>1. ASSUME NEW w \in Workers, WorkerStep(w) PROVE NapsAreShort'
  <2>1. CASE Nap(w)
    <3>1. held[w] \in Retry /\ held[w].due \in Nat BY <2>1 DEF TypeOK, Nap, Retry
    <3>2. /\ clock + Least(held[w].due - clock, SchedulerDelay) <= held[w].due
          /\ clock + Least(held[w].due - clock, SchedulerDelay) <= clock + SchedulerDelay
      BY <1>0, <3>1, SMT DEF Least
    <3> QED BY <1>0, <2>1, <3>2 DEF NapsAreShort, Nap
  <2>2. CASE Schedule(w)
    <3>1. Push(w, TRUE) BY <2>2 DEF Schedule
    <3>2. worker'[w] # "nap" BY <3>1, PushedHeap
    <3>3. \A v \in Workers \ {w} : worker'[v] = worker[v] /\ held'[v] = held[v]
      BY <1>0, <3>1 DEF Push
    <3>4. UNCHANGED <<clock, alarm>> BY <3>1 DEF Push
    <3> QED BY <3>2, <3>3, <3>4 DEF NapsAreShort
  <2>3. CASE ~(Nap(w) \/ Schedule(w))
    <3>1. /\ worker'[w] # "nap"
          /\ \A v \in Workers \ {w} :
               worker'[v] = worker[v] /\ held'[v] = held[v] /\ alarm'[v] = alarm[v]
          /\ UNCHANGED clock
      BY <1>0, <1>1, <2>3 DEF WorkerStep, Pop, PopClosed, AttemptEnds, AttemptFails, Drop,
         ScheduleClosed, GiveUp, NapEnds, RetryNow
    <3> QED BY <3>1 DEF NapsAreShort
  <2> QED BY <2>1, <2>2, <2>3
<1>2. CASE Tick BY <1>0, <1>2, SMT DEF NapsAreShort, Tick, workers
<1>3. CASE Publish \/ (\E e \in Events : Retire(e)) \/ SchedulerStep \/ Remove
           \/ CloseQueues \/ Stop \/ UNCHANGED vars
  <2>1. UNCHANGED <<clock, worker, held, alarm>>
    BY <1>3 DEF Publish, Retire, SchedulerStep, PollDue, PollNext, CheckTaken, PushTaken, ArmTimer,
       WakeUp, SchedulerEnds, Remove, CloseQueues, Stop, vars, workers
  <2> QED BY <2>1 DEF NapsAreShort
<1> QED BY <1>1, <1>2, <1>3 DEF Next, Horizon

LEMMA NextIsFirstStep == TypeOK /\ NextIsFirst /\ [Next]_vars => NextIsFirst'
<1> SUFFICES ASSUME TypeOK, NextIsFirst, [Next]_vars PROVE NextIsFirst' OBVIOUS
<1>1. CASE PollNext
  <2>1. CASE items = {} BY <1>1, <2>1 DEF PollNext, queue, NextIsFirst
  <2>2. CASE items # {}
    <3>1. PICK x \in items : IsFirst(x, items) /\ next' = x.due
      BY <1>1, <2>2 DEF PollNext
    <3>2. next' # None BY <3>1, SMT DEF TypeOK, Retry, None
    <3>3. \A y \in items : x.due <= y.due BY <3>1, FirstIsDueFirst DEF TypeOK
    <3>4. items' = items BY <1>1 DEF PollNext, queue
    <3> QED BY <3>1, <3>2, <3>3, <3>4 DEF NextIsFirst
  <2> QED BY <2>1, <2>2
<1>2. ASSUME NEW w \in Workers, WorkerStep(w) PROVE NextIsFirst'
  <2>1. \/ changed'
        \/ UNCHANGED <<items, changed, scheduler, next>>
    BY <1>2 DEF WorkerStep, Pop, PopClosed, AttemptEnds, AttemptFails, Drop, Schedule, Push,
       ScheduleClosed, GiveUp, Nap, NapEnds, RetryNow, queue, loop
  <2> QED BY <2>1 DEF NextIsFirst
<1>3. CASE PollDue \/ CheckTaken \/ PushTaken \/ ArmTimer \/ WakeUp \/ SchedulerEnds
  <2>1. scheduler' # "arm"
    BY <1>3 DEF PollDue, CheckTaken, PushTaken, ArmTimer, WakeUp, SchedulerEnds
  <2> QED BY <2>1 DEF NextIsFirst
<1>4. CASE Remove BY <1>4 DEF Remove, NextIsFirst
<1>5. CASE Publish \/ (\E e \in Events : Retire(e)) \/ CloseQueues \/ Stop \/ Tick
           \/ UNCHANGED vars
  <2>1. UNCHANGED <<items, changed, scheduler, next>>
    BY <1>5 DEF Publish, Retire, CloseQueues, Stop, Tick, vars, queue, loop
  <2> QED BY <2>1 DEF NextIsFirst
<1> QED BY <1>1, <1>2, <1>3, <1>4, <1>5 DEF Next, SchedulerStep, Horizon

LEMMA NeverOversleepsStep ==
  TypeOK /\ NextIsFirst /\ NeverOversleeps /\ [Next]_vars => NeverOversleeps'
<1> SUFFICES ASSUME TypeOK, NextIsFirst, NeverOversleeps, [Next]_vars
             PROVE  NeverOversleeps'
  OBVIOUS
<1>0. /\ clock \in Nat /\ SchedulerDelay \in Nat
      /\ timer \in Nat \cup {None} /\ next \in Nat \cup {None}
      /\ \A x \in items : x.due \in Nat
  BY ConfigAssumption DEF TypeOK, ValidDelay, Retry
<1>1. CASE ArmTimer
  <2> SUFFICES ASSUME ~changed, NEW x \in items
               PROVE  timer' # None /\ (timer' <= x.due \/ timer' <= clock)
    BY <1>1 DEF NeverOversleeps, ArmTimer, queue
  <2>1. next # None /\ next \in Nat /\ next <= x.due
    BY <1>0, <1>1 DEF NextIsFirst, ArmTimer
  <2>2. timer' = clock + Least(Most(next - clock, 0), SchedulerDelay)
    BY <1>1, <2>1 DEF ArmTimer
  <2> QED BY <1>0, <2>1, <2>2, SMT DEF Least, Most, None
<1>2. ASSUME NEW w \in Workers, WorkerStep(w) PROVE NeverOversleeps'
  <2>1. \/ changed'
        \/ UNCHANGED <<clock, items, changed, scheduler, timer>>
    BY <1>2 DEF WorkerStep, Pop, PopClosed, AttemptEnds, AttemptFails, Drop, Schedule, Push,
       ScheduleClosed, GiveUp, Nap, NapEnds, RetryNow, queue, loop
  <2> QED BY <2>1 DEF NeverOversleeps
<1>3. CASE PollDue \/ PollNext \/ CheckTaken \/ PushTaken \/ WakeUp \/ SchedulerEnds
  <2>1. scheduler' # "sleep"
    BY <1>3 DEF PollDue, PollNext, CheckTaken, PushTaken, WakeUp, SchedulerEnds
  <2> QED BY <2>1 DEF NeverOversleeps
<1>4. CASE Remove BY <1>4 DEF Remove, NeverOversleeps
<1>5. CASE Tick
  <2>1. clock' = clock + 1 /\ UNCHANGED <<items, changed, scheduler, timer>>
    BY <1>5 DEF Tick, queue, loop
  <2> QED BY <1>0, <2>1, SMT DEF NeverOversleeps
<1>6. CASE Publish \/ (\E e \in Events : Retire(e)) \/ CloseQueues \/ Stop
           \/ UNCHANGED vars
  <2>1. UNCHANGED <<clock, items, changed, scheduler, timer>>
    BY <1>6 DEF Publish, Retire, CloseQueues, Stop, vars, queue, loop
  <2> QED BY <2>1 DEF NeverOversleeps
<1> QED BY <1>1, <1>2, <1>3, <1>4, <1>5, <1>6 DEF Next, SchedulerStep, Horizon

LEMMA TimelyInv == Spec => []Timely
<1>1. TypeOK /\ Timely /\ [Next]_vars => Timely'
  BY NeverEarlyStep, NapsStep, NextIsFirstStep, NeverOversleepsStep DEF Timely
<1> QED BY <1>1, TimelyInit, HeapIsBounded, PTL DEF Spec

(* No event is attempted before its backoff is over: popDue lets only due   *)
(* retries into the send queue, and waitForRetry returns only when the one  *)
(* it keeps is due.                                                         *)
THEOREM RetriesAreNeverEarly == Spec => []NeverEarly
<1>1. Timely => NeverEarly BY DEF Timely
<1> QED BY <1>1, TimelyInv, PTL

(* retryLoop is awake by the time the first retry is due: between popDue    *)
(* and the select a schedule or a remove may change the heap, but then it   *)
(* has also filled the channel changed.                                     *)
THEOREM SchedulerNeverOversleeps == Spec => []NeverOversleeps
<1>1. Timely => NeverOversleeps BY DEF Timely
<1> QED BY <1>1, TimelyInv, PTL

(* A worker that keeps a retry looks up after SchedulerDelay at the latest  *)
(* (waitForRetry), so a replaced client or a stopped bus frees it.          *)
THEOREM KeptRetriesAreWatched == Spec => []NapsAreShort
<1>1. Timely => NapsAreShort BY DEF Timely
<1> QED BY <1>1, TimelyInv, PTL

(* When the heap is full, schedule hands back a retry that is due no later  *)
(* than any that stay, whatever the capacity and however many have the same *)
(* due time.                                                                *)
THEOREM FullHeapHandsBackFirst == Spec => KeepsTheFirst
<1>1. TypeOK /\ [Next]_vars => [HandsBackFirst]_vars
  <2> SUFFICES ASSUME TypeOK, Next, NEW w \in Workers,
                      worker[w] = "schedule", worker'[w] = "check"
               PROVE  \A x \in items' : held'[w].due <= x.due
    BY DEF HandsBackFirst
  <2>0. DOMAIN worker = Workers BY DEF TypeOK
  <2>1. Push(w, TRUE)
    <3>1. ASSUME NEW v \in Workers, WorkerStep(v) PROVE v = w /\ Schedule(w)
      BY <2>0, <3>1 DEF WorkerStep, Pop, PopClosed, AttemptEnds, AttemptFails, Drop, Schedule,
         Push, ScheduleClosed, GiveUp, Nap, NapEnds, RetryNow
    <3>2. CASE Publish \/ (\E e \in Events : Retire(e)) \/ SchedulerStep \/ Remove
               \/ CloseQueues \/ Stop \/ Tick \/ Horizon
      <4>1. UNCHANGED worker
        BY <3>2 DEF Publish, Retire, SchedulerStep, PollDue, PollNext, CheckTaken, PushTaken, ArmTimer,
           WakeUp, SchedulerEnds, Remove, CloseQueues, Stop, Tick, Horizon, vars, workers
      <4> QED BY <4>1
    <3> QED BY <3>1, <3>2 DEF Next, Schedule
  <2> DEFINE new == Numbered(held[w], sequence + 1)
             heap == items \cup {new}
  <2>2. held[w] \in Retry BY <2>1, PushedHeap
  <2>3. new \in Retry BY <2>2, NumberedRetry, SMT DEF TypeOK
  <2> HIDE DEF new
  <2>4. heap \in SUBSET Retry BY <2>3 DEF TypeOK
  <2>5. PICK x \in heap : IsFirst(x, heap) /\ items' = heap \ {x} /\ held'[w] = Out(x)
    BY <2>0, <2>1 DEF Push, HandsBack, new, TypeOK
  <2>6. \A y \in heap : x.due <= y.due
    <3> HIDE DEF heap
    <3> QED BY <2>4, <2>5, FirstIsDueFirst
  <2>7. held'[w].due = x.due BY <2>4, <2>5, NumberedRetry DEF Out
  <2> QED BY <2>5, <2>6, <2>7
<1> QED BY <1>1, HeapIsBounded, PTL DEF Spec, KeepsTheFirst
=============================================================================
