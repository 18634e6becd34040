--------------------------- MODULE PipelineProofs ---------------------------
(***************************************************************************)
(* The pipelines that overlap the copies of blocks with the computation on *)
(* them: emit_pipeline of a TPU core (pallas/mosaic/pipeline.py) and the   *)
(* two of a GPU block (pallas/mosaic_gpu/pipeline.py).                     *)
(*                                                                         *)
(* TPU: for every grid, every number of cores and all index maps, however  *)
(* late and in whatever order the copies complete: every step has the      *)
(* right blocks in slots that no copy uses, and at the end the output is   *)
(* in HBM and nothing is left in flight.  The input may have any number of *)
(* buffers, with or without lookahead.                                     *)
(*                                                                         *)
(* GPU: for every kernel that the two functions accept, with any number of *)
(* compute threads, inputs and steps and with any delays: no barrier of    *)
(* the interpreter raises, no copy and no computation touches a block of   *)
(* SMEM that another one uses, and the vector clocks order what must be    *)
(* ordered, so that race detection reports nothing.                        *)
(***************************************************************************)
EXTENDS EmitPipelineInv, GpuPipelineInv, FiniteSetTheorems, TLAPS

-----------------------------------------------------------------------------
(* Induction, for sets.                                                    *)

\* Induction over the natural numbers.  With a counterexample n, x |-> x - 1
\* would map the counterexamples up to n into themselves without n, which the
\* pigeonhole principle excludes.
LEMMA SetInduction ==
    ASSUME NEW T, 0 \in T, \A n \in Nat : n \in T => n + 1 \in T
    PROVE  Nat \subseteq T
<1> SUFFICES ASSUME NEW n \in Nat, n \notin T PROVE FALSE
  OBVIOUS
<1> DEFINE S == {m \in 0 .. n : m \notin T}
           f == [m \in S |-> m - 1]
<1>1. IsFiniteSet(S) /\ n \in S
  <2>1. IsFiniteSet(0 .. n) /\ S \in SUBSET (0 .. n)
    BY FS_Interval
  <2> QED
    BY <2>1, FS_Subset
<1>2. IsFiniteSet(S \ {n}) /\ Cardinality(S \ {n}) = Cardinality(S) - 1 /\ Cardinality(S) \in Nat
  BY <1>1, FS_RemoveElement, FS_CardinalityType
<1>3. f \in [S -> S \ {n}]
  <2> SUFFICES ASSUME NEW m \in S PROVE m - 1 \in S \ {n}
    OBVIOUS
  <2>1. m # 0 /\ m \in 0 .. n
    OBVIOUS
  <2>2. m - 1 \in Nat /\ (m - 1) + 1 = m
    BY <2>1
  <2> QED
    BY <2>1, <2>2
<1>4. \A x, y \in S : x # y => f[x] # f[y]
  OBVIOUS
<1>5. Cardinality(S \ {n}) < Cardinality(S)
  BY <1>2
<1> HIDE DEF S, f
<1>6. \E x, y \in S : x # y /\ f[x] = f[y]
  BY <1>1, <1>2, <1>3, <1>5, FS_PigeonHole
<1> QED
  BY <1>4, <1>6

\* Induction from m up to n.
LEMMA Upward ==
    ASSUME NEW m \in Nat, NEW n \in Nat, NEW T, m \in T,
           \A d \in m .. (n - 1) : d \in T => d + 1 \in T
    PROVE  m .. n \subseteq T
<1> DEFINE U == {x \in Nat : m + x \in m .. n => m + x \in T}
<1>1. 0 \in U
  OBVIOUS
<1>2. \A x \in Nat : x \in U => x + 1 \in U
  <2> SUFFICES ASSUME NEW x \in Nat, x \in U, m + (x + 1) \in m .. n
               PROVE  m + (x + 1) \in T
    OBVIOUS
  <2>1. m + x \in T /\ m + x \in m .. (n - 1)
    OBVIOUS
  <2>2. (m + x) + 1 \in T
    BY <2>1
  <2> QED
    BY <2>2
<1> HIDE DEF U
<1>3. Nat \subseteq U
  BY <1>1, <1>2, SetInduction
<1>4. \A x \in m .. n : x - m \in Nat /\ m + (x - m) = x
  OBVIOUS
<1> QED
  BY <1>3, <1>4 DEF U

-----------------------------------------------------------------------------
(* Counting the copies of a sequence of blocks.                            *)

\* Slots of numbers that are less than a round apart are different.
LEMMA SlotsApart ==
    ASSUME NEW k \in Nat \ {0}, NEW a \in Nat, NEW b \in Nat, a % k = b % k,
           a <= b, b < a + k
    PROVE  a = b
<1>1. a = k * (a \div k) + (a % k) /\ b = k * (b \div k) + (b % k)
  OBVIOUS
<1>2. a \div k \in Nat /\ b \div k \in Nat
  OBVIOUS
<1>3. \A x, y \in Nat : k * x <= k * y /\ k * y < k * x + k => x = y
  <2> SUFFICES ASSUME NEW x \in Nat, NEW y \in Nat, k * x <= k * y, k * y < k * x + k, x # y
               PROVE  FALSE
    OBVIOUS
  <2>1. CASE y >= x + 1
    <3>1. k * y >= k * (x + 1)
      BY <2>1
    <3> QED
      BY <3>1
  <2>2. CASE x >= y + 1
    <3>1. k * x >= k * (y + 1)
      BY <2>2
    <3> QED
      BY <3>1
  <2> QED
    BY <2>1, <2>2
<1>4. k * (a \div k) <= k * (b \div k) /\ k * (b \div k) < k * (a \div k) + k
  <2> DEFINE p == k * (a \div k)
             q == k * (b \div k)
  <2>1. p \in Nat /\ q \in Nat /\ a % k \in Nat
    BY <1>2
  <2>2. a = p + (a % k) /\ b = q + (a % k)
    BY <1>1
  <2> HIDE DEF p, q
  <2>3. p <= q /\ q < p + k
    BY <2>1, <2>2
  <2> QED
    BY <2>3 DEF p, q
<1>5. a \div k = b \div k
  BY <1>2, <1>3, <1>4
<1> QED
  BY <1>1, <1>5

\* Counting block by block.
LEMMA CountStep ==
    ASSUME NEW f, NEW n
    PROVE  /\ Count(f, n, 0) = 0
           /\ \A k \in Nat :
                /\ Count(f, n, k) \in Nat
                /\ Starts(f, n, k) => Count(f, n, k + 1) = Count(f, n, k) + 1
                /\ ~Starts(f, n, k) => Count(f, n, k + 1) = Count(f, n, k)
<1> DEFINE S(k) == {j \in 0 .. (k - 1) : Starts(f, n, j)}
<1>1. S(0) = {}
  OBVIOUS
<1>2. ASSUME NEW k \in Nat
      PROVE  /\ IsFiniteSet(S(k)) /\ k \notin S(k)
             /\ Starts(f, n, k) => S(k + 1) = S(k) \cup {k}
             /\ ~Starts(f, n, k) => S(k + 1) = S(k)
  <2>1. IsFiniteSet(0 .. (k - 1)) /\ S(k) \in SUBSET (0 .. (k - 1))
    BY FS_Interval
  <2>2. IsFiniteSet(S(k))
    BY <2>1, FS_Subset
  <2>3. 0 .. ((k + 1) - 1) = (0 .. (k - 1)) \cup {k}
    OBVIOUS
  <2> QED
    BY <2>2, <2>3
<1>3. \A k : Count(f, n, k) = Cardinality(S(k))
  BY DEF Count
<1> HIDE DEF S
<1>4. Count(f, n, 0) = 0
  BY <1>1, <1>3, FS_EmptySet
<1>5. ASSUME NEW k \in Nat
      PROVE  /\ Cardinality(S(k)) \in Nat
             /\ Starts(f, n, k) => Cardinality(S(k + 1)) = Cardinality(S(k)) + 1
             /\ ~Starts(f, n, k) => Cardinality(S(k + 1)) = Cardinality(S(k))
  <2>1. IsFiniteSet(S(k)) /\ k \notin S(k)
    BY <1>2
  <2>2. Cardinality(S(k)) \in Nat
    BY <2>1, FS_CardinalityType
  <2>3. Cardinality(S(k) \cup {k}) = Cardinality(S(k)) + 1
    BY <2>1, FS_AddElement
  <2> QED
    BY <1>2, <2>2, <2>3
<1> QED
  BY <1>3, <1>4, <1>5

\* Counts are natural numbers.
LEMMA CountNat ==
    ASSUME NEW f, NEW n, NEW k \in Nat
    PROVE  Count(f, n, k) \in Nat /\ Count(f, n, k + 1) \in Nat
<1>1. k + 1 \in Nat
  OBVIOUS
<1>2. \A i \in Nat : Count(f, n, i) \in Nat
  BY CountStep
<1> QED
  BY <1>1, <1>2

\* A stretch of blocks takes no more copies than it has blocks.
LEMMA CountBounds ==
    ASSUME NEW f, NEW n, NEW i \in Nat, NEW j \in Nat, i <= j
    PROVE  Count(f, n, i) <= Count(f, n, j) /\ Count(f, n, j) <= Count(f, n, i) + (j - i)
<1> DEFINE T == {k \in Nat : Count(f, n, i) <= Count(f, n, k) /\ Count(f, n, k) <= Count(f, n, i) + (k - i)}
<1>0. \A k \in Nat :
        /\ Count(f, n, k) \in Nat
        /\ Count(f, n, k + 1) = Count(f, n, k) \/ Count(f, n, k + 1) = Count(f, n, k) + 1
  BY CountStep
<1>1. i \in T
  BY <1>0
<1>2. ASSUME NEW d \in i .. (j - 1), d \in T
      PROVE  d + 1 \in T
  <2>1. d \in Nat /\ Count(f, n, d) \in Nat /\ Count(f, n, i) \in Nat
    BY <1>0
  <2>2. Count(f, n, d + 1) = Count(f, n, d) \/ Count(f, n, d + 1) = Count(f, n, d) + 1
    BY <1>0, <2>1
  <2>3. Count(f, n, i) <= Count(f, n, d) /\ Count(f, n, d) <= Count(f, n, i) + (d - i)
    BY <1>2
  <2> QED
    BY <2>1, <2>2, <2>3
<1> HIDE DEF T
<1>3. i .. j \subseteq T
  BY <1>1, <1>2, Upward
<1>4. j \in T
  BY <1>3
<1> QED
  BY <1>4 DEF T

\* The copies of the blocks from a to b.
LEMMA CountFrom ==
    ASSUME NEW f, NEW n, NEW a \in Nat, NEW b \in Nat, a <= b
    PROVE  Count(f, n, b) = Count(f, n, a) + Cardinality({j \in a .. (b - 1) : Starts(f, n, j)})
<1> DEFINE S == {j \in 0 .. (a - 1) : Starts(f, n, j)}
           T == {j \in a .. (b - 1) : Starts(f, n, j)}
           U == {j \in 0 .. (b - 1) : Starts(f, n, j)}
<1>1. S \in SUBSET (0 .. (a - 1)) /\ T \in SUBSET (a .. (b - 1))
  OBVIOUS
<1>2. IsFiniteSet(S) /\ IsFiniteSet(T)
  <2>1. IsFiniteSet(0 .. (a - 1)) /\ IsFiniteSet(a .. (b - 1))
    BY FS_Interval
  <2> HIDE DEF S, T
  <2> QED
    BY <1>1, <2>1, FS_Subset
<1>3. U = S \cup T /\ S \cap T = {}
  OBVIOUS
<1>4. Count(f, n, b) = Cardinality(U) /\ Count(f, n, a) = Cardinality(S)
  BY DEF Count
<1> HIDE DEF S, T, U
<1>5. Cardinality(S) \in Nat /\ Cardinality(T) \in Nat /\ Cardinality(S \cap T) = 0
  BY <1>2, <1>3, FS_CardinalityType, FS_EmptySet
<1>6. Cardinality(S \cup T) = Cardinality(S) + Cardinality(T) - Cardinality(S \cap T)
  BY <1>2, FS_Union
<1>7. Cardinality(U) = Cardinality(S) + Cardinality(T)
  BY <1>3, <1>5, <1>6
<1> QED
  BY <1>4, <1>7 DEF T

\* Blocks of one copy are the same.
LEMMA SameCopy ==
    ASSUME NEW f, NEW n, NEW i \in Nat, NEW j \in Nat, Count(f, n, i + 1) = Count(f, n, j + 1)
    PROVE  Cyclic(f, n, i) = Cyclic(f, n, j)
<1>1. ASSUME NEW a \in Nat, NEW b \in Nat, a <= b, Count(f, n, a + 1) = Count(f, n, b + 1)
      PROVE  Cyclic(f, n, a) = Cyclic(f, n, b)
  <2> DEFINE T == {k \in Nat : Cyclic(f, n, k) = Cyclic(f, n, a)}
  <2>1. a \in T
    OBVIOUS
  <2>2. ASSUME NEW d \in a .. (b - 1), d \in T
        PROVE  d + 1 \in T
    <3>1. d + 1 \in Nat /\ d + 2 \in Nat /\ a + 1 <= d + 1 /\ (d + 1) + 1 <= b + 1 /\ d + 1 # 0
      OBVIOUS
    <3>2. Count(f, n, a + 1) <= Count(f, n, d + 1)
      BY <3>1, CountBounds
    <3>3. Count(f, n, (d + 1) + 1) <= Count(f, n, b + 1)
      <4>1. (d + 1) + 1 \in Nat /\ b + 1 \in Nat
        BY <3>1
      <4> QED
        BY <3>1, <4>1, CountBounds
    <3>4. Count(f, n, a + 1) \in Nat /\ Count(f, n, d + 1) \in Nat
      <4>1. d \in Nat
        OBVIOUS
      <4> QED
        BY <4>1, CountNat
    <3>5. ~Starts(f, n, d + 1)
      <4> SUFFICES ASSUME Starts(f, n, d + 1) PROVE FALSE
        OBVIOUS
      <4>1. Count(f, n, (d + 1) + 1) = Count(f, n, d + 1) + 1
        BY <3>1, CountStep
      <4> QED
        BY <1>1, <3>2, <3>3, <3>4, <4>1
    <3> QED
      <4>1. Cyclic(f, n, d + 1) = Cyclic(f, n, (d + 1) - 1) /\ (d + 1) - 1 = d
        BY <3>1, <3>5 DEF Starts
      <4> QED
        BY <2>2, <3>1, <4>1
  <2> HIDE DEF T
  <2>3. a .. b \subseteq T
    BY <2>1, <2>2, <1>1, Upward
  <2> QED
    BY <2>3, <1>1 DEF T
<1> QED
  BY <1>1

\* A copy begins at one block.
LEMMA OneStart ==
    ASSUME NEW f, NEW n, NEW i \in Nat, NEW j \in Nat,
           Starts(f, n, i), Starts(f, n, j), Count(f, n, i) = Count(f, n, j)
    PROVE  i = j
<1>1. ASSUME NEW a \in Nat, NEW b \in Nat, a < b, Starts(f, n, a)
      PROVE  Count(f, n, a) < Count(f, n, b)
  <2>1. Count(f, n, a + 1) = Count(f, n, a) + 1 /\ Count(f, n, a) \in Nat /\ Count(f, n, b) \in Nat
    BY <1>1, CountStep
  <2>2. Count(f, n, a + 1) <= Count(f, n, b)
    BY <1>1, CountBounds
  <2> QED
    BY <2>1, <2>2
<1>2. Count(f, n, i) \in Nat /\ Count(f, n, j) \in Nat
  BY CountStep
<1> QED
  BY <1>1, <1>2

\* The blocks of two copies in a row are different.
LEMMA NextCopy ==
    ASSUME NEW f, NEW n, NEW i \in Nat, NEW j \in Nat, Count(f, n, j + 1) = Count(f, n, i + 1) + 1
    PROVE  Cyclic(f, n, i) # Cyclic(f, n, j)
<1>1. \A k \in Nat : Count(f, n, k + 1) \in Nat
  BY CountNat
<1>2. i < j
  <2> SUFFICES ASSUME j <= i PROVE FALSE
    OBVIOUS
  <2>1. j + 1 \in Nat /\ i + 1 \in Nat /\ j + 1 <= i + 1
    OBVIOUS
  <2>2. Count(f, n, j + 1) <= Count(f, n, i + 1)
    BY <2>1, CountBounds
  <2> QED
    BY <1>1, <2>2
<1> DEFINE T == {k \in Nat : Count(f, n, k + 1) = Count(f, n, i + 1)}
<1>3. PICK d \in i .. (j - 1) : d \in T /\ d + 1 \notin T
  <2> SUFFICES ASSUME \A d \in i .. (j - 1) : d \in T => d + 1 \in T
               PROVE  FALSE
    OBVIOUS
  <2>1. i \in T
    OBVIOUS
  <2>2. j \notin T
    BY <1>1
  <2> HIDE DEF T
  <2>3. i .. j \subseteq T
    BY <2>1, Upward
  <2> QED
    BY <1>2, <2>2, <2>3
<1>4. d \in Nat /\ d + 1 \in Nat /\ d + 1 # 0 /\ (d + 1) - 1 = d /\ (d + 1) + 1 <= j + 1
  BY <1>3
<1>5. Count(f, n, d + 1) = Count(f, n, i + 1) /\ Count(f, n, (d + 1) + 1) # Count(f, n, i + 1)
  BY <1>3, <1>4
<1> HIDE DEF T
<1>6. Starts(f, n, d + 1) /\ Count(f, n, (d + 1) + 1) = Count(f, n, j + 1)
  <2>1. /\ Starts(f, n, d + 1) => Count(f, n, (d + 1) + 1) = Count(f, n, d + 1) + 1
        /\ ~Starts(f, n, d + 1) => Count(f, n, (d + 1) + 1) = Count(f, n, d + 1)
    BY <1>4, CountStep
  <2> QED
    BY <1>5, <2>1
<1>7. Cyclic(f, n, d) = Cyclic(f, n, i) /\ Cyclic(f, n, d + 1) = Cyclic(f, n, j)
  BY <1>4, <1>5, <1>6, SameCopy
<1>8. Cyclic(f, n, d + 1) # Cyclic(f, n, d)
  BY <1>4, <1>6 DEF Starts
<1> QED
  BY <1>7, <1>8

-----------------------------------------------------------------------------
(* The predicates of the Scheduler, for a step of the loop.                *)

\* Indices of the grid do not wrap around, and the one after the last is 0.
LEMMA Wrap ==
    ASSUME NEW n \in Nat \ {0}, NEW i \in 0 .. (n - 1)
    PROVE  i % n = i /\ (i + n) % n = i
<1>1. i \in Nat /\ i = n * 0 + i /\ 0 <= i /\ i < n
  OBVIOUS
<1>2. i % n = i
  BY <1>1
<1>3. i + n = n * 1 + i
  OBVIOUS
<1>4. (i + n) % n = i
  BY <1>1, <1>3
<1> QED
  BY <1>2, <1>4

\* A block has changed, or will change, if a copy starts there.
LEMMA Changes ==
    ASSUME ConfigInv, step \in 0 .. (num_steps - 1), NEW f
    PROVE  /\ step > 0 => (has_changed(f) <=> Starts(f, num_steps, step))
           /\ step < num_steps - 1 => (will_change_current(f) <=> Starts(f, num_steps, step + 1))
<1>1. num_steps \in Nat \ {0} /\ step \in Nat /\ step % num_steps = step
  BY Wrap DEF ConfigInv
<1>2. ASSUME step > 0
      PROVE  has_changed(f) <=> Starts(f, num_steps, step)
  <2>1. step - 1 \in 0 .. (num_steps - 1) /\ step + num_steps - 1 = (step - 1) + num_steps
    BY <1>1, <1>2
  <2>2. (step - 1) % num_steps = step - 1 /\ Prev = step - 1
    BY <1>1, <2>1, Wrap DEF Prev
  <2> QED
    BY <1>1, <1>2, <2>2 DEF has_changed, Starts, Cyclic
<1>3. ASSUME step < num_steps - 1
      PROVE  will_change_current(f) <=> Starts(f, num_steps, step + 1)
  <2>1. step + 1 \in 0 .. (num_steps - 1) /\ step + 1 # 0 /\ (step + 1) - 1 = step
    BY <1>1, <1>3
  <2>2. (step + 1) % num_steps = step + 1 /\ Ahead(1) = step + 1
    BY <1>1, <2>1, Wrap DEF Ahead
  <2> QED
    BY <1>1, <2>1, <2>2 DEF will_change_current, Starts, Cyclic
<1> QED
  BY <1>2, <1>3

\* The same for the counters of the input.
LEMMA InCountFacts ==
    ASSUME NEW i \in Nat
    PROVE  /\ InCount(0) = 0
           /\ InCount(i) \in Nat /\ InCount(i + 1) \in Nat
           /\ InStarts(i) => InCount(i + 1) = InCount(i) + 1
           /\ ~InStarts(i) => InCount(i + 1) = InCount(i)
           /\ InStarts(0)
<1>1. i + 1 \in Nat
  OBVIOUS
<1> QED
  BY <1>1, CountStep DEF InCount, InStarts, Starts

-----------------------------------------------------------------------------
(* The input.                                                              *)

\* The counters are natural numbers.
LEMMA InNumbers ==
    ASSUME ConfigInv, ProgramInv, InCounts
    PROVE  /\ fetched \in Nat /\ copy_in_slot \in Nat /\ wait_in_slot \in Nat
           /\ waited \in Nat /\ waited \in {wait_in_slot, wait_in_slot + 1}
<1> USE DEF ConfigInv, ProgramInv
<1>1. fetched \in Nat
  BY DEF fetched, Frontier
<1>2. copy_in_slot \in Nat
  BY <1>1, InCountFacts DEF InCounts
<1>3. wait_in_slot \in Nat
  <2>1. CASE AtEnd
    BY <2>1, InCountFacts DEF InCounts
  <2>2. CASE ~AtEnd
    <3>1. InCount(0) = 0 /\ InCount(0 + 1) = InCount(0) + 1
      BY InCountFacts
    <3>2. step + 1 \in Nat /\ 1 <= step + 1
      OBVIOUS
    <3>3. InCount(1) <= InCount(step + 1)
      BY <3>2, CountBounds DEF InCount
    <3>4. InCount(step + 1) \in Nat /\ wait_in_slot = InCount(step + 1) - 1
      BY <2>2, <3>2, InCountFacts DEF InCounts
    <3> QED
      BY <3>1, <3>3, <3>4
  <2> QED
    BY <2>1, <2>2
<1> QED
  BY <1>1, <1>2, <1>3 DEF waited

\* A copy that is due has its own slot among the copies that are due, and it is
\* not the slot of the current step.
LEMMA DueSlots ==
    ASSUME ConfigInv, ProgramInv, InCounts, NEW i \in 0 .. (fetched - 1), Due(i)
    PROVE  /\ InCount(i) \in Nat /\ InCount(i) < copy_in_slot
           /\ InCount(i) % in_count \in 0 .. (in_count - 1)
           /\ \A j \in 0 .. (fetched - 1) :
                 Due(j) /\ InCount(j) % in_count = InCount(i) % in_count => i = j
           /\ waited = wait_in_slot + 1 => wait_in_slot % in_count # InCount(i) % in_count
<1>1. in_count \in Nat \ {0}
  BY DEF ConfigInv
<1>2. /\ fetched \in Nat /\ copy_in_slot \in Nat /\ wait_in_slot \in Nat
      /\ waited \in Nat /\ waited \in {wait_in_slot, wait_in_slot + 1}
      /\ copy_in_slot <= wait_in_slot + in_count
  BY InNumbers DEF InCounts
<1>3. ASSUME NEW j \in 0 .. (fetched - 1), Due(j)
      PROVE  /\ j \in Nat /\ InStarts(j) /\ InCount(j) \in Nat
             /\ waited <= InCount(j) /\ InCount(j) < copy_in_slot
  <2>1. j \in Nat /\ j + 1 \in Nat /\ j + 1 <= fetched
    BY <1>2
  <2>2. InCount(j + 1) <= InCount(fetched)
    BY <1>2, <2>1, CountBounds DEF InCount
  <2>3. InStarts(j) /\ waited <= InCount(j)
    BY <1>2, <1>3, <2>1, InCountFacts DEF Due
  <2>4. InCount(j) \in Nat /\ InCount(j + 1) = InCount(j) + 1
    BY <2>1, <2>3, InCountFacts
  <2>5. copy_in_slot = InCount(fetched)
    BY DEF InCounts
  <2> QED
    BY <1>2, <2>1, <2>2, <2>3, <2>4, <2>5
<1>4. /\ i \in Nat /\ InStarts(i) /\ InCount(i) \in Nat
      /\ waited <= InCount(i) /\ InCount(i) < copy_in_slot
  BY <1>3
<1>5. ASSUME NEW j \in 0 .. (fetched - 1), Due(j), InCount(j) % in_count = InCount(i) % in_count
      PROVE  i = j
  <2>1. /\ j \in Nat /\ InStarts(j) /\ InCount(j) \in Nat
        /\ waited <= InCount(j) /\ InCount(j) < copy_in_slot
    BY <1>3, <1>5
  <2>2. InCount(i) = InCount(j)
    <3>1. CASE InCount(i) <= InCount(j)
      <4>1. InCount(j) < InCount(i) + in_count
        BY <1>1, <1>2, <1>4, <2>1
      <4> QED
        BY <1>1, <1>4, <1>5, <2>1, <3>1, <4>1, SlotsApart
    <3>2. CASE InCount(j) <= InCount(i)
      <4>1. InCount(i) < InCount(j) + in_count
        BY <1>1, <1>2, <1>4, <2>1
      <4> QED
        BY <1>1, <1>4, <1>5, <2>1, <3>2, <4>1, SlotsApart
    <3> QED
      BY <1>4, <2>1, <3>1, <3>2
  <2> QED
    BY <1>4, <2>1, <2>2, OneStart DEF InCount, InStarts
<1>6. ASSUME waited = wait_in_slot + 1
      PROVE  wait_in_slot % in_count # InCount(i) % in_count
  <2>1. wait_in_slot < InCount(i) /\ InCount(i) < wait_in_slot + in_count
    BY <1>1, <1>2, <1>4, <1>6
  <2> QED
    BY <1>1, <1>2, <1>4, <2>1, SlotsApart
<1>7. InCount(i) % in_count \in 0 .. (in_count - 1)
  BY <1>1, <1>4
<1> QED
  BY <1>4, <1>5, <1>6, <1>7

\* A step that starts no copy of the input and waits for none.
LEMMA InputKept ==
    ASSUME InputInv, UNCHANGED <<config, copy_in_slot, window_in, sem_recvs>>,
           \A d \in dmas' : d.dir = "in" => d \in dmas,
           waited' = waited, fetched' = fetched, InCounts', InCurrent'
    PROVE  InputInv'
<1> USE DEF config, InputInv
<1>1. \A i : /\ InCount(i)' = InCount(i) /\ InStarts(i)' = InStarts(i) /\ InAt(i)' = InAt(i)
             /\ Due(i)' = Due(i)
  BY DEF InCount, InStarts, InAt, Due
<1>2. InTypes'
  BY DEF InTypes
<1>3. UnderWay'
  BY <1>1 DEF UnderWay, InCopy
<1>4. InLanded'
  BY <1>1 DEF InLanded
<1> QED
  BY <1>2, <1>3, <1>4

\* The copies that are started for the blocks that are looked at next.
NewCopies(top) == {InCopy(InCount(i), InAt(i)) : i \in {j \in fetched .. (top - 1) : InStarts(j)}}

\* A step that looks at more blocks and starts their copies.
LEMMA MoreCopies ==
    ASSUME ConfigInv, ProgramInv, InputInv,
           UNCHANGED <<config, step, wait_in_slot, window_in, sem_recvs>>,
           NEW top \in Nat, fetched' = top, fetched <= top, waited' = waited, AtEnd' = AtEnd,
           dmas' = dmas \cup NewCopies(top),
           copy_in_slot' = InCount(top), copy_in_slot' <= wait_in_slot + in_count
    PROVE  InputInv'
<1> USE DEF config, InputInv
<1>1. \A i : /\ InCount(i)' = InCount(i) /\ InStarts(i)' = InStarts(i) /\ InAt(i)' = InAt(i)
             /\ Due(i)' = Due(i)
  BY DEF InCount, InStarts, InAt, Due
<1>2. /\ fetched \in Nat /\ copy_in_slot \in Nat /\ wait_in_slot \in Nat
      /\ waited \in Nat /\ waited \in {wait_in_slot, wait_in_slot + 1}
      /\ waited <= copy_in_slot /\ copy_in_slot = InCount(fetched)
  BY InNumbers DEF InCounts
<1>3. in_count \in Nat \ {0} /\ num_steps \in Nat /\ step \in Nat
  BY DEF ConfigInv, ProgramInv
<1>4. InCount(fetched) <= InCount(top) /\ InCount(top) \in Nat
  BY <1>2, CountBounds, InCountFacts DEF InCount
<1>5. InTypes'
  BY DEF InTypes
<1>6. InCounts'
  <2>1. wait_in_slot' = (IF AtEnd' THEN InCount(num_steps)' ELSE InCount(step + 1)' - 1)
    BY <1>1 DEF InCounts
  <2>2. copy_in_slot' = InCount(fetched)'
    BY DEF InCount
  <2>3. waited' <= copy_in_slot'
    BY <1>2, <1>4
  <2> QED
    BY <2>1, <2>2, <2>3 DEF InCounts
<1>7. ASSUME NEW i \in fetched .. (top - 1), InStarts(i)
      PROVE  /\ i \in 0 .. (top - 1) /\ Due(i) /\ sem_recvs[InCount(i) % in_count] = 0
  <2>1. i \in Nat /\ i + 1 \in Nat /\ i + 1 <= top /\ fetched <= i
    BY <1>2
  <2>2. InCount(i) \in Nat /\ InCount(i + 1) = InCount(i) + 1
    BY <1>7, <2>1, InCountFacts
  <2>3. copy_in_slot <= InCount(i)
    BY <1>2, <2>1, CountBounds DEF InCount
  <2>4. InCount(i + 1) <= InCount(top)
    BY <2>1, CountBounds DEF InCount
  <2>5. InCount(i) < wait_in_slot + in_count
    BY <1>2, <1>3, <1>4, <2>2, <2>4
  <2>6. Due(i)
    BY <1>2, <1>7, <2>2, <2>3 DEF Due
  <2>7. InCount(i) % in_count \in 0 .. (in_count - 1)
    BY <1>3, <2>2
  <2>8. ASSUME NEW j \in 0 .. (fetched - 1), Due(j), InCount(i) % in_count = InCount(j) % in_count
        PROVE  FALSE
    <3>1. InCount(j) \in Nat /\ InCount(j) < copy_in_slot
      BY <2>8, DueSlots
    <3>2. waited <= InCount(j)
      BY <1>2, <2>8, <3>1 DEF Due
    <3>3. InCount(j) < InCount(i) /\ InCount(i) < InCount(j) + in_count
      BY <1>2, <1>3, <2>2, <2>3, <2>5, <3>1, <3>2
    <3> QED
      BY <1>3, <2>2, <2>8, <3>1, <3>3, SlotsApart
  <2> QED
    BY <2>1, <2>6, <2>7, <2>8 DEF InLanded
<1>8. UnderWay'
  <2> SUFFICES ASSUME NEW d \in dmas', d.dir = "in"
               PROVE  \E i \in 0 .. (top - 1) :
                        /\ Due(i) /\ d = InCopy(InCount(i), InAt(i))
                        /\ sem_recvs[InCount(i) % in_count] = 0
    BY <1>1 DEF UnderWay, InCopy
  <2>1. CASE d \in dmas
    <3>1. PICK i \in 0 .. (fetched - 1) :
            /\ Due(i) /\ d = InCopy(InCount(i), InAt(i))
            /\ sem_recvs[InCount(i) % in_count] = 0
      BY <2>1 DEF UnderWay
    <3>2. i \in 0 .. (top - 1)
      BY <1>2
    <3> QED
      BY <3>1, <3>2
  <2>2. CASE d \in NewCopies(top)
    <3>1. PICK i \in fetched .. (top - 1) : InStarts(i) /\ d = InCopy(InCount(i), InAt(i))
      BY <2>2 DEF NewCopies
    <3> QED
      BY <1>7, <3>1
  <2> QED
    BY <2>1, <2>2
<1>9. InLanded'
  <2> SUFFICES ASSUME NEW s \in 0 .. (in_count - 1), sem_recvs[s] # 0
               PROVE  /\ sem_recvs[s] = 1
                      /\ \E i \in 0 .. (top - 1) :
                           Due(i) /\ s = InCount(i) % in_count /\ window_in[s] = InAt(i)
    BY <1>1 DEF InLanded
  <2>1. PICK i \in 0 .. (fetched - 1) :
          sem_recvs[s] = 1 /\ Due(i) /\ s = InCount(i) % in_count /\ window_in[s] = InAt(i)
    BY DEF InLanded
  <2>2. i \in 0 .. (top - 1)
    BY <1>2
  <2> QED
    BY <2>1, <2>2
<1>10. InCurrent'
  BY <1>1 DEF InCurrent, InAt
<1> QED
  BY <1>5, <1>6, <1>8, <1>9, <1>10

\* A copy to an input slot completes.
LEMMA CopyInDone ==
    ASSUME ConfigInv, ProgramInv, InputInv, NEW d \in dmas, d.dir = "in", DmaDone(d)
    PROVE  InputInv'
<1> USE DEF config, InputInv
<1>1. /\ UNCHANGED <<config, pc, step, copy_in_slot, wait_in_slot, next_fetch>>
      /\ dmas' = dmas \ {d}
      /\ window_in' = [window_in EXCEPT ![d.slot] = d.block]
      /\ sem_recvs' = [sem_recvs EXCEPT ![d.slot] = @ + 1]
  BY DEF DmaDone
<1>2. \A i : /\ InCount(i)' = InCount(i) /\ InStarts(i)' = InStarts(i) /\ InAt(i)' = InAt(i)
  BY <1>1 DEF InCount, InStarts, InAt
<1>3. fetched' = fetched /\ AtEnd' = AtEnd /\ waited' = waited
  BY <1>1, <1>2 DEF fetched, Frontier, AtEnd, waited, BeforeWait
<1>4. \A i : Due(i)' = Due(i)
  BY <1>2, <1>3 DEF Due
<1>5. PICK k \in 0 .. (fetched - 1) :
        Due(k) /\ d = InCopy(InCount(k), InAt(k)) /\ sem_recvs[InCount(k) % in_count] = 0
  BY DEF UnderWay
<1> DEFINE slot == InCount(k) % in_count
<1>6. d.slot = slot /\ d.block = InAt(k)
  BY <1>5 DEF InCopy
<1>7. slot \in 0 .. (in_count - 1)
  BY <1>5, DueSlots
<1>8. /\ window_in \in [0 .. (in_count - 1) -> InBlocks \cup {NoBlock}]
      /\ sem_recvs \in [0 .. (in_count - 1) -> Nat]
  BY DEF InTypes
<1>9. /\ sem_recvs'[slot] = 1 /\ window_in'[slot] = InAt(k)
      /\ \A s \in 0 .. (in_count - 1) :
            s # slot => sem_recvs'[s] = sem_recvs[s] /\ window_in'[s] = window_in[s]
  BY <1>1, <1>5, <1>6, <1>7, <1>8
<1>10. InAt(k) \in InBlocks
  <2>1. num_steps \in Nat \ {0} /\ k \in Nat
    BY DEF ConfigInv
  <2>2. k % num_steps \in 0 .. (num_steps - 1)
    BY <2>1
  <2> QED
    BY <2>2 DEF InAt, Cyclic, ConfigInv
<1>11. InTypes'
  BY <1>1, <1>6, <1>7, <1>8, <1>10 DEF InTypes
<1> HIDE DEF slot
<1>12. InCounts'
  BY <1>1, <1>2, <1>3 DEF InCounts
<1>13. UnderWay'
  <2> SUFFICES ASSUME NEW e \in dmas, e # d, e.dir = "in"
               PROVE  \E i \in 0 .. (fetched - 1) :
                        /\ Due(i) /\ e = InCopy(InCount(i), InAt(i))
                        /\ sem_recvs'[InCount(i) % in_count] = 0
    BY <1>1, <1>2, <1>3, <1>4 DEF UnderWay, InCopy
  <2>1. PICK i \in 0 .. (fetched - 1) :
          /\ Due(i) /\ e = InCopy(InCount(i), InAt(i))
          /\ sem_recvs[InCount(i) % in_count] = 0
    BY DEF UnderWay
  <2>2. i # k
    BY <1>5, <2>1
  <2>3. InCount(i) % in_count # slot /\ InCount(i) % in_count \in 0 .. (in_count - 1)
    BY <1>5, <2>1, <2>2, DueSlots DEF slot
  <2> QED
    BY <1>9, <2>1, <2>3
<1>14. InLanded'
  <2> SUFFICES ASSUME NEW s \in 0 .. (in_count - 1), sem_recvs'[s] # 0
               PROVE  /\ sem_recvs'[s] = 1
                      /\ \E i \in 0 .. (fetched - 1) :
                           Due(i) /\ s = InCount(i) % in_count /\ window_in'[s] = InAt(i)
    BY <1>1, <1>2, <1>3, <1>4 DEF InLanded
  <2>1. CASE s = slot
    BY <1>5, <1>9, <2>1 DEF slot
  <2>2. CASE s # slot
    BY <1>9, <2>2 DEF InLanded
  <2> QED
    BY <2>1, <2>2
<1>15. InCurrent'
  <2> SUFFICES ASSUME waited = wait_in_slot + 1
               PROVE  window_in'[wait_in_slot % in_count] = InAt(step)
    BY <1>1, <1>2, <1>3 DEF InCurrent, InAt
  <2>1. wait_in_slot % in_count # slot
    BY <1>5, DueSlots DEF slot
  <2>2. wait_in_slot % in_count \in 0 .. (in_count - 1)
    BY InNumbers DEF ConfigInv
  <2> QED
    BY <1>9, <2>1, <2>2 DEF InCurrent
<1> QED
  BY <1>11, <1>12, <1>13, <1>14, <1>15

\* initialize_step starts the copies of the first blocks.
LEMMA InitializeInput ==
    ASSUME ConfigInv, ProgramInv, InputInv, initialize_step
    PROVE  InputInv'
<1> USE DEF config, InputInv
<1>1. /\ pc = "initialize" /\ step = 0 /\ dmas = {} /\ next_fetch = 0
      /\ UNCHANGED <<config, step, wait_in_slot, window_in, sem_recvs>>
      /\ in_count \in Nat \ {0} /\ num_steps \in Nat \ {0} /\ use_lookahead \in BOOLEAN
      /\ use_lookahead => in_count > 1
  BY DEF initialize_step, ProgramInv, ConfigInv
<1>2. /\ InCount(0) = 0 /\ InCount(1) = 1 /\ InStarts(0)
  <2>1. InCount(0) = 0 /\ InStarts(0) /\ InCount(0 + 1) = InCount(0) + 1
    BY InCountFacts
  <2> QED
    BY <2>1
<1>3. fetched = 0 /\ ~AtEnd /\ wait_in_slot = 0 /\ waited = 0
  BY <1>1, <1>2 DEF fetched, AtEnd, InCounts, waited, BeforeWait
<1>4. InStarts(0)'
  BY DEF InStarts, Starts
<1>5. CASE ~use_lookahead
  <2>1. /\ dmas' = {InCopy(Cardinality({j \in {l \in 0 .. (in_count - 2) : Prefetched(l)} : j < i}),
                           in_block[Ahead(i)]) : i \in {l \in 0 .. (in_count - 2) : Prefetched(l)}}
        /\ copy_in_slot' = Cardinality({l \in 0 .. (in_count - 2) : Prefetched(l)})
        /\ pc' = "copy_in"
    BY <1>5 DEF initialize_step
  <2>2. PICK top \in Nat : top = in_count - 1
    BY <1>1
  <2>3. fetched' = top /\ waited' = waited /\ AtEnd' = AtEnd
    BY <1>1, <1>3, <1>4, <1>5, <2>1, <2>2 DEF fetched, Frontier, waited, AtEnd, BeforeWait
  <2>4. ASSUME NEW i \in 0 .. (in_count - 2)
        PROVE  in_block[Ahead(i)] = InAt(i) /\ Prefetched(i) = InStarts(i)
    <3>1. Ahead(i) = i % num_steps /\ Ahead(i - 1) = (i - 1) % num_steps
      BY <1>1 DEF Ahead
    <3> QED
      BY <3>1 DEF Prefetched, InStarts, Starts, InAt, Cyclic
  <2>5. 0 .. (in_count - 2) = 0 .. (top - 1)
    BY <1>1, <2>2
  <2> DEFINE early == {l \in 0 .. (top - 1) : InStarts(l)}
  <2>6. {l \in 0 .. (in_count - 2) : Prefetched(l)} = early
    BY <2>4, <2>5
  <2>7. Cardinality(early) = InCount(top)
    BY DEF InCount, Count, InStarts
  <2>8. ASSUME NEW i \in early
        PROVE  Cardinality({j \in early : j < i}) = InCount(i) /\ in_block[Ahead(i)] = InAt(i)
    <3>1. {j \in early : j < i} = {j \in 0 .. (i - 1) : InStarts(j)}
      BY <2>2
    <3>2. i \in 0 .. (in_count - 2)
      BY <2>5
    <3> QED
      BY <2>4, <3>1, <3>2 DEF InCount, Count, InStarts
  <2>9. early = {j \in fetched .. (top - 1) : InStarts(j)}
    BY <1>3
  <2>10. dmas' = {InCopy(Cardinality({j \in early : j < i}), in_block[Ahead(i)]) : i \in early}
    BY <2>1, <2>6
  <2>11. copy_in_slot' = InCount(top)
    BY <2>1, <2>6, <2>7
  <2> HIDE DEF early
  <2>12. dmas' = {InCopy(InCount(i), InAt(i)) : i \in early}
    BY <2>8, <2>10
  <2>13. dmas' = dmas \cup NewCopies(top)
    BY <1>1, <2>9, <2>12 DEF NewCopies
  <2>14. InCount(top) <= InCount(0) + (top - 0)
    BY <2>2, CountBounds DEF InCount
  <2>15. InCount(top) \in Nat
    BY InCountFacts
  <2>16. copy_in_slot' <= wait_in_slot + in_count
    BY <1>1, <1>2, <1>3, <2>2, <2>11, <2>14, <2>15
  <2> QED
    BY <1>1, <1>3, <2>3, <2>11, <2>13, <2>16, MoreCopies
<1>6. CASE use_lookahead
  <2>1. /\ dmas' = {InCopy(0, in_block[0])} /\ copy_in_slot' = 1 /\ pc' = "lookahead"
        /\ next_fetch' = next_fetch
    BY <1>1, <1>6 DEF initialize_step
  <2>2. fetched' = 1 /\ waited' = waited /\ AtEnd' = AtEnd
    BY <1>1, <1>3, <1>4, <1>6, <2>1 DEF fetched, waited, AtEnd, BeforeWait
  <2>3. InAt(0) = in_block[0]
    BY <1>1 DEF InAt, Cyclic
  <2>4. {j \in fetched .. (1 - 1) : InStarts(j)} = {0}
    BY <1>2, <1>3
  <2>5. dmas' = dmas \cup NewCopies(1)
    BY <1>1, <1>2, <2>1, <2>3, <2>4 DEF NewCopies
  <2>6. copy_in_slot' = InCount(1) /\ copy_in_slot' <= wait_in_slot + in_count /\ fetched <= 1
    BY <1>1, <1>2, <1>3, <2>1
  <2> QED
    BY <1>1, <2>2, <2>5, <2>6, MoreCopies
<1> QED
  BY <1>1, <1>5, <1>6

\* fetch_with_lookahead looks at blocks up to the limit.
LEMMA Lookahead ==
    ASSUME ConfigInv, ProgramInv, InputInv, use_lookahead, pc # "initialize",
           NEW limit \in Nat, limit <= wait_in_slot + in_count, fetch_with_lookahead(limit)
    PROVE  \E top \in Nat :
              /\ fetched <= top /\ top <= num_steps /\ next_fetch' = top - 1
              /\ dmas' = dmas \cup NewCopies(top)
              /\ copy_in_slot' = InCount(top) /\ copy_in_slot' <= wait_in_slot + in_count
<1> DEFINE changed(i) == in_block[i - 1] # in_block[i]
           copied(i) == copy_in_slot + Cardinality({j \in (next_fetch + 1) .. (i - 1) : changed(j)})
           Stops(i) == /\ i = num_steps \/ copied(i) >= limit
                       /\ \A j \in (next_fetch + 1) .. (i - 1) : copied(j) < limit
           stop == CHOOSE i \in (next_fetch + 1) .. num_steps : Stops(i)
<1>1. /\ dmas' = dmas \cup {InCopy(copied(i), in_block[i]) :
                               i \in {j \in (next_fetch + 1) .. (stop - 1) : changed(j)}}
      /\ copy_in_slot' = copied(stop)
      /\ next_fetch' = stop - 1
  BY DEF fetch_with_lookahead
<1>2. /\ num_steps \in Nat \ {0} /\ next_fetch \in 0 .. (num_steps - 1) /\ in_count \in Nat \ {0}
      /\ fetched = next_fetch + 1
  BY DEF ConfigInv, ProgramInv, fetched
<1>3. /\ copy_in_slot \in Nat /\ wait_in_slot \in Nat /\ copy_in_slot = InCount(fetched)
      /\ copy_in_slot <= wait_in_slot + in_count
  BY InNumbers DEF InputInv, InCounts
<1>4. ASSUME NEW j \in (next_fetch + 1) .. (num_steps - 1)
      PROVE  changed(j) = InStarts(j) /\ InAt(j) = in_block[j]
  <2>1. j \in 0 .. (num_steps - 1) /\ j - 1 \in 0 .. (num_steps - 1) /\ j # 0
    BY <1>2
  <2>2. j % num_steps = j /\ (j - 1) % num_steps = j - 1
    BY <1>2, <2>1, Wrap
  <2> QED
    BY <2>1, <2>2 DEF InStarts, Starts, InAt, Cyclic
<1>5. ASSUME NEW i \in (next_fetch + 1) .. num_steps
      PROVE  copied(i) = InCount(i) /\ copied(i) \in Nat
  <2>1. /\ i \in Nat /\ fetched \in Nat /\ fetched <= i
        /\ (next_fetch + 1) .. (i - 1) \subseteq (next_fetch + 1) .. (num_steps - 1)
    BY <1>2
  <2>2. {j \in (next_fetch + 1) .. (i - 1) : changed(j)} = {j \in fetched .. (i - 1) : InStarts(j)}
    BY <1>2, <1>4, <2>1
  <2>3. InCount(i) = InCount(fetched) + Cardinality({j \in fetched .. (i - 1) : InStarts(j)})
    BY <2>1, CountFrom DEF InCount, InStarts
  <2>4. InCount(i) \in Nat
    BY <2>1, InCountFacts
  <2> QED
    BY <1>3, <2>2, <2>3, <2>4
<1> HIDE DEF copied, changed
<1>6. \E i \in (next_fetch + 1) .. num_steps : Stops(i)
  <2> SUFFICES ASSUME \A i \in (next_fetch + 1) .. num_steps : ~Stops(i)
               PROVE  FALSE
    OBVIOUS
  <2> DEFINE T == {i \in Nat : \A j \in (next_fetch + 1) .. (i - 1) : copied(j) < limit}
  <2>1. next_fetch + 1 \in T
    BY <1>2
  <2>2. ASSUME NEW d \in (next_fetch + 1) .. (num_steps - 1), d \in T
        PROVE  d + 1 \in T
    <3>1. d \in (next_fetch + 1) .. num_steps /\ d \in Nat /\ d # num_steps
      BY <1>2
    <3>2. ~(copied(d) >= limit)
      BY <2>2, <3>1
    <3>3. copied(d) < limit
      BY <1>5, <3>1, <3>2
    <3>4. \A j \in (next_fetch + 1) .. ((d + 1) - 1) : j = d \/ j \in (next_fetch + 1) .. (d - 1)
      BY <1>2, <3>1
    <3> QED
      BY <2>2, <3>1, <3>3, <3>4
  <2> HIDE DEF T
  <2>3. (next_fetch + 1) .. num_steps \subseteq T
    <3>1. next_fetch + 1 \in Nat /\ num_steps \in Nat
      BY <1>2
    <3> QED
      BY <2>1, <2>2, <3>1, Upward
  <2>4. num_steps \in (next_fetch + 1) .. num_steps
    BY <1>2
  <2>5. Stops(num_steps)
    BY <2>3, <2>4 DEF T
  <2> QED
    BY <2>4, <2>5
<1> HIDE DEF Stops
<1>7. stop \in (next_fetch + 1) .. num_steps /\ Stops(stop)
  BY <1>6
<1> HIDE DEF stop
<1>8. PICK top \in Nat : top = stop
  BY <1>2, <1>7
<1>9. top \in (next_fetch + 1) .. num_steps
  BY <1>7, <1>8
<1>10. copy_in_slot' = InCount(top) /\ InCount(top) \in Nat
  BY <1>1, <1>5, <1>8, <1>9
<1>11. InCount(top) <= wait_in_slot + in_count
  <2>1. CASE top = fetched
    BY <1>3, <2>1
  <2>2. CASE top # fetched
    <3>1. top - 1 \in (next_fetch + 1) .. (top - 1) /\ top - 1 \in (next_fetch + 1) .. num_steps
      BY <1>2, <1>9, <2>2
    <3>2. copied(top - 1) < limit /\ copied(top - 1) = InCount(top - 1) /\ InCount(top - 1) \in Nat
      BY <1>5, <1>7, <1>8, <3>1 DEF Stops
    <3>3. top - 1 \in Nat /\ top - 1 <= top
      BY <1>2, <3>1
    <3>4. InCount(top) <= InCount(top - 1) + (top - (top - 1))
      BY <3>3, CountBounds DEF InCount
    <3> QED
      BY <1>2, <1>3, <1>10, <3>2, <3>3, <3>4
  <2> QED
    BY <2>1, <2>2
<1>12. dmas' = dmas \cup NewCopies(top)
  <2>1. {j \in (next_fetch + 1) .. (stop - 1) : changed(j)} = {j \in fetched .. (top - 1) : InStarts(j)}
    BY <1>2, <1>4, <1>8, <1>9
  <2>2. \A i \in {j \in fetched .. (top - 1) : InStarts(j)} : copied(i) = InCount(i) /\ in_block[i] = InAt(i)
    BY <1>2, <1>4, <1>5, <1>9
  <2> DEFINE J == {j \in fetched .. (top - 1) : InStarts(j)}
  <2>3. dmas' = dmas \cup {InCopy(copied(i), in_block[i]) : i \in J}
    BY <1>1, <2>1
  <2>4. NewCopies(top) = {InCopy(InCount(i), InAt(i)) : i \in J}
    BY DEF NewCopies
  <2> HIDE DEF J
  <2>5. {InCopy(copied(i), in_block[i]) : i \in J} = {InCopy(InCount(i), InAt(i)) : i \in J}
    BY <2>2 DEF J
  <2> QED
    BY <2>3, <2>4, <2>5
<1>13. fetched <= top /\ top <= num_steps /\ next_fetch' = top - 1
  BY <1>1, <1>2, <1>8, <1>9
<1> QED
  BY <1>10, <1>11, <1>12, <1>13

\* The rest of the prologue with lookahead.
LEMMA InitializeLookaheadInput ==
    ASSUME ConfigInv, ProgramInv, InputInv, InitializeLookahead
    PROVE  InputInv'
<1> USE DEF config
<1>1. /\ pc = "lookahead" /\ pc' = "copy_in" /\ use_lookahead
      /\ UNCHANGED <<config, step, wait_in_slot, window_in, sem_recvs>>
      /\ fetch_with_lookahead(in_count - 1)
      /\ in_count \in Nat \ {0} /\ num_steps \in Nat \ {0}
  BY DEF InitializeLookahead, ProgramInv, ConfigInv
<1>2. PICK limit \in Nat : limit = in_count - 1
  BY <1>1
<1>3. fetch_with_lookahead(limit)
  BY <1>1, <1>2
<1>4. limit <= wait_in_slot + in_count
  BY <1>1, <1>2, InNumbers DEF InputInv
<1>5. PICK top \in Nat :
        /\ fetched <= top /\ top <= num_steps /\ next_fetch' = top - 1
        /\ dmas' = dmas \cup NewCopies(top)
        /\ copy_in_slot' = InCount(top) /\ copy_in_slot' <= wait_in_slot + in_count
  BY <1>1, <1>3, <1>4, Lookahead
<1>6. fetched' = top /\ waited' = waited /\ AtEnd' = AtEnd
  BY <1>1, <1>5 DEF fetched, waited, AtEnd, BeforeWait, InStarts
<1> QED
  BY <1>1, <1>5, <1>6, MoreCopies

\* copy_in with lookahead.
LEMMA CopyInLookahead ==
    ASSUME ConfigInv, ProgramInv, InputInv, copy_in, use_lookahead
    PROVE  InputInv'
<1> USE DEF config
<1>1. /\ pc = "copy_in" /\ pc' = "wait_in"
      /\ UNCHANGED <<config, step, wait_in_slot, window_in, sem_recvs>>
      /\ fetch_with_lookahead(fetch_limit)
      /\ in_count \in Nat \ {0} /\ num_steps \in Nat \ {0}
  BY DEF copy_in, ConfigInv
<1>2. wait_in_slot \in Nat
  BY InNumbers DEF InputInv
<1>3. PICK limit \in Nat : limit = wait_in_slot + in_count
  BY <1>1, <1>2
<1>4. fetch_with_lookahead(limit)
  BY <1>1, <1>3 DEF fetch_limit
<1>5. limit <= wait_in_slot + in_count
  BY <1>3
<1>6. PICK top \in Nat :
        /\ fetched <= top /\ top <= num_steps /\ next_fetch' = top - 1
        /\ dmas' = dmas \cup NewCopies(top)
        /\ copy_in_slot' = InCount(top) /\ copy_in_slot' <= wait_in_slot + in_count
  BY <1>1, <1>4, <1>5, Lookahead
<1>7. fetched' = top /\ waited' = waited /\ AtEnd' = AtEnd
  BY <1>1, <1>6 DEF fetched, waited, AtEnd, BeforeWait, InStarts
<1> QED
  BY <1>1, <1>6, <1>7, MoreCopies

\* Without lookahead, copy_in looks at one block, if there is one left.
LEMMA FrontierStep ==
    ASSUME ConfigInv, ProgramInv
    PROVE  /\ Frontier(step) \in Nat /\ Frontier(step + 1) \in Nat
           /\ out_of_fetch => Frontier(step + 1) = Frontier(step)
           /\ ~out_of_fetch => /\ Frontier(step) = step + in_count - 1
                               /\ Frontier(step + 1) = step + in_count
                               /\ step + in_count <= num_steps
<1>1. in_count \in Nat \ {0} /\ num_steps \in Nat \ {0} /\ step \in 0 .. (num_steps - 1)
  BY DEF ConfigInv, ProgramInv
<1> QED
  BY <1>1 DEF Frontier, out_of_fetch

\* The block that copy_in looks at without lookahead, and when it is copied.
LEMMA CopyInCondition ==
    ASSUME ConfigInv, ProgramInv, ~out_of_fetch
    PROVE  /\ MustCopyIn <=> InStarts(step + in_count - 1)
           /\ FetchStep = step + in_count - 1
           /\ in_block[FetchStep] = InAt(step + in_count - 1)
<1>1. in_count \in Nat \ {0} /\ num_steps \in Nat \ {0} /\ step \in 0 .. (num_steps - 1)
  BY DEF ConfigInv, ProgramInv
<1>2. step + in_count - 1 \in 0 .. (num_steps - 1) /\ step + (in_count - 1) = step + in_count - 1
  BY <1>1 DEF out_of_fetch
<1>3. (step + in_count - 1) % num_steps = step + in_count - 1
  BY <1>1, <1>2, Wrap
<1>4. FetchStep = step + in_count - 1 /\ in_block[FetchStep] = InAt(step + in_count - 1)
  BY <1>2, <1>3 DEF FetchStep, Ahead, InAt, Cyclic
<1>5. CASE in_count = 1
  <2>1. step + in_count - 1 = step
    BY <1>1, <1>5
  <2>2. MustCopyIn <=> (has_changed(in_block) \/ step = 0)
    BY <1>5 DEF MustCopyIn, will_change_fetch, first_step
  <2>3. CASE step = 0
    BY <1>4, <2>1, <2>2, <2>3 DEF InStarts, Starts
  <2>4. CASE step # 0
    <3>1. step > 0
      BY <1>1, <2>4
    <3>2. has_changed(in_block) <=> InStarts(step)
      BY <1>1, <3>1, Changes DEF InStarts
    <3> QED
      BY <1>4, <2>1, <2>2, <2>4, <3>2
  <2> QED
    BY <2>3, <2>4
<1>6. CASE in_count # 1
  <2>1. /\ step + in_count - 2 \in 0 .. (num_steps - 1) /\ step + in_count - 1 # 0
        /\ step + (in_count - 2) = step + in_count - 2 /\ (step + in_count - 1) - 1 = step + in_count - 2
        /\ ~(in_count < 2)
    BY <1>1, <1>2, <1>6
  <2>2. (step + in_count - 2) % num_steps = step + in_count - 2
    BY <1>1, <2>1, Wrap
  <2>3. MustCopyIn <=> in_block[Ahead(in_count - 2)] # in_block[Ahead(in_count - 1)]
    BY <2>1 DEF MustCopyIn, will_change_fetch
  <2>4. Ahead(in_count - 2) = step + in_count - 2 /\ Ahead(in_count - 1) = step + in_count - 1
    BY <1>2, <1>3, <2>1, <2>2 DEF Ahead
  <2>5. InStarts(step + in_count - 1) <=> in_block[step + in_count - 1] # in_block[step + in_count - 2]
    BY <1>3, <2>1, <2>2 DEF InStarts, Starts, Cyclic
  <2> QED
    BY <1>4, <2>3, <2>4, <2>5
<1> QED
  BY <1>5, <1>6

\* copy_in without lookahead.
LEMMA CopyInPlain ==
    ASSUME ConfigInv, ProgramInv, InputInv, copy_in, ~use_lookahead
    PROVE  InputInv'
<1> USE DEF config
<1>1. /\ pc = "copy_in" /\ pc' = "wait_in"
      /\ UNCHANGED <<config, step, wait_in_slot, next_fetch, window_in, sem_recvs>>
      /\ \/ /\ MustCopyIn
            /\ dmas' = dmas \cup {InCopy(copy_in_slot, in_block[FetchStep])}
            /\ copy_in_slot' = copy_in_slot + 1
         \/ ~MustCopyIn /\ UNCHANGED <<dmas, copy_in_slot>>
  BY DEF copy_in
<1>2. in_count \in Nat \ {0} /\ num_steps \in Nat \ {0} /\ step \in 0 .. (num_steps - 1)
  BY DEF ConfigInv, ProgramInv
<1>3. /\ copy_in_slot \in Nat /\ wait_in_slot \in Nat /\ copy_in_slot = InCount(fetched)
      /\ copy_in_slot <= wait_in_slot + in_count /\ wait_in_slot = InCount(step + 1) - 1
  BY <1>1, InNumbers DEF InputInv, InCounts, AtEnd
<1>4. fetched = Frontier(step) /\ fetched' = Frontier(step + 1) /\ waited' = waited /\ AtEnd' = AtEnd
  BY <1>1 DEF fetched, Frontier, waited, AtEnd, BeforeWait, InStarts
<1>5. CASE out_of_fetch
  <2>1. ~MustCopyIn
    BY <1>2, <1>5 DEF MustCopyIn, out_of_fetch
  <2>2. PICK top \in Nat : top = Frontier(step)
    BY FrontierStep
  <2>3. fetched' = top /\ fetched = top
    BY <1>4, <1>5, <2>2, FrontierStep
  <2>4. NewCopies(top) = {}
    BY <2>2, <2>3 DEF NewCopies
  <2> QED
    BY <1>1, <1>3, <1>4, <2>1, <2>3, <2>4, MoreCopies
<1>6. CASE ~out_of_fetch
  <2>1. PICK i \in Nat : i = step + in_count - 1
    BY <1>2
  <2>2. PICK top \in Nat : top = i + 1
    OBVIOUS
  <2>3. fetched = i /\ fetched' = top /\ fetched <= top /\ step + 1 \in Nat /\ step + 1 <= top
    <3>1. Frontier(step) = step + in_count - 1 /\ Frontier(step + 1) = step + in_count
      BY <1>6, FrontierStep
    <3>2. Frontier(step) = i /\ Frontier(step + 1) = top /\ step + 1 \in Nat /\ step + 1 <= top
      BY <1>2, <2>1, <2>2, <3>1
    <3> QED
      BY <1>4, <2>2, <3>2
  <2>4. (MustCopyIn <=> InStarts(i)) /\ in_block[FetchStep] = InAt(i)
    BY <1>6, <2>1, CopyInCondition
  <2>5. i .. (top - 1) = {i}
    BY <2>2
  <2>6. copy_in_slot' = InCount(top) /\ dmas' = dmas \cup NewCopies(top)
    <3>1. CASE MustCopyIn
      <4>1. {j \in i .. (top - 1) : InStarts(j)} = {i}
        BY <2>4, <2>5, <3>1
      <4>2. NewCopies(top) = {InCopy(InCount(i), InAt(i))}
        BY <2>3, <4>1 DEF NewCopies
      <4>3. InCount(top) = InCount(i) + 1
        BY <2>2, <2>4, <3>1, InCountFacts
      <4> QED
        BY <1>1, <1>3, <2>3, <2>4, <3>1, <4>2, <4>3
    <3>2. CASE ~MustCopyIn
      <4>1. {j \in fetched .. (top - 1) : InStarts(j)} = {}
        BY <2>3, <2>4, <2>5, <3>2
      <4>2. NewCopies(top) = {}
        BY <4>1 DEF NewCopies
      <4>3. InCount(top) = InCount(i)
        BY <2>2, <2>4, <3>2, InCountFacts
      <4> QED
        BY <1>1, <1>3, <2>3, <3>2, <4>2, <4>3
    <3> QED
      BY <3>1, <3>2
  <2>7. InCount(top) <= InCount(step + 1) + (top - (step + 1))
    BY <2>3, CountBounds DEF InCount
  <2>8. InCount(top) \in Nat /\ InCount(step + 1) \in Nat
    BY <2>3, InCountFacts
  <2>9. copy_in_slot' <= wait_in_slot + in_count
    BY <1>2, <1>3, <2>1, <2>2, <2>6, <2>7, <2>8
  <2> QED
    BY <1>1, <1>4, <2>3, <2>6, <2>9, MoreCopies
<1> QED
  BY <1>5, <1>6

\* wait_in: the semaphore of the slot tells of the copy of this step.
LEMMA WaitInInput ==
    ASSUME ConfigInv, ProgramInv, InputInv, wait_in
    PROVE  InputInv'
<1> USE DEF config, InputInv
<1> DEFINE slot == wait_in_slot % in_count
<1>1. /\ pc = "wait_in" /\ pc' = "body"
      /\ UNCHANGED <<config, step, copy_in_slot, wait_in_slot, next_fetch, window_in, dmas>>
      /\ \/ /\ has_changed(in_block) \/ first_step
            /\ sem_recvs[slot] > 0
            /\ sem_recvs' = [sem_recvs EXCEPT ![slot] = @ - 1]
         \/ ~(has_changed(in_block) \/ first_step) /\ UNCHANGED sem_recvs
  BY DEF wait_in
<1>2. \A i : /\ InCount(i)' = InCount(i) /\ InStarts(i)' = InStarts(i) /\ InAt(i)' = InAt(i)
  BY <1>1 DEF InCount, InStarts, InAt
<1>3. in_count \in Nat \ {0} /\ num_steps \in Nat \ {0} /\ step \in 0 .. (num_steps - 1)
  BY DEF ConfigInv, ProgramInv
<1>4. /\ copy_in_slot \in Nat /\ wait_in_slot \in Nat /\ copy_in_slot = InCount(fetched)
      /\ copy_in_slot <= wait_in_slot + in_count /\ wait_in_slot = InCount(step + 1) - 1
      /\ waited <= copy_in_slot /\ fetched \in Nat
  BY <1>1, InNumbers DEF InCounts, AtEnd
<1>5. (has_changed(in_block) \/ first_step) <=> InStarts(step)
  <2>1. CASE step = 0
    BY <2>1 DEF first_step, InStarts, Starts
  <2>2. CASE step # 0
    <3>1. step > 0
      BY <1>3, <2>2
    <3> QED
      BY <1>3, <2>2, <3>1, Changes DEF first_step, InStarts
  <2> QED
    BY <2>1, <2>2
<1>6. fetched' = fetched /\ waited' = wait_in_slot + 1 /\ ~AtEnd /\ ~AtEnd'
  BY <1>1 DEF fetched, Frontier, waited, AtEnd, BeforeWait
<1>7. CASE ~InStarts(step)
  <2>1. waited = wait_in_slot + 1
    BY <1>1, <1>7 DEF waited, AtEnd, BeforeWait
  <2>2. UNCHANGED sem_recvs
    BY <1>1, <1>5, <1>7
  <2>3. InCounts'
    BY <1>1, <1>2, <1>6, <2>1 DEF InCounts
  <2>4. InCurrent'
    BY <1>1, <1>2, <1>6, <2>1 DEF InCurrent, InAt
  <2> QED
    BY <1>1, <1>6, <2>1, <2>2, <2>3, <2>4, InputKept
<1>8. CASE InStarts(step)
  <2>1. waited = wait_in_slot
    BY <1>1, <1>8 DEF waited, AtEnd, BeforeWait
  <2>2. sem_recvs[slot] > 0 /\ sem_recvs' = [sem_recvs EXCEPT ![slot] = @ - 1]
    BY <1>1, <1>5, <1>8
  <2>3. slot \in 0 .. (in_count - 1)
    BY <1>3, <1>4
  <2>4. sem_recvs \in [0 .. (in_count - 1) -> Nat]
    BY DEF InTypes
  <2>5. PICK k \in 0 .. (fetched - 1) :
          sem_recvs[slot] = 1 /\ Due(k) /\ slot = InCount(k) % in_count /\ window_in[slot] = InAt(k)
    BY <2>2, <2>3, <2>4 DEF InLanded
  <2>6. InCount(k) \in Nat /\ InCount(k) < copy_in_slot /\ wait_in_slot <= InCount(k) /\ k \in Nat
    BY <1>4, <2>1, <2>5, DueSlots DEF Due
  <2>7. InCount(k) = wait_in_slot
    <3>1. InCount(k) < wait_in_slot + in_count
      BY <1>3, <1>4, <2>6
    <3> QED
      BY <1>3, <1>4, <2>5, <2>6, <3>1, SlotsApart
  <2>8. k = step
    <3>1. InCount(step) = wait_in_slot /\ step \in Nat
      BY <1>3, <1>4, <1>8, InCountFacts
    <3>2. InStarts(k)
      BY <2>5 DEF Due
    <3> QED
      BY <1>8, <2>6, <2>7, <3>1, <3>2, OneStart DEF InCount, InStarts
  <2>9. /\ sem_recvs'[slot] = 0
        /\ \A s \in 0 .. (in_count - 1) : s # slot => sem_recvs'[s] = sem_recvs[s]
        /\ sem_recvs' \in [0 .. (in_count - 1) -> Nat]
    BY <2>2, <2>3, <2>4, <2>5
  <2> HIDE DEF slot
  <2>10. InTypes'
    BY <1>1, <2>9 DEF InTypes
  <2>11. InCounts'
    BY <1>1, <1>2, <1>4, <1>6, <2>6, <2>7 DEF InCounts
  <2>12. ASSUME NEW i \in 0 .. (fetched - 1), Due(i), InCount(i) % in_count # slot
         PROVE  Due(i)'
    <3>1. InCount(i) \in Nat /\ InCount(i) # wait_in_slot
      BY <2>12, DueSlots DEF slot
    <3>2. InStarts(i) /\ InCount(i) >= wait_in_slot
      BY <2>1, <2>12 DEF Due
    <3>3. InCount(i) >= wait_in_slot + 1
      BY <1>4, <3>1, <3>2
    <3> QED
      BY <1>2, <1>6, <3>2, <3>3 DEF Due
  <2>13. UnderWay'
    <3> SUFFICES ASSUME NEW d \in dmas, d.dir = "in"
                 PROVE  \E i \in 0 .. (fetched - 1) :
                          /\ Due(i)' /\ d = InCopy(InCount(i), InAt(i))
                          /\ sem_recvs'[InCount(i) % in_count] = 0
      BY <1>1, <1>2, <1>6 DEF UnderWay, InCopy
    <3>1. PICK i \in 0 .. (fetched - 1) :
            /\ Due(i) /\ d = InCopy(InCount(i), InAt(i))
            /\ sem_recvs[InCount(i) % in_count] = 0
      BY DEF UnderWay
    <3>2. InCount(i) % in_count # slot
      BY <2>5, <3>1
    <3>3. InCount(i) % in_count \in 0 .. (in_count - 1)
      BY <3>1, DueSlots
    <3> QED
      BY <2>9, <2>12, <3>1, <3>2, <3>3
  <2>14. InLanded'
    <3> SUFFICES ASSUME NEW s \in 0 .. (in_count - 1), sem_recvs'[s] # 0
                 PROVE  /\ sem_recvs'[s] = 1
                        /\ \E i \in 0 .. (fetched - 1) :
                             Due(i)' /\ s = InCount(i) % in_count /\ window_in[s] = InAt(i)
      BY <1>1, <1>2, <1>6 DEF InLanded
    <3>1. s # slot /\ sem_recvs'[s] = sem_recvs[s]
      BY <2>9
    <3>2. PICK i \in 0 .. (fetched - 1) :
            sem_recvs[s] = 1 /\ Due(i) /\ s = InCount(i) % in_count /\ window_in[s] = InAt(i)
      BY <3>1 DEF InLanded
    <3> QED
      BY <2>12, <3>1, <3>2
  <2>15. InCurrent'
    BY <1>1, <1>2, <2>5, <2>8 DEF InCurrent, InAt, slot
  <2> QED
    BY <2>10, <2>11, <2>13, <2>14, <2>15
<1> QED
  BY <1>7, <1>8

\* wait_out goes on to the next step: its block is the current one, or the next
\* that is waited for.
LEMMA WaitOutInput ==
    ASSUME ConfigInv, ProgramInv, InputInv, wait_out
    PROVE  InputInv'
<1> USE DEF config
<1>1. /\ pc = "wait_out"
      /\ UNCHANGED <<config, copy_in_slot, next_fetch, window_in, sem_recvs, dmas>>
      /\ wait_in_slot' = wait_in_slot + (IF will_change_current(in_block) \/ last_step THEN 1 ELSE 0)
      /\ IF last_step THEN pc' = "finalize" /\ UNCHANGED step
         ELSE pc' = "copy_in" /\ step' = step + 1
  BY DEF wait_out
<1>2. \A i : /\ InCount(i)' = InCount(i) /\ InStarts(i)' = InStarts(i) /\ InAt(i)' = InAt(i)
  BY <1>1 DEF InCount, InStarts, InAt
<1>3. in_count \in Nat \ {0} /\ num_steps \in Nat \ {0} /\ step \in 0 .. (num_steps - 1)
  BY DEF ConfigInv, ProgramInv
<1>4. /\ copy_in_slot \in Nat /\ wait_in_slot \in Nat /\ copy_in_slot = InCount(fetched)
      /\ copy_in_slot <= wait_in_slot + in_count /\ wait_in_slot = InCount(step + 1) - 1
      /\ waited <= copy_in_slot
  BY <1>1, InNumbers DEF InCounts, InputInv, AtEnd
<1>5. waited = wait_in_slot + 1 /\ window_in[wait_in_slot % in_count] = InAt(step)
  BY <1>1 DEF waited, AtEnd, BeforeWait, InputInv, InCurrent
<1>6. step \in Nat /\ step + 1 \in Nat /\ InCount(step + 1) \in Nat
  BY <1>3, InCountFacts
<1>7. CASE last_step
  <2>1. step = num_steps - 1 /\ step + 1 = num_steps
    BY <1>3, <1>7 DEF last_step
  <2>2. pc' = "finalize" /\ step' = step /\ wait_in_slot' = wait_in_slot + 1
    BY <1>1, <1>7
  <2>3. fetched' = fetched
    BY <1>1, <2>2 DEF fetched, Frontier
  <2>4. AtEnd' /\ waited' = waited
    BY <1>5, <2>2 DEF AtEnd, waited
  <2>5. wait_in_slot' = InCount(num_steps)
    BY <1>4, <1>6, <2>1, <2>2
  <2>6. InCounts'
    BY <1>1, <1>2, <1>3, <1>4, <2>2, <2>3, <2>4, <2>5 DEF InCounts
  <2>7. InCurrent'
    BY <1>4, <2>2, <2>4, <1>5 DEF InCurrent
  <2> QED
    BY <1>1, <2>3, <2>4, <2>6, <2>7, InputKept
<1>8. CASE ~last_step
  <2>1. step < num_steps - 1
    BY <1>3, <1>8 DEF last_step
  <2>2. pc' = "copy_in" /\ step' = step + 1
    BY <1>1, <1>8
  <2>3. will_change_current(in_block) <=> InStarts(step + 1)
    BY <1>3, <2>1, Changes DEF InStarts
  <2>4. fetched' = fetched
    BY <1>1, <2>2 DEF fetched, Frontier
  <2>5. ~AtEnd' /\ BeforeWait' /\ InStarts(step)' = InStarts(step + 1) /\ InAt(step)' = InAt(step + 1)
    BY <1>1, <2>2 DEF AtEnd, BeforeWait, InStarts, InAt
  <2>6. CASE InStarts(step + 1)
    <3>1. wait_in_slot' = wait_in_slot + 1
      BY <1>1, <2>3, <2>6
    <3>2. waited' = waited
      BY <1>5, <2>5, <2>6, <3>1 DEF waited
    <3>3. wait_in_slot' = InCount(step' + 1) - 1
      BY <1>4, <1>6, <2>2, <2>6, <3>1, InCountFacts
    <3>4. InCounts'
      BY <1>1, <1>2, <1>3, <1>4, <2>4, <2>5, <3>1, <3>2, <3>3 DEF InCounts, InCount
    <3>5. InCurrent'
      BY <1>4, <1>5, <3>1, <3>2 DEF InCurrent
    <3> QED
      BY <1>1, <2>4, <3>2, <3>4, <3>5, InputKept
  <2>7. CASE ~InStarts(step + 1)
    <3>1. wait_in_slot' = wait_in_slot
      BY <1>1, <1>4, <1>8, <2>3, <2>7
    <3>2. waited' = waited
      BY <1>5, <2>5, <2>7, <3>1 DEF waited
    <3>3. wait_in_slot' = InCount(step' + 1) - 1
      BY <1>4, <1>6, <2>2, <2>7, <3>1, InCountFacts
    <3>4. InCounts'
      BY <1>1, <1>2, <1>3, <1>4, <2>4, <2>5, <3>1, <3>2, <3>3 DEF InCounts, InCount
    <3>5. InAt(step + 1) = InAt(step)
      <4>1. (step + 1) - 1 = step
        BY <1>6
      <4> QED
        BY <2>7, <4>1 DEF InStarts, Starts, InAt
    <3>6. InCurrent'
      BY <1>1, <1>5, <2>5, <3>1, <3>5 DEF InCurrent
    <3> QED
      BY <1>1, <2>4, <3>2, <3>4, <3>6, InputKept
  <2> QED
    BY <2>6, <2>7
<1> QED
  BY <1>7, <1>8

\* The other steps do not touch the input.
LEMMA OtherInput ==
    ASSUME ConfigInv, ProgramInv, InputInv,
           UNCHANGED <<config, step, inputs>>,
           \/ pc = "body" /\ pc' = "copy_out"
           \/ pc = "copy_out" /\ pc' = "wait_out"
           \/ pc = "finalize" /\ pc' = "done"
           \/ pc' = pc,
           \A d \in dmas' : d.dir = "in" => d \in dmas
    PROVE  InputInv'
<1> USE DEF config, inputs
<1>1. \A i : /\ InCount(i)' = InCount(i) /\ InStarts(i)' = InStarts(i) /\ InAt(i)' = InAt(i)
  BY DEF InCount, InStarts, InAt
<1>2. AtEnd' = AtEnd /\ fetched' = fetched /\ waited' = waited
  <2>1. AtEnd' = AtEnd
    BY DEF AtEnd
  <2>2. fetched' = fetched
    BY DEF fetched, Frontier
  <2>3. BeforeWait' = BeforeWait /\ InStarts(step)' = InStarts(step)
    BY DEF BeforeWait, InStarts
  <2> QED
    BY <2>1, <2>2, <2>3 DEF waited
<1>3. InCounts'
  BY <1>1, <1>2 DEF InputInv, InCounts
<1>4. InCurrent'
  BY <1>1, <1>2 DEF InputInv, InCurrent, InAt
<1> QED
  BY <1>2, <1>3, <1>4, InputKept

-----------------------------------------------------------------------------
(* The output.                                                             *)

\* Visits are numbered from 0, and a new one begins where a copy starts.
LEMMA VisitFacts ==
    ASSUME NEW i \in Nat
    PROVE  /\ Visit(0) = 0 /\ OutStarts(0)
           /\ Visit(i) \in Nat /\ Visit(i + 1) \in Nat /\ OutCount(i + 1) = Visit(i) + 1
           /\ OutStarts(i + 1) => Visit(i + 1) = Visit(i) + 1
           /\ ~OutStarts(i + 1) => Visit(i + 1) = Visit(i)
<1>1. i + 1 \in Nat /\ 0 + 1 \in Nat /\ 0 + 1 <= i + 1 /\ (i + 1) + 1 \in Nat
  OBVIOUS
<1>2. OutStarts(0)
  BY DEF OutStarts, Starts
<1>3. OutCount(0 + 1) = 1
  <2>1. OutCount(0) = 0 /\ 0 \in Nat /\ OutCount(0 + 1) = OutCount(0) + 1
    BY <1>2, CountStep DEF OutCount, OutStarts
  <2> QED
    BY <2>1
<1>4. OutCount(i + 1) \in Nat /\ OutCount(0 + 1) <= OutCount(i + 1)
  BY <1>1, CountNat, CountBounds DEF OutCount
<1>5. /\ OutStarts(i + 1) => OutCount((i + 1) + 1) = OutCount(i + 1) + 1
      /\ ~OutStarts(i + 1) => OutCount((i + 1) + 1) = OutCount(i + 1)
  BY <1>1, CountStep DEF OutCount, OutStarts
<1> QED
  BY <1>2, <1>3, <1>4, <1>5 DEF Visit

\* Visits go on in order.
LEMMA VisitOrder ==
    ASSUME NEW i \in Nat, NEW j \in Nat, i <= j
    PROVE  Visit(i) <= Visit(j)
<1>1. OutCount(i + 1) \in Nat /\ OutCount(j + 1) \in Nat
  BY CountNat DEF OutCount
<1>2. i + 1 \in Nat /\ j + 1 \in Nat /\ i + 1 <= j + 1
  OBVIOUS
<1>3. OutCount(i + 1) <= OutCount(j + 1)
  BY <1>2, CountBounds DEF OutCount
<1> QED
  BY <1>1, <1>3 DEF Visit

\* The steps of a visit are steps with the same block.
LEMMA SameVisit ==
    ASSUME ConfigInv, NEW i \in 0 .. (num_steps - 1), NEW j \in 0 .. (num_steps - 1),
           Visit(i) = Visit(j)
    PROVE  out_block[i] = out_block[j]
<1>1. num_steps \in Nat \ {0} /\ i \in Nat /\ j \in Nat
  BY DEF ConfigInv
<1>2. i % num_steps = i /\ j % num_steps = j
  BY <1>1, Wrap
<1>3. OutCount(i + 1) \in Nat /\ OutCount(j + 1) \in Nat
  BY <1>1, CountNat DEF OutCount
<1>4. OutCount(i + 1) - 1 = OutCount(j + 1) - 1
  BY DEF Visit
<1>5. OutCount(i + 1) = OutCount(j + 1)
  BY <1>3, <1>4
<1>6. Cyclic(out_block, num_steps, i) = Cyclic(out_block, num_steps, j)
  BY <1>1, <1>5, SameCopy DEF OutCount
<1> QED
  BY <1>2, <1>6 DEF Cyclic

\* The counters are natural numbers; no more than two copies are in flight, and
\* no more than one while the body works on the next.
LEMMA OutNumbers ==
    ASSUME ConfigInv, ProgramInv, OutCounts
    PROVE  /\ copy_out_slot \in Nat /\ wait_out_slot \in Nat /\ released \in Nat
           /\ copy_out_slot <= released + 2
           /\ pc \notin {"wait_out", "finalize", "done"} =>
                /\ copy_out_slot = Visit(step) /\ released <= copy_out_slot
                /\ copy_out_slot <= released + 1
           /\ pc = "wait_out" => released <= Visit(step)
<1>1. num_steps \in Nat \ {0} /\ step \in 0 .. (num_steps - 1) /\ step \in Nat
  BY DEF ConfigInv, ProgramInv
<1>2. Visit(step) \in Nat /\ Visit(step + 1) \in {Visit(step), Visit(step) + 1}
  BY <1>1, VisitFacts
<1>3. PICK last \in Nat : last = num_steps - 1
  BY <1>1
<1>4. Visit(last) \in Nat /\ OutCount(num_steps) = Visit(last) + 1
  <2>1. last + 1 = num_steps
    BY <1>1, <1>3
  <2> QED
    BY <2>1, VisitFacts
<1>5. ASSUME ~AtEnd
      PROVE  /\ wait_out_slot \in Nat /\ wait_out_slot <= Visit(step)
             /\ Visit(step) <= wait_out_slot + 1
  <2>1. CASE step = 0
    <3>1. wait_out_slot = 0
      BY <1>5, <2>1 DEF OutCounts
    <3>2. Visit(0) = 0
      BY VisitFacts
    <3> QED
      BY <2>1, <3>1, <3>2
  <2>2. CASE step # 0
    <3>1. PICK p \in Nat : p = step - 1
      BY <1>1, <2>2
    <3>2. wait_out_slot = Visit(p) /\ p + 1 = step
      BY <1>5, <2>2, <1>1, <3>1 DEF OutCounts
    <3>3. Visit(p) \in Nat /\ Visit(p + 1) \in {Visit(p), Visit(p) + 1}
      BY VisitFacts
    <3> QED
      BY <3>2, <3>3
  <2> QED
    BY <2>1, <2>2
<1>6. CASE AtEnd
  <2>1. copy_out_slot = Visit(last) + 1 /\ wait_out_slot = Visit(last)
    BY <1>4, <1>6 DEF OutCounts
  <2> QED
    BY <1>4, <1>6, <2>1 DEF released, AtEnd
<1>7. CASE pc = "wait_out"
  <2>1. ~AtEnd /\ released = wait_out_slot
    BY <1>7 DEF AtEnd, released
  <2>2. copy_out_slot \in Nat /\ copy_out_slot <= Visit(step) + 1
    <3>1. CASE step = num_steps - 1
      <4>1. copy_out_slot = OutCount(num_steps) /\ last = step
        BY <1>3, <1>7, <3>1 DEF OutCounts
      <4> QED
        BY <1>4, <4>1
    <3>2. CASE step # num_steps - 1
      <4>1. copy_out_slot = Visit(step + 1)
        BY <1>7, <2>1, <3>2 DEF OutCounts
      <4> QED
        BY <1>2, <4>1
    <3> QED
      BY <3>1, <3>2
  <2> QED
    BY <1>2, <1>5, <1>7, <2>1, <2>2
<1>8. CASE ~AtEnd /\ pc # "wait_out"
  <2>1. copy_out_slot = Visit(step) /\ released = wait_out_slot
    BY <1>8 DEF OutCounts, AtEnd, released
  <2> QED
    BY <1>2, <1>5, <1>8, <2>1
<1> QED
  BY <1>6, <1>7, <1>8

\* A step that has nothing to do with the output.
LEMMA OutputKept ==
    ASSUME OutputInv, UNCHANGED <<config, outputs>>,
           \A d \in dmas \cup dmas' : d.dir = "out" => (d \in dmas <=> d \in dmas'),
           released' = released, OutCounts', OutCurrent'
    PROVE  OutputInv'
<1> USE DEF config, outputs, OutputInv
<1>1. \A i : Visit(i)' = Visit(i) /\ OutCopy(i)' = OutCopy(i)
  BY DEF Visit, OutCount, OutCopy
<1>2. \A m : VisitSteps(m)' = VisitSteps(m)
  BY <1>1 DEF VisitSteps
<1>3. OutTypes'
  BY DEF OutTypes
<1>4. OutFlight'
  BY <1>1, <1>2 DEF OutFlight
<1>5. OutLanded'
  BY DEF OutLanded
<1>6. \A m : Written(m)' = Written(m)
  BY DEF Written
<1>7. \A b : ArrivedSteps(b)' = ArrivedSteps(b)
  BY <1>1, <1>6 DEF ArrivedSteps
<1>8. HbmInv'
  BY <1>1, <1>2, <1>7 DEF HbmInv
<1> QED
  BY <1>3, <1>4, <1>5, <1>8

\* The steps before the body, and the copies of the input.
LEMMA BeforeOutput ==
    ASSUME ConfigInv, ProgramInv, OutputInv, UNCHANGED <<config, step, outputs>>,
           \A d \in dmas \cup dmas' : d.dir = "out" => (d \in dmas <=> d \in dmas'),
           \/ pc \in {"initialize", "lookahead"} /\ pc' \in {"lookahead", "copy_in"}
           \/ pc = "copy_in" /\ pc' = "wait_in"
           \/ pc = "wait_in" /\ pc' = "body"
           \/ pc' = pc
    PROVE  OutputInv'
<1> USE DEF config, outputs
<1>1. \A i : Visit(i)' = Visit(i) /\ OutStarts(i)' = OutStarts(i) /\ OutCount(i)' = OutCount(i)
  BY DEF Visit, OutCount, OutStarts
<1>2. released' = released /\ AtEnd' = AtEnd /\ (pc' = "wait_out" <=> pc = "wait_out")
  BY DEF released, AtEnd
<1>3. OutCounts'
  BY <1>1, <1>2 DEF OutputInv, OutCounts, Visit, OutCount
<1>4. OutCurrent'
  <2>1. CASE pc \in {"initialize", "lookahead"} /\ pc' \in {"lookahead", "copy_in"}
    <3>1. step' = 0
      BY <2>1 DEF ProgramInv
    <3>2. OutStarts(step)'
      BY <3>1 DEF OutStarts, Starts
    <3> QED
      BY <2>1, <3>2 DEF OutCurrent
  <2>2. CASE pc \in {"copy_in", "wait_in"} /\ pc' \in {"wait_in", "body"}
    BY <1>1, <2>2 DEF OutputInv, OutCurrent, Visit, OutCount, OutStarts
  <2>3. CASE pc' = pc
    BY <1>1, <2>3 DEF OutputInv, OutCurrent, Visit, OutCount, OutStarts
  <2> QED
    BY <2>1, <2>2, <2>3
<1> QED
  BY <1>2, <1>3, <1>4, OutputKept

\* When a new visit begins, or goes on to the next step.
LEMMA OutputChanges ==
    ASSUME ConfigInv, ProgramInv
    PROVE  /\ (has_changed(out_block) /\ ~first_step) <=> (step > 0 /\ OutStarts(step))
           /\ (first_step \/ has_changed(out_block)) <=> OutStarts(step)
           /\ MustCopyOut <=> (step = num_steps - 1 \/ OutStarts(step + 1))
<1>1. num_steps \in Nat \ {0} /\ step \in 0 .. (num_steps - 1) /\ step \in Nat
  BY DEF ConfigInv, ProgramInv
<1>2. step > 0 => (has_changed(out_block) <=> OutStarts(step))
  BY <1>1, Changes DEF OutStarts
<1>3. step < num_steps - 1 => (will_change_current(out_block) <=> OutStarts(step + 1))
  BY <1>1, Changes DEF OutStarts
<1>4. step = 0 => OutStarts(step)
  BY DEF OutStarts, Starts
<1>5. (step = 0 \/ step > 0) /\ (step = num_steps - 1 \/ step < num_steps - 1)
  BY <1>1
<1>6. ~(step = 0 /\ step > 0)
  BY <1>1
<1> QED
  BY <1>2, <1>3, <1>4, <1>5, <1>6 DEF first_step, last_step, MustCopyOut

\* The body works on the slot of its visit, which no copy reads.
LEMMA BodyOutput ==
    ASSUME ConfigInv, ProgramInv, OutputInv, Body
    PROVE  OutputInv'
<1> USE DEF config, OutputInv
<1> DEFINE slot == copy_out_slot % 2
           old == window_out[slot]
           new == IF OutStarts(step) THEN {step} ELSE old \cup {step}
<1>1. /\ pc = "body" /\ pc' = "copy_out"
      /\ UNCHANGED <<config, step, copy_out_slot, wait_out_slot, sem_sends, hbm_out, dmas>>
  BY DEF Body
<1>2. window_out' = [window_out EXCEPT ![slot] = new]
  <2>1. out_count = 2
    BY DEF ConfigInv
  <2> QED
    BY <2>1, OutputChanges DEF Body
<1>3. num_steps \in Nat \ {0} /\ step \in 0 .. (num_steps - 1) /\ step \in Nat
  BY DEF ConfigInv, ProgramInv
<1>4. \A i : Visit(i)' = Visit(i) /\ OutCopy(i)' = OutCopy(i) /\ OutStarts(i)' = OutStarts(i)
             /\ OutCount(i)' = OutCount(i)
  BY <1>1 DEF Visit, OutCount, OutCopy, OutStarts
<1>5. \A m : VisitSteps(m)' = VisitSteps(m)
  BY <1>1, <1>4 DEF VisitSteps
<1>6. released' = released /\ ~AtEnd /\ ~AtEnd'
  BY <1>1 DEF released, AtEnd
<1>7. /\ copy_out_slot \in Nat /\ released \in Nat /\ copy_out_slot = Visit(step)
      /\ copy_out_slot <= released + 1
  BY <1>1, OutNumbers
<1>8. slot \in 0 .. 1 /\ slot = Visit(step) % 2
  BY <1>7
<1>9. window_out \in [0 .. 1 -> SUBSET Nat]
  BY DEF OutTypes
<1>10. old \in SUBSET Nat /\ new \in SUBSET Nat
  BY <1>3, <1>8, <1>9
<1> HIDE DEF new, old
<1>11. /\ window_out' \in [0 .. 1 -> SUBSET Nat] /\ window_out'[slot] = new
       /\ \A s \in 0 .. 1 : s # slot => window_out'[s] = window_out[s]
  BY <1>2, <1>8, <1>9, <1>10
<1> HIDE DEF slot
<1>12. OutTypes'
  BY <1>1, <1>11 DEF OutTypes
<1>13. OutCounts'
  BY <1>1, <1>4, <1>6 DEF OutCounts, Visit, OutCount
<1>14. OutFlight'
  <2> SUFFICES ASSUME NEW d \in dmas, d.dir = "out"
               PROVE  \E e \in 0 .. (num_steps - 1) :
                        /\ d = OutCopy(e) /\ Visit(e) \in released .. (copy_out_slot - 1)
                        /\ sem_sends[Visit(e) % 2] = 0
                        /\ window_out'[Visit(e) % 2] = VisitSteps(Visit(e))
    BY <1>1, <1>4, <1>5, <1>6 DEF OutFlight
  <2>1. PICK e \in 0 .. (num_steps - 1) :
          /\ d = OutCopy(e) /\ Visit(e) \in released .. (copy_out_slot - 1)
          /\ sem_sends[Visit(e) % 2] = 0
          /\ window_out[Visit(e) % 2] = VisitSteps(Visit(e))
    BY DEF OutFlight
  <2>2. Visit(e) \in Nat /\ Visit(e) < Visit(step) /\ Visit(step) < Visit(e) + 2 /\ Visit(step) \in Nat
    BY <1>7, <2>1
  <2>3. Visit(e) % 2 # slot
    BY <1>8, <2>2, SlotsApart
  <2>4. Visit(e) % 2 \in 0 .. 1
    BY <2>2
  <2> QED
    BY <1>11, <2>1, <2>3, <2>4
<1>15. OutLanded'
  BY <1>1, <1>6 DEF OutLanded
<1>16. OutCurrent'
  <2>1. new = {t \in 0 .. step : Visit(t) = Visit(step)}
    <3>1. CASE OutStarts(step)
      <4>1. ASSUME NEW t \in 0 .. step, t # step
            PROVE  Visit(t) # Visit(step)
        <5>1. PICK p \in Nat : p = step - 1
          BY <1>3, <4>1
        <5>2. t \in Nat /\ t <= p /\ p + 1 = step
          BY <1>3, <4>1, <5>1
        <5>3. Visit(t) <= Visit(p) /\ Visit(step) = Visit(p) + 1 /\ Visit(t) \in Nat /\ Visit(p) \in Nat
          BY <3>1, <5>2, VisitOrder, VisitFacts
        <5> QED
          BY <5>3
      <4>2. step \in 0 .. step
        BY <1>3
      <4> QED
        BY <3>1, <4>1, <4>2 DEF new
    <3>2. CASE ~OutStarts(step)
      <4>1. old = {t \in 0 .. (step - 1) : Visit(t) = Visit(step)}
        BY <1>1, <1>8, <3>2 DEF OutCurrent, old
      <4>2. 0 .. step = (0 .. (step - 1)) \cup {step}
        BY <1>3
      <4>3. new = old \cup {step}
        BY <3>2 DEF new
      <4> QED
        BY <4>1, <4>2, <4>3
    <3> QED
      BY <3>1, <3>2
  <2>2. window_out'[Visit(step) % 2] = {t \in 0 .. step : Visit(t) = Visit(step)}
    BY <1>8, <1>11, <2>1
  <2> QED
    BY <1>1, <1>4, <2>2 DEF OutCurrent, Visit, OutCount
<1>17. HbmInv'
  <2>1. \A m : Written(m)' = Written(m)
    BY <1>1 DEF Written
  <2>2. \A b : ArrivedSteps(b)' = ArrivedSteps(b)
    BY <1>1, <1>4, <2>1 DEF ArrivedSteps
  <2> QED
    BY <1>1, <1>4, <1>5, <2>2 DEF HbmInv
<1> QED
  BY <1>12, <1>13, <1>14, <1>15, <1>16, <1>17

\* copy_out starts the copy of a visit that has come to its end.
LEMMA CopyOutOutput ==
    ASSUME ConfigInv, ProgramInv, OutputInv, copy_out
    PROVE  OutputInv'
<1> USE DEF config, OutputInv
<1>1. /\ pc = "copy_out" /\ pc' = "wait_out"
      /\ UNCHANGED <<config, step, wait_out_slot, window_out, sem_sends, hbm_out>>
  BY DEF copy_out
<1>2. num_steps \in Nat \ {0} /\ step \in 0 .. (num_steps - 1) /\ step \in Nat /\ out_count = 2
  BY DEF ConfigInv, ProgramInv
<1>3. \A i : Visit(i)' = Visit(i) /\ OutCopy(i)' = OutCopy(i) /\ OutStarts(i)' = OutStarts(i)
             /\ OutCount(i)' = OutCount(i)
  BY <1>1 DEF Visit, OutCount, OutCopy, OutStarts
<1>4. \A m : VisitSteps(m)' = VisitSteps(m)
  BY <1>1, <1>3 DEF VisitSteps
<1>5. released' = released /\ ~AtEnd /\ ~AtEnd'
  BY <1>1 DEF released, AtEnd
<1>6. /\ copy_out_slot \in Nat /\ released \in Nat /\ copy_out_slot = Visit(step)
      /\ released <= copy_out_slot /\ copy_out_slot <= released + 1
  BY <1>1, OutNumbers
<1>7. window_out[Visit(step) % 2] = {t \in 0 .. step : Visit(t) = Visit(step)}
  BY <1>1 DEF OutCurrent
<1>8. OutCurrent'
  BY <1>1, <1>3, <1>7 DEF OutCurrent, Visit, OutCount
<1>9. CASE ~MustCopyOut
  <2>1. UNCHANGED <<dmas, copy_out_slot>>
    BY <1>9 DEF copy_out
  <2>2. step # num_steps - 1 /\ ~OutStarts(step + 1)
    BY <1>9, OutputChanges
  <2>3. Visit(step + 1) = Visit(step)
    BY <1>2, <2>2, VisitFacts
  <2>4. copy_out_slot' = Visit(step + 1)'
    BY <1>1, <1>6, <2>1, <2>3 DEF Visit, OutCount
  <2>5. OutCounts'
    BY <1>1, <1>3, <1>5, <2>2, <2>4 DEF OutCounts, Visit, OutCount
  <2>6. UNCHANGED <<config, outputs>>
    BY <1>1, <2>1 DEF outputs
  <2> QED
    BY <1>5, <1>8, <2>1, <2>5, <2>6, OutputKept
<1>10. CASE MustCopyOut
  <2>1. dmas' = dmas \cup {OutCopy(step)} /\ copy_out_slot' = copy_out_slot + 1
    <3>1. /\ dmas' = dmas \cup {[dir |-> "out", n |-> copy_out_slot, block |-> out_block[step],
                                 slot |-> copy_out_slot % out_count]}
          /\ copy_out_slot' = copy_out_slot + 1
      BY <1>10 DEF copy_out
    <3> QED
      BY <1>2, <1>6, <3>1 DEF OutCopy
  <2>2. step = num_steps - 1 \/ OutStarts(step + 1)
    BY <1>10, OutputChanges
  <2>3. OutCounts'
    <3>1. CASE step = num_steps - 1
      <4>1. step + 1 = num_steps /\ OutCount(step + 1) = Visit(step) + 1
        BY <1>2, <3>1, VisitFacts
      <4>2. copy_out_slot' = OutCount(num_steps)
        BY <1>6, <2>1, <4>1
      <4> QED
        BY <1>1, <1>3, <1>5, <3>1, <4>2 DEF OutCounts, Visit, OutCount
    <3>2. CASE step # num_steps - 1
      <4>1. Visit(step + 1) = Visit(step) + 1
        BY <1>2, <2>2, <3>2, VisitFacts
      <4>2. copy_out_slot' = Visit(step + 1)'
        BY <1>1, <1>6, <2>1, <4>1 DEF Visit, OutCount
      <4> QED
        BY <1>1, <1>3, <1>5, <3>2, <4>2 DEF OutCounts, Visit, OutCount
    <3> QED
      BY <3>1, <3>2
  <2>4. OutTypes'
    BY <1>1 DEF OutTypes
  <2>5. window_out[Visit(step) % 2] = VisitSteps(Visit(step))
    <3>1. ASSUME NEW t \in 0 .. (num_steps - 1), t > step
          PROVE  Visit(t) # Visit(step)
      <4>1. step + 1 \in Nat /\ t \in Nat /\ step + 1 <= t /\ step # num_steps - 1
        BY <1>2, <3>1
      <4>2. Visit(step + 1) = Visit(step) + 1 /\ Visit(step) \in Nat
        BY <1>2, <2>2, <4>1, VisitFacts
      <4>3. Visit(step + 1) <= Visit(t) /\ Visit(t) \in Nat
        BY <4>1, VisitOrder, VisitFacts
      <4> QED
        BY <4>2, <4>3
    <3>2. \A t \in 0 .. (num_steps - 1) : t \in 0 .. step \/ t > step
      BY <1>2
    <3>3. 0 .. step \subseteq 0 .. (num_steps - 1)
      BY <1>2
    <3> QED
      BY <1>7, <3>1, <3>2, <3>3 DEF VisitSteps
  <2>6. sem_sends[Visit(step) % 2] = 0
    <3>1. Visit(step) % 2 \in 0 .. 1
      BY <1>6
    <3>2. ASSUME NEW m \in released .. (copy_out_slot - 1), Visit(step) % 2 = m % 2
          PROVE  FALSE
      <4>1. m \in Nat /\ Visit(step) \in Nat /\ m < Visit(step) /\ Visit(step) < m + 2
        BY <1>6
      <4>2. 2 \in Nat \ {0} /\ m <= Visit(step)
        BY <4>1
      <4>3. m = Visit(step)
        BY <3>2, <4>1, <4>2, SlotsApart
      <4> QED
        BY <4>1, <4>3
    <3> QED
      BY <3>1, <3>2 DEF OutLanded
  <2>7. OutFlight'
    <3> SUFFICES ASSUME NEW d \in dmas', d.dir = "out"
                 PROVE  \E e \in 0 .. (num_steps - 1) :
                          /\ d = OutCopy(e) /\ Visit(e) \in released .. copy_out_slot
                          /\ sem_sends[Visit(e) % 2] = 0
                          /\ window_out[Visit(e) % 2] = VisitSteps(Visit(e))
      <4>1. copy_out_slot' - 1 = copy_out_slot
        BY <1>6, <2>1
      <4> QED
        BY <1>1, <1>3, <1>4, <1>5, <4>1 DEF OutFlight
    <3>1. CASE d \in dmas
      <4>1. PICK e \in 0 .. (num_steps - 1) :
              /\ d = OutCopy(e) /\ Visit(e) \in released .. (copy_out_slot - 1)
              /\ sem_sends[Visit(e) % 2] = 0
              /\ window_out[Visit(e) % 2] = VisitSteps(Visit(e))
        BY <3>1 DEF OutFlight
      <4>2. Visit(e) \in released .. copy_out_slot
        BY <1>6, <4>1
      <4> QED
        BY <4>1, <4>2
    <3>2. CASE d = OutCopy(step)
      <4>1. Visit(step) \in released .. copy_out_slot
        BY <1>6
      <4> QED
        BY <1>2, <2>5, <2>6, <3>2, <4>1
    <3> QED
      BY <2>1, <3>1, <3>2
  <2>8. OutLanded'
    <3>1. released .. (copy_out_slot - 1) \subseteq released .. (copy_out_slot' - 1)
      BY <1>6, <2>1
    <3> QED
      BY <1>1, <1>5, <3>1 DEF OutLanded
  <2>9. HbmInv'
    <3>1. ASSUME NEW e \in 0 .. (num_steps - 1)
          PROVE  Written(Visit(e))' = Written(Visit(e))
      <4>1. Visit(e) \in Nat /\ Visit(e)' = Visit(e)
        BY <1>3, VisitFacts
      <4>2. CASE Visit(e) = Visit(step)
        <5>1. OutCopy(step) \in dmas' /\ OutCopy(step).dir = "out" /\ OutCopy(step).n = Visit(e)
          BY <2>1, <4>2 DEF OutCopy
        <5>2. ~(Visit(e) < copy_out_slot)
          BY <1>6, <4>1, <4>2
        <5> QED
          BY <4>1, <5>1, <5>2 DEF Written
      <4>3. CASE Visit(e) # Visit(step)
        <5>1. Visit(e) < copy_out_slot' <=> Visit(e) < copy_out_slot
          BY <1>6, <2>1, <4>1, <4>3
        <5>2. (\A d \in dmas' : d.dir = "out" => d.n # Visit(e))
                <=> (\A d \in dmas : d.dir = "out" => d.n # Visit(e))
          BY <2>1, <4>3 DEF OutCopy
        <5> QED
          BY <4>1, <5>1, <5>2 DEF Written
      <4> QED
        BY <4>2, <4>3
    <3>2. \A b : ArrivedSteps(b)' = ArrivedSteps(b)
      BY <1>1, <3>1 DEF ArrivedSteps
    <3> QED
      BY <1>1, <1>3, <1>4, <3>2 DEF HbmInv
  <2> QED
    BY <1>8, <2>3, <2>4, <2>7, <2>8, <2>9
<1> QED
  BY <1>9, <1>10

\* A wait for the oldest copy to HBM that has not been waited for.
LEMMA AwaitOutFacts ==
    ASSUME ConfigInv, ProgramInv, OutputInv, AwaitOut, pc \in {"wait_out", "finalize"},
           UNCHANGED <<config, copy_out_slot, window_out, hbm_out, dmas>>,
           released' = wait_out_slot + 1
    PROVE  OutTypes' /\ OutFlight' /\ OutLanded' /\ HbmInv'
<1> USE DEF config, OutputInv
<1> DEFINE slot == wait_out_slot % 2
<1>1. sem_sends[slot] > 0 /\ sem_sends' = [sem_sends EXCEPT ![slot] = @ - 1]
  BY DEF AwaitOut, ConfigInv
<1>2. /\ wait_out_slot \in Nat /\ released = wait_out_slot /\ copy_out_slot \in Nat
      /\ copy_out_slot <= wait_out_slot + 2
  BY OutNumbers DEF released
<1>3. slot \in 0 .. 1
  BY <1>2
<1>4. sem_sends \in [0 .. 1 -> Nat]
  BY DEF OutTypes
<1>5. sem_sends[slot] = 1
  BY <1>1, <1>3, <1>4 DEF OutLanded
<1>6. /\ sem_sends' \in [0 .. 1 -> Nat] /\ sem_sends'[slot] = 0
      /\ \A s \in 0 .. 1 : s # slot => sem_sends'[s] = sem_sends[s]
  BY <1>1, <1>3, <1>4, <1>5
<1> HIDE DEF slot
<1>7. \A i : Visit(i)' = Visit(i) /\ OutCopy(i)' = OutCopy(i)
  BY DEF Visit, OutCount, OutCopy
<1>8. \A m : VisitSteps(m)' = VisitSteps(m)
  BY <1>7 DEF VisitSteps
<1>9. OutTypes'
  BY <1>6 DEF OutTypes
<1>10. OutFlight'
  <2> SUFFICES ASSUME NEW d \in dmas, d.dir = "out"
               PROVE  \E e \in 0 .. (num_steps - 1) :
                        /\ d = OutCopy(e) /\ Visit(e) \in (wait_out_slot + 1) .. (copy_out_slot - 1)
                        /\ sem_sends'[Visit(e) % 2] = 0
                        /\ window_out[Visit(e) % 2] = VisitSteps(Visit(e))
    BY <1>7, <1>8 DEF OutFlight
  <2>1. PICK e \in 0 .. (num_steps - 1) :
          /\ d = OutCopy(e) /\ Visit(e) \in released .. (copy_out_slot - 1)
          /\ sem_sends[Visit(e) % 2] = 0
          /\ window_out[Visit(e) % 2] = VisitSteps(Visit(e))
    BY DEF OutFlight
  <2>2. Visit(e) % 2 # slot
    BY <1>5, <2>1
  <2>3. Visit(e) \in Nat /\ Visit(e) # wait_out_slot
    BY <1>2, <2>1, <2>2 DEF slot
  <2>4. Visit(e) \in (wait_out_slot + 1) .. (copy_out_slot - 1) /\ Visit(e) % 2 \in 0 .. 1
    BY <1>2, <2>1, <2>3
  <2> QED
    BY <1>6, <2>1, <2>2, <2>4
<1>11. OutLanded'
  <2> SUFFICES ASSUME NEW s \in 0 .. 1, sem_sends'[s] # 0
               PROVE  /\ sem_sends'[s] = 1
                      /\ \E m \in (wait_out_slot + 1) .. (copy_out_slot - 1) : s = m % 2
    BY DEF OutLanded
  <2>1. s # slot /\ sem_sends'[s] = sem_sends[s]
    BY <1>6
  <2>2. PICK m \in released .. (copy_out_slot - 1) : sem_sends[s] = 1 /\ s = m % 2
    BY <2>1 DEF OutLanded
  <2>3. m # wait_out_slot
    BY <2>1, <2>2 DEF slot
  <2>4. m \in (wait_out_slot + 1) .. (copy_out_slot - 1)
    BY <1>2, <2>2, <2>3
  <2> QED
    BY <2>1, <2>2, <2>4
<1>12. HbmInv'
  <2>1. \A m : Written(m)' = Written(m)
    BY DEF Written
  <2>2. \A b : ArrivedSteps(b)' = ArrivedSteps(b)
    BY <1>7, <2>1 DEF ArrivedSteps
  <2> QED
    BY <1>7, <1>8, <2>2 DEF HbmInv
<1> QED
  BY <1>9, <1>10, <1>11, <1>12

\* wait_out waits for the visit before the one that has just begun.
LEMMA WaitOutOutput ==
    ASSUME ConfigInv, ProgramInv, OutputInv, wait_out
    PROVE  OutputInv'
<1> USE DEF config, OutputInv
<1>1. /\ pc = "wait_out"
      /\ UNCHANGED <<config, copy_out_slot, window_out, hbm_out, dmas>>
      /\ \/ has_changed(out_block) /\ ~first_step /\ AwaitOut /\ wait_out_slot' = wait_out_slot + 1
         \/ (~has_changed(out_block) \/ first_step) /\ UNCHANGED <<sem_sends, wait_out_slot>>
      /\ IF last_step THEN pc' = "finalize" /\ UNCHANGED step
         ELSE pc' = "copy_in" /\ step' = step + 1
  BY DEF wait_out
<1>2. num_steps \in Nat \ {0} /\ step \in 0 .. (num_steps - 1) /\ step \in Nat
  BY DEF ConfigInv, ProgramInv
<1>3. \A i : Visit(i)' = Visit(i) /\ OutCopy(i)' = OutCopy(i) /\ OutStarts(i)' = OutStarts(i)
             /\ OutCount(i)' = OutCount(i)
  BY <1>1 DEF Visit, OutCount, OutCopy, OutStarts
<1>4. \A m : VisitSteps(m)' = VisitSteps(m)
  BY <1>1, <1>3 DEF VisitSteps
<1>5. released = wait_out_slot /\ released' = wait_out_slot' /\ ~AtEnd
  BY <1>1 DEF released, AtEnd
<1>6. wait_out_slot' = Visit(step)
  <2>1. CASE step > 0 /\ OutStarts(step)
    <3>1. wait_out_slot' = wait_out_slot + 1
      BY <1>1, <2>1, OutputChanges
    <3>2. PICK p \in Nat : p = step - 1
      BY <1>2, <2>1
    <3>3. p + 1 = step /\ wait_out_slot = Visit(p)
      BY <1>2, <1>5, <2>1, <3>2 DEF OutCounts
    <3> QED
      BY <2>1, <3>1, <3>3, VisitFacts
  <2>2. CASE ~(step > 0 /\ OutStarts(step))
    <3>1. wait_out_slot' = wait_out_slot
      BY <1>1, <2>2, OutputChanges
    <3>2. CASE step = 0
      <4>1. wait_out_slot = 0
        BY <1>5, <3>2 DEF OutCounts
      <4> QED
        BY <3>1, <3>2, <4>1, VisitFacts
    <3>3. CASE step # 0
      <4>1. PICK p \in Nat : p = step - 1
        BY <1>2, <3>3
      <4>2. p + 1 = step /\ wait_out_slot = Visit(p) /\ ~OutStarts(p + 1)
        BY <1>2, <1>5, <2>2, <3>3, <4>1 DEF OutCounts
      <4> QED
        BY <3>1, <4>2, VisitFacts
    <3> QED
      BY <3>2, <3>3
  <2> QED
    BY <2>1, <2>2
<1>7. OutTypes' /\ OutFlight' /\ OutLanded' /\ HbmInv'
  <2>1. CASE AwaitOut /\ wait_out_slot' = wait_out_slot + 1
    BY <1>1, <1>5, <2>1, AwaitOutFacts
  <2>2. CASE UNCHANGED <<sem_sends, wait_out_slot>>
    <3>1. released' = released
      BY <1>5, <2>2
    <3>2. OutTypes'
      BY <1>1, <2>2 DEF OutTypes
    <3>3. OutFlight'
      BY <1>1, <1>3, <1>4, <2>2, <3>1 DEF OutFlight
    <3>4. OutLanded'
      BY <1>1, <2>2, <3>1 DEF OutLanded
    <3>5. \A m : Written(m)' = Written(m)
      BY <1>1 DEF Written
    <3>6. \A b : ArrivedSteps(b)' = ArrivedSteps(b)
      BY <1>1, <1>3, <3>5 DEF ArrivedSteps
    <3>7. HbmInv'
      BY <1>1, <1>3, <1>4, <3>6 DEF HbmInv
    <3> QED
      BY <3>2, <3>3, <3>4, <3>7
  <2> QED
    BY <1>1, <2>1, <2>2
<1>8. OutCounts' /\ OutCurrent'
  <2>1. CASE last_step
    <3>1. pc' = "finalize" /\ step' = step /\ step = num_steps - 1 /\ step + 1 = num_steps
      BY <1>1, <1>2, <2>1 DEF last_step
    <3>2. copy_out_slot' = OutCount(num_steps) /\ OutCount(num_steps) = Visit(step) + 1 /\ Visit(step) \in Nat
      BY <1>1, <1>2, <3>1, VisitFacts DEF OutCounts
    <3>3. wait_out_slot' = OutCount(num_steps) - 1
      BY <1>6, <3>2
    <3>4. OutCounts'
      BY <1>1, <1>3, <3>1, <3>2, <3>3 DEF OutCounts, AtEnd
    <3> QED
      BY <3>1, <3>4 DEF OutCurrent
  <2>2. CASE ~last_step
    <3>1. pc' = "copy_in" /\ step' = step + 1 /\ step # num_steps - 1 /\ step' # 0 /\ step' - 1 = step
      BY <1>1, <1>2, <2>2 DEF last_step
    <3>2. copy_out_slot' = Visit(step + 1)
      BY <1>1, <1>5, <3>1 DEF OutCounts
    <3>3. ~AtEnd'
      BY <3>1 DEF AtEnd
    <3>4. copy_out_slot' = Visit(step)' /\ wait_out_slot' = Visit(step - 1)'
      BY <1>1, <1>6, <3>1, <3>2 DEF Visit, OutCount
    <3>5. OutCounts'
      BY <3>1, <3>3, <3>4 DEF OutCounts
    <3>6. OutCurrent'
      <4> SUFFICES ASSUME ~OutStarts(step + 1)
                   PROVE  window_out[Visit(step + 1) % 2]
                            = {t \in 0 .. step : Visit(t) = Visit(step + 1)}
        BY <1>1, <1>3, <3>1 DEF OutCurrent, OutStarts, Visit, OutCount
      <4>1. Visit(step + 1) = Visit(step)
        BY <1>2, VisitFacts
      <4> QED
        BY <1>1, <4>1 DEF OutCurrent
    <3> QED
      BY <3>5, <3>6
  <2> QED
    BY <2>1, <2>2
<1> QED
  BY <1>7, <1>8

\* finalize waits for the last visit.
LEMMA FinalizeOutput ==
    ASSUME ConfigInv, ProgramInv, OutputInv, finalize
    PROVE  OutputInv'
<1> USE DEF config, OutputInv
<1>1. /\ pc = "finalize" /\ pc' = "done" /\ AwaitOut
      /\ UNCHANGED <<config, step, copy_out_slot, wait_out_slot, window_out, hbm_out, dmas>>
  BY DEF finalize
<1>2. released' = wait_out_slot + 1
  BY <1>1 DEF released
<1>3. OutTypes' /\ OutFlight' /\ OutLanded' /\ HbmInv'
  BY <1>1, <1>2, AwaitOutFacts
<1>4. OutCounts'
  <2>1. OutCount(num_steps)' = OutCount(num_steps) /\ AtEnd /\ AtEnd'
    BY <1>1 DEF OutCount, AtEnd
  <2> QED
    BY <1>1, <2>1 DEF OutCounts
<1>5. OutCurrent'
  BY <1>1 DEF OutCurrent
<1> QED
  BY <1>3, <1>4, <1>5

\* A copy to HBM completes: no later visit of its block has arrived before.
LEMMA CopyOutDone ==
    ASSUME ConfigInv, ProgramInv, OutputInv, NEW d \in dmas, d.dir = "out", DmaDone(d)
    PROVE  OutputInv'
<1> USE DEF config, OutputInv
<1>1. /\ UNCHANGED <<config, pc, step, copy_out_slot, wait_out_slot, window_out>>
      /\ dmas' = dmas \ {d}
      /\ hbm_out' = [hbm_out EXCEPT ![d.block] = window_out[d.slot]]
      /\ sem_sends' = [sem_sends EXCEPT ![d.slot] = @ + 1]
  BY DEF DmaDone
<1>2. \A i : Visit(i)' = Visit(i) /\ OutCopy(i)' = OutCopy(i) /\ OutStarts(i)' = OutStarts(i)
             /\ OutCount(i)' = OutCount(i)
  BY <1>1 DEF Visit, OutCount, OutCopy, OutStarts
<1>3. \A m : VisitSteps(m)' = VisitSteps(m)
  BY <1>1, <1>2 DEF VisitSteps
<1>4. released' = released /\ AtEnd' = AtEnd
  BY <1>1 DEF released, AtEnd
<1>5. PICK k \in 0 .. (num_steps - 1) :
        /\ d = OutCopy(k) /\ Visit(k) \in released .. (copy_out_slot - 1)
        /\ sem_sends[Visit(k) % 2] = 0
        /\ window_out[Visit(k) % 2] = VisitSteps(Visit(k))
  BY DEF OutFlight
<1> DEFINE slot == Visit(k) % 2
<1>0. PICK block : block = out_block[k]
  OBVIOUS
<1>6. d.slot = slot /\ d.block = block /\ d.n = Visit(k)
  BY <1>0, <1>5 DEF OutCopy
<1>7. /\ num_steps \in Nat \ {0} /\ k \in Nat /\ Visit(k) \in Nat /\ block \in OutBlocks
      /\ released \in Nat /\ copy_out_slot \in Nat /\ copy_out_slot <= released + 2
  <2>1. num_steps \in Nat \ {0} /\ k \in Nat
    BY DEF ConfigInv
  <2>2. Visit(k) \in Nat
    BY <2>1, VisitFacts
  <2>3. block \in OutBlocks
    BY <1>0 DEF ConfigInv
  <2>4. released \in Nat /\ copy_out_slot \in Nat /\ copy_out_slot <= released + 2
    BY OutNumbers
  <2> QED
    BY <2>1, <2>2, <2>3, <2>4
<1>8. slot \in 0 .. 1
  BY <1>7
<1>9. /\ sem_sends \in [0 .. 1 -> Nat] /\ hbm_out \in [OutBlocks -> SUBSET Nat]
      /\ VisitSteps(Visit(k)) \in SUBSET Nat
  BY DEF OutTypes, VisitSteps
<1> HIDE DEF slot
<1>10. window_out[slot] = VisitSteps(Visit(k)) /\ sem_sends[slot] = 0
  BY <1>5 DEF slot
<1>11. /\ sem_sends' \in [0 .. 1 -> Nat] /\ sem_sends'[slot] = 1
       /\ \A s \in 0 .. 1 : s # slot => sem_sends'[s] = sem_sends[s]
  BY <1>1, <1>6, <1>8, <1>9, <1>10
<1>12. /\ hbm_out' \in [OutBlocks -> SUBSET Nat] /\ hbm_out'[block] = VisitSteps(Visit(k))
       /\ \A b \in OutBlocks : b # block => hbm_out'[b] = hbm_out[b]
  BY <1>1, <1>6, <1>7, <1>9, <1>10
<1>13. OutTypes'
  BY <1>1, <1>11, <1>12 DEF OutTypes
<1>14. OutCounts'
  BY <1>1, <1>2, <1>4 DEF OutCounts, Visit, OutCount
<1>15. ASSUME NEW i \in Nat, NEW j \in Nat, i < num_steps, j < num_steps,
              Visit(i) = Visit(j)
       PROVE  out_block[i] = out_block[j]
  <2>1. i \in 0 .. (num_steps - 1) /\ j \in 0 .. (num_steps - 1)
    BY <1>7, <1>15
  <2> QED
    BY <1>15, <2>1, SameVisit
<1>16. \A e \in 0 .. (num_steps - 1) : e \in Nat /\ e < num_steps /\ Visit(e) \in Nat
  BY <1>7, VisitFacts
<1>17. OutFlight'
  <2> SUFFICES ASSUME NEW o \in dmas, o # d, o.dir = "out"
               PROVE  \E e \in 0 .. (num_steps - 1) :
                        /\ o = OutCopy(e) /\ Visit(e) \in released .. (copy_out_slot - 1)
                        /\ sem_sends'[Visit(e) % 2] = 0
                        /\ window_out[Visit(e) % 2] = VisitSteps(Visit(e))
    BY <1>1, <1>2, <1>3, <1>4 DEF OutFlight
  <2>1. PICK e \in 0 .. (num_steps - 1) :
          /\ o = OutCopy(e) /\ Visit(e) \in released .. (copy_out_slot - 1)
          /\ sem_sends[Visit(e) % 2] = 0
          /\ window_out[Visit(e) % 2] = VisitSteps(Visit(e))
    BY DEF OutFlight
  <2>2. Visit(e) # Visit(k)
    <3> SUFFICES ASSUME Visit(e) = Visit(k) PROVE FALSE
      OBVIOUS
    <3>1. out_block[e] = out_block[k]
      BY <1>15, <1>16
    <3> QED
      BY <1>5, <2>1, <3>1 DEF OutCopy
  <2>3. Visit(e) % 2 # slot
    <3> SUFFICES ASSUME Visit(e) % 2 = Visit(k) % 2 PROVE FALSE
      BY DEF slot
    <3>1. Visit(e) \in Nat /\ 2 \in Nat \ {0}
      BY <1>16
    <3>2. CASE Visit(e) <= Visit(k)
      <4>1. Visit(k) < Visit(e) + 2
        BY <1>5, <1>7, <2>1, <3>1
      <4> QED
        BY <1>7, <2>2, <3>1, <3>2, <4>1, SlotsApart
    <3>3. CASE Visit(k) <= Visit(e)
      <4>1. Visit(e) < Visit(k) + 2
        BY <1>5, <1>7, <2>1, <3>1
      <4> QED
        BY <1>7, <2>2, <3>1, <3>3, <4>1, SlotsApart
    <3> QED
      BY <1>7, <3>1, <3>2, <3>3
  <2>4. Visit(e) % 2 \in 0 .. 1
    BY <1>16
  <2> QED
    BY <1>11, <2>1, <2>3, <2>4
<1>18. OutLanded'
  <2> SUFFICES ASSUME NEW s \in 0 .. 1, sem_sends'[s] # 0
               PROVE  /\ sem_sends'[s] = 1
                      /\ \E m \in released .. (copy_out_slot - 1) : s = m % 2
    BY <1>1, <1>4 DEF OutLanded
  <2>1. CASE s = slot
    BY <1>5, <1>11, <2>1 DEF slot
  <2>2. CASE s # slot
    BY <1>11, <2>2 DEF OutLanded
  <2> QED
    BY <2>1, <2>2
<1>19. OutCurrent'
  BY <1>1, <1>2 DEF OutCurrent, Visit, OutCount, OutStarts
<1>20. HbmInv'
  <2>1. ASSUME NEW e \in 0 .. (num_steps - 1)
        PROVE  Written(Visit(e))' <=> (Written(Visit(e)) \/ Visit(e) = Visit(k))
    <3>1. Visit(e)' = Visit(e)
      BY <1>2
    <3>2. CASE Visit(e) = Visit(k)
      <4>1. Visit(e) < copy_out_slot
        BY <1>5, <1>7, <3>2
      <4>2. ASSUME NEW o \in dmas, o # d, o.dir = "out", o.n = Visit(k)
            PROVE  FALSE
        <5>1. PICK i \in 0 .. (num_steps - 1) : o = OutCopy(i)
          BY <4>2 DEF OutFlight
        <5>2. Visit(i) = Visit(k)
          BY <4>2, <5>1 DEF OutCopy
        <5>3. out_block[i] = out_block[k]
          BY <1>15, <1>16, <5>2
        <5> QED
          BY <1>5, <4>2, <5>1, <5>2, <5>3 DEF OutCopy
      <4> QED
        BY <1>1, <3>1, <3>2, <4>1, <4>2 DEF Written
    <3>3. CASE Visit(e) # Visit(k)
      BY <1>1, <1>6, <3>1, <3>3 DEF Written
    <3> QED
      BY <3>2, <3>3
  <2>2. \A b : ArrivedSteps(b)' = {e \in 0 .. (num_steps - 1) :
                  out_block[e] = b /\ (Written(Visit(e)) \/ Visit(e) = Visit(k))}
    BY <1>1, <2>1 DEF ArrivedSteps, Written, Visit, OutCount
  <2>3. \A b \in OutBlocks : b # block => ArrivedSteps(b)' = ArrivedSteps(b)
    <3>1. \A e \in 0 .. (num_steps - 1) : Visit(e) = Visit(k) => out_block[e] = block
      <4> SUFFICES ASSUME NEW e \in 0 .. (num_steps - 1), Visit(e) = Visit(k)
                   PROVE  out_block[e] = out_block[k]
        BY <1>0
      <4>1. e \in Nat /\ e < num_steps /\ k < num_steps
        BY <1>16
      <4> QED
        BY <1>7, <1>15, <4>1
    <3> QED
      BY <2>2, <3>1 DEF ArrivedSteps
  <2>4. k \in ArrivedSteps(block)'
    BY <1>0, <2>2
  <2>5. ASSUME NEW e \in ArrivedSteps(block)'
        PROVE  e \in 0 .. (num_steps - 1) /\ Visit(e) <= Visit(k)
    <3>1. e \in 0 .. (num_steps - 1) /\ out_block[e] = block /\ (Written(Visit(e)) \/ Visit(e) = Visit(k))
      BY <2>2, <2>5
    <3>2. e \in Nat /\ Visit(e) \in Nat
      BY <1>16, <3>1
    <3>3. ASSUME Visit(e) > Visit(k) PROVE FALSE
      <4>1. Visit(e) < copy_out_slot
        BY <1>7, <3>1, <3>2, <3>3 DEF Written
      <4>2. Visit(e) = Visit(k) + 1
        BY <1>5, <1>7, <3>2, <3>3, <4>1
      <4>3. OutCount(e + 1) \in Nat /\ OutCount(k + 1) \in Nat
        BY <1>7, <3>2, CountNat DEF OutCount
      <4>4. OutCount(e + 1) = OutCount(k + 1) + 1
        BY <4>2, <4>3 DEF Visit
      <4>5. Cyclic(out_block, num_steps, k) # Cyclic(out_block, num_steps, e)
        BY <1>7, <3>2, <4>4, NextCopy DEF OutCount
      <4>6. k % num_steps = k /\ e % num_steps = e
        BY <1>5, <1>7, <3>1, Wrap
      <4> QED
        BY <1>0, <3>1, <4>5, <4>6 DEF Cyclic
    <3> QED
      BY <1>7, <3>1, <3>2, <3>3
  <2> SUFFICES ASSUME NEW b \in OutBlocks
               PROVE  /\ ArrivedSteps(b)' = {} => hbm_out'[b] = {}
                      /\ \A e \in ArrivedSteps(b)' :
                            (\A o \in ArrivedSteps(b)' : Visit(o) <= Visit(e)) =>
                                hbm_out'[b] = VisitSteps(Visit(e))
    BY <1>2, <1>3 DEF HbmInv
  <2>6. CASE b = block
    <3>1. ASSUME NEW e \in ArrivedSteps(block)', \A o \in ArrivedSteps(block)' : Visit(o) <= Visit(e)
          PROVE  Visit(e) = Visit(k)
      <4>1. Visit(e) <= Visit(k) /\ Visit(k) <= Visit(e) /\ e \in 0 .. (num_steps - 1)
        BY <2>4, <2>5, <3>1
      <4>2. Visit(e) \in Nat
        BY <1>16, <4>1
      <4> QED
        BY <1>7, <4>1, <4>2
    <3> QED
      BY <1>12, <2>4, <2>6, <3>1
  <2>7. CASE b # block
    BY <1>12, <2>3, <2>7 DEF HbmInv
  <2> QED
    BY <2>6, <2>7
<1> QED
  BY <1>13, <1>14, <1>17, <1>18, <1>19, <1>20

-----------------------------------------------------------------------------
(* The steps of the pipeline.                                              *)

\* What the fetching steps add to the copies in flight are copies of the input.
LEMMA Fetching ==
    ASSUME Working, initialize_step \/ InitializeLookahead \/ copy_in
    PROVE  /\ dmas \subseteq dmas' /\ \A d \in dmas' : d \in dmas \/ d.dir = "in"
           /\ next_fetch' \in 0 .. (num_steps - 1)
<1> USE DEF Working
<1>1. num_steps \in Nat \ {0} /\ next_fetch \in 0 .. (num_steps - 1) /\ in_count \in Nat \ {0}
  BY DEF ConfigInv, ProgramInv
<1>2. CASE initialize_step
  <2>1. dmas = {} /\ next_fetch' = next_fetch
    BY <1>2 DEF initialize_step, ProgramInv
  <2>2. \A d \in dmas' : d.dir = "in"
    <3>1. \A n, b : InCopy(n, b).dir = "in"
      BY DEF InCopy
    <3>2. CASE use_lookahead /\ in_count > 1
      <4>1. dmas' = {InCopy(0, in_block[0])}
        BY <1>1, <1>2, <3>2 DEF initialize_step
      <4> QED
        BY <3>1, <4>1
    <3>3. CASE ~(use_lookahead /\ in_count > 1)
      <4> DEFINE early == {i \in 0 .. (in_count - 2) : Prefetched(i)}
                 number(i) == Cardinality({j \in early : j < i})
      <4>1. dmas' = {InCopy(number(i), in_block[Ahead(i)]) : i \in early}
        BY <1>1, <1>2, <3>3 DEF initialize_step
      <4> HIDE DEF early, number
      <4> QED
        BY <3>1, <4>1
    <3> QED
      BY <3>2, <3>3
  <2> QED
    BY <1>1, <2>1, <2>2
<1>3. ASSUME use_lookahead, pc # "initialize", NEW limit \in Nat,
             limit <= wait_in_slot + in_count, fetch_with_lookahead(limit)
      PROVE  /\ dmas \subseteq dmas' /\ \A d \in dmas' : d \in dmas \/ d.dir = "in"
             /\ next_fetch' \in 0 .. (num_steps - 1)
  <2>1. PICK top \in Nat :
          /\ fetched <= top /\ top <= num_steps /\ next_fetch' = top - 1
          /\ dmas' = dmas \cup NewCopies(top)
    BY <1>3, Lookahead
  <2>2. fetched = next_fetch + 1
    BY <1>3 DEF fetched
  <2>3. \A d \in NewCopies(top) : d.dir = "in"
    BY DEF NewCopies, InCopy
  <2>4. next_fetch' \in 0 .. (num_steps - 1)
    BY <1>1, <2>1, <2>2
  <2> QED
    BY <2>1, <2>3, <2>4
<1>4. wait_in_slot \in Nat
  BY InNumbers DEF InputInv
<1>5. CASE InitializeLookahead
  <2>1. pc = "lookahead" /\ fetch_with_lookahead(in_count - 1)
    BY <1>5 DEF InitializeLookahead
  <2>2. use_lookahead /\ in_count - 1 \in Nat /\ in_count - 1 <= wait_in_slot + in_count
    BY <1>1, <1>4, <2>1 DEF ProgramInv
  <2> QED
    BY <1>3, <2>1, <2>2
<1>6. CASE copy_in
  <2>1. CASE use_lookahead
    <3>1. pc = "copy_in" /\ fetch_with_lookahead(fetch_limit)
      BY <1>6, <2>1 DEF copy_in
    <3>2. fetch_limit \in Nat /\ fetch_limit <= wait_in_slot + in_count
      BY <1>1, <1>4 DEF fetch_limit
    <3> QED
      BY <1>3, <2>1, <3>1, <3>2
  <2>2. CASE ~use_lookahead
    <3>1. next_fetch' = next_fetch /\ (dmas' = dmas \/ \E n, b : dmas' = dmas \cup {InCopy(n, b)})
      BY <1>6, <2>2 DEF copy_in
    <3> QED
      BY <1>1, <3>1 DEF InCopy
  <2> QED
    BY <2>1, <2>2
<1> QED
  BY <1>2, <1>5, <1>6

\* The steps keep the configuration and take the program from one place to the
\* next.
LEMMA ControlStep ==
    ASSUME Working, Next
    PROVE  ConfigInv' /\ ProgramInv'
<1> USE DEF Working
<1>1. UNCHANGED config
  BY DEF Next, CoreStep, initialize_step, InitializeLookahead, copy_in, wait_in, Body, copy_out,
         wait_out, finalize, DmaDone
<1>2. ConfigInv'
  BY <1>1 DEF ConfigInv, config
<1>3. /\ num_steps \in Nat \ {0} /\ num_steps' = num_steps /\ use_lookahead' = use_lookahead
      /\ step \in 0 .. (num_steps - 1)
  BY <1>1 DEF ConfigInv, ProgramInv, config
<1>4. CASE initialize_step \/ InitializeLookahead \/ copy_in
  <2>1. /\ dmas \subseteq dmas' /\ \A d \in dmas' : d \in dmas \/ d.dir = "in"
        /\ next_fetch' \in 0 .. (num_steps - 1)
    BY <1>4, Fetching
  <2>2. /\ step' = step
        /\ \/ pc \in {"initialize", "lookahead"} /\ pc' = "copy_in"
           \/ pc = "initialize" /\ pc' = "lookahead" /\ use_lookahead
           \/ pc = "copy_in" /\ pc' = "wait_in"
    BY <1>4 DEF initialize_step, InitializeLookahead, copy_in
  <2>3. \A d \in dmas' : d.dir \in {"in", "out"}
    BY <2>1 DEF ProgramInv
  <2> QED
    BY <1>2, <1>3, <2>1, <2>2, <2>3 DEF ProgramInv, AtEnd
<1>5. ASSUME \A d \in dmas' : d \in dmas \/ d.dir = "out", next_fetch' = next_fetch,
             pc # "initialize", pc' \notin {"initialize", "lookahead"},
             pc' \in {"copy_in", "wait_in", "body", "copy_out", "wait_out", "finalize", "done"},
             step' \in 0 .. (num_steps - 1), AtEnd' => step' = num_steps - 1
      PROVE  ProgramInv'
  <2>1. \A d \in dmas' : d.dir \in {"in", "out"}
    BY <1>5 DEF ProgramInv
  <2>2. next_fetch' \in 0 .. (num_steps' - 1) /\ step' \in 0 .. (num_steps' - 1)
        /\ (AtEnd' => step' = num_steps' - 1)
    BY <1>3, <1>5 DEF ProgramInv
  <2> QED
    BY <1>5, <2>1, <2>2 DEF ProgramInv
<1>6. CASE wait_in \/ Body \/ copy_out
  <2>1. /\ step' = step /\ next_fetch' = next_fetch
        /\ \/ pc = "wait_in" /\ pc' = "body"
           \/ pc = "body" /\ pc' = "copy_out"
           \/ pc = "copy_out" /\ pc' = "wait_out"
    BY <1>6 DEF wait_in, Body, copy_out, inputs
  <2>2. \A d \in dmas' : d \in dmas \/ d.dir = "out"
    BY <1>6 DEF wait_in, Body, copy_out
  <2>3. ~AtEnd'
    BY <2>1 DEF AtEnd
  <2> QED
    BY <1>2, <1>3, <1>5, <2>1, <2>2, <2>3
<1>7. CASE wait_out
  <2>1. dmas' = dmas /\ next_fetch' = next_fetch /\ pc = "wait_out"
    BY <1>7 DEF wait_out
  <2>2. CASE last_step
    <3>1. step' = step /\ pc' = "finalize" /\ step = num_steps - 1
      BY <1>7, <2>2 DEF wait_out, last_step
    <3> QED
      BY <1>2, <1>3, <1>5, <2>1, <3>1
  <2>3. CASE ~last_step
    <3>1. step' = step + 1 /\ pc' = "copy_in" /\ step # num_steps - 1
      BY <1>7, <2>3 DEF wait_out, last_step
    <3>2. step' \in 0 .. (num_steps - 1) /\ ~AtEnd'
      BY <1>3, <3>1 DEF AtEnd
    <3> QED
      BY <1>2, <1>3, <1>5, <2>1, <3>1, <3>2
  <2> QED
    BY <2>2, <2>3
<1>8. CASE finalize
  <2>1. dmas' = dmas /\ next_fetch' = next_fetch /\ pc = "finalize" /\ pc' = "done" /\ step' = step
    BY <1>8 DEF finalize, inputs
  <2>2. step = num_steps - 1
    BY <2>1 DEF ProgramInv, AtEnd
  <2> QED
    BY <1>2, <1>3, <1>5, <2>1, <2>2
<1>9. ASSUME NEW d \in dmas, DmaDone(d)
      PROVE  ProgramInv'
  <2>1. dmas' \subseteq dmas /\ pc # "initialize" /\ UNCHANGED <<pc, step, next_fetch>>
    BY <1>9 DEF DmaDone, ProgramInv
  <2>2. AtEnd' = AtEnd
    BY <2>1 DEF AtEnd
  <2> QED
    BY <1>3, <2>1, <2>2 DEF ProgramInv
<1> QED
  BY <1>2, <1>4, <1>6, <1>7, <1>8, <1>9 DEF Next, CoreStep

\* A body reads the block of its step, which its slot has held since wait_in.
LEMMA SeenStep ==
    ASSUME Working, Next
    PROVE  SeenInv'
<1> USE DEF Working
<1>1. /\ num_steps \in Nat \ {0} /\ step \in 0 .. (num_steps - 1) /\ step \in Nat
      /\ in_block \in [0 .. (num_steps - 1) -> InBlocks]
  BY DEF ConfigInv, ProgramInv
<1>2. CASE Body
  <2>1. waited = wait_in_slot + 1
    BY <1>2 DEF Body, waited, AtEnd, BeforeWait
  <2>2. window_in[wait_in_slot % in_count] = in_block[step]
    <3>1. window_in[wait_in_slot % in_count] = InAt(step) /\ step % num_steps = step
      BY <1>1, <2>1, Wrap DEF InputInv, InCurrent
    <3> QED
      BY <3>1 DEF InAt, Cyclic
  <2>3. /\ pc = "body" /\ pc' = "copy_out" /\ step' = step /\ in_block' = in_block
        /\ seen' = Append(seen, in_block[step])
    BY <1>2, <2>2 DEF Body, config
  <2>4. seen \in Seq(InBlocks) /\ Len(seen) = step /\ in_block[step] \in InBlocks
    BY <1>1, <2>3 DEF SeenInv
  <2>5. /\ seen' \in Seq(InBlocks) /\ Len(seen') = step + 1 /\ seen'[step + 1] = in_block[step]
        /\ \A i \in 1 .. step : seen'[i] = seen[i]
    BY <1>1, <2>3, <2>4
  <2>6. ASSUME NEW i \in 1 .. Len(seen')
        PROVE  seen'[i] = in_block[i - 1]
    <3>1. CASE i = step + 1
      <4>1. i - 1 = step
        BY <1>1, <3>1
      <4> QED
        BY <2>5, <3>1, <4>1
    <3>2. CASE i # step + 1
      <4>1. i \in 1 .. step
        BY <1>1, <2>5, <3>2
      <4> QED
        BY <2>4, <2>5, <4>1 DEF SeenInv
    <3> QED
      BY <3>1, <3>2
  <2> QED
    BY <2>3, <2>5, <2>6 DEF SeenInv
<1>3. ASSUME ~Body
      PROVE  /\ UNCHANGED <<seen, in_block>>
             /\ step' + (IF pc' \in {"copy_out", "wait_out", "finalize", "done"} THEN 1 ELSE 0)
                  = step + (IF pc \in {"copy_out", "wait_out", "finalize", "done"} THEN 1 ELSE 0)
  <2>1. UNCHANGED <<seen, in_block>>
    BY <1>3 DEF Next, CoreStep, initialize_step, InitializeLookahead, copy_in, wait_in, copy_out,
         wait_out, finalize, DmaDone, config
  <2>2. CASE initialize_step \/ InitializeLookahead \/ copy_in
    <3>1. /\ step' = step /\ pc \in {"initialize", "lookahead", "copy_in"}
          /\ pc' \in {"lookahead", "copy_in", "wait_in"}
      BY <2>2 DEF initialize_step, InitializeLookahead, copy_in
    <3> QED
      BY <2>1, <3>1
  <2>3. CASE wait_in \/ copy_out \/ finalize \/ \E d \in dmas : DmaDone(d)
    <3>1. /\ step' = step
          /\ \/ pc' = pc
             \/ pc = "wait_in" /\ pc' = "body"
             \/ pc = "copy_out" /\ pc' = "wait_out"
             \/ pc = "finalize" /\ pc' = "done"
      BY <2>3 DEF wait_in, copy_out, finalize, DmaDone
    <3> QED
      BY <2>1, <3>1
  <2>4. CASE wait_out
    <3>1. /\ pc = "wait_out"
          /\ (pc' = "finalize" /\ step' = step) \/ (pc' = "copy_in" /\ step' = step + 1)
      BY <2>4 DEF wait_out
    <3> QED
      BY <1>1, <2>1, <3>1
  <2> QED
    BY <1>3, <2>2, <2>3, <2>4 DEF Next, CoreStep
<1>4. CASE ~Body
  <2>1. /\ seen' = seen /\ in_block' = in_block
        /\ Len(seen) = step + (IF pc \in {"copy_out", "wait_out", "finalize", "done"} THEN 1 ELSE 0)
    BY <1>3, <1>4 DEF SeenInv
  <2> QED
    BY <1>3, <1>4, <2>1 DEF SeenInv
<1> QED
  BY <1>2, <1>4

\* Each step keeps what is known of the input and of the output.
LEMMA SlotsStep ==
    ASSUME Working, Next
    PROVE  InputInv' /\ OutputInv'
<1> USE DEF Working
<1>1. \A d \in dmas : d.dir \in {"in", "out"}
  BY DEF ProgramInv
<1>2. CASE initialize_step \/ InitializeLookahead \/ copy_in
  <2>1. InputInv'
    BY <1>2, InitializeInput, InitializeLookaheadInput, CopyInLookahead, CopyInPlain
  <2>2. dmas \subseteq dmas' /\ \A d \in dmas' : d \in dmas \/ d.dir = "in"
    BY <1>2, Fetching
  <2>3. \A d \in dmas \cup dmas' : d.dir = "out" => (d \in dmas <=> d \in dmas')
    BY <2>2
  <2>4. /\ UNCHANGED <<config, step, outputs>>
        /\ \/ pc \in {"initialize", "lookahead"} /\ pc' \in {"lookahead", "copy_in"}
           \/ pc = "copy_in" /\ pc' = "wait_in"
    BY <1>2 DEF initialize_step, InitializeLookahead, copy_in
  <2> QED
    BY <2>1, <2>3, <2>4, BeforeOutput
<1>3. CASE wait_in
  <2>1. UNCHANGED <<config, step, outputs>> /\ dmas' = dmas /\ pc = "wait_in" /\ pc' = "body"
    BY <1>3 DEF wait_in
  <2> QED
    BY <1>3, <2>1, WaitInInput, BeforeOutput
<1>4. CASE Body
  <2>1. UNCHANGED <<config, step, inputs>> /\ dmas' = dmas /\ pc = "body" /\ pc' = "copy_out"
    BY <1>4 DEF Body
  <2> QED
    BY <1>4, <2>1, BodyOutput, OtherInput
<1>5. CASE copy_out
  <2>1. UNCHANGED <<config, step, inputs>> /\ pc = "copy_out" /\ pc' = "wait_out"
    BY <1>5 DEF copy_out
  <2>2. \A d \in dmas' : d.dir = "in" => d \in dmas
    BY <1>5 DEF copy_out
  <2> QED
    BY <1>5, <2>1, <2>2, CopyOutOutput, OtherInput
<1>6. CASE wait_out
  BY <1>6, WaitOutInput, WaitOutOutput
<1>7. CASE finalize
  <2>1. UNCHANGED <<config, step, inputs>> /\ dmas' = dmas /\ pc = "finalize" /\ pc' = "done"
    BY <1>7 DEF finalize
  <2> QED
    BY <1>7, <2>1, FinalizeOutput, OtherInput
<1>8. ASSUME NEW d \in dmas, DmaDone(d)
      PROVE  InputInv' /\ OutputInv'
  <2>1. dmas' = dmas \ {d} /\ UNCHANGED <<config, pc, step>>
    BY <1>8 DEF DmaDone
  <2>2. CASE d.dir = "in"
    <3>1. UNCHANGED outputs
      BY <1>8, <2>2 DEF DmaDone, outputs
    <3>2. \A o \in dmas \cup dmas' : o.dir = "out" => (o \in dmas <=> o \in dmas')
      BY <2>1, <2>2
    <3>3. OutputInv'
      BY <2>1, <3>1, <3>2, BeforeOutput
    <3> QED
      BY <1>8, <2>2, <3>3, CopyInDone
  <2>3. CASE d.dir = "out"
    <3>1. UNCHANGED inputs
      BY <1>8, <2>3 DEF DmaDone, inputs
    <3>2. InputInv'
      BY <2>1, <3>1, OtherInput
    <3> QED
      BY <1>8, <2>3, <3>2, CopyOutDone
  <2> QED
    BY <1>1, <2>2, <2>3
<1> QED
  BY <1>2, <1>3, <1>4, <1>5, <1>6, <1>7, <1>8 DEF Next, CoreStep

\* The invariant is inductive.
LEMMA PipelineStep ==
    ASSUME PipelineInv, [Next]_vars
    PROVE  PipelineInv'
<1>1. CASE Working /\ Next
  BY <1>1, ControlStep, SeenStep, SlotsStep DEF PipelineInv, Working
<1>2. CASE NoSteps /\ Next
  BY <1>2 DEF NoSteps, Next, CoreStep, initialize_step, InitializeLookahead, copy_in, wait_in, Body,
         copy_out, wait_out, finalize
<1>3. CASE UNCHANGED vars
  <2> USE <1>3 DEF vars, config, inputs, outputs
  <2>1. UNCHANGED <<AtEnd, BeforeWait, released>>
    BY DEF AtEnd, BeforeWait, released
  <2>2. CASE NoSteps
    BY <2>2 DEF PipelineInv, NoSteps
  <2>3. CASE Working
    <3>1. ConfigInv'
      BY <2>3 DEF Working, ConfigInv
    <3>2. ProgramInv'
      BY <2>1, <2>3 DEF Working, ProgramInv
    <3>3. SeenInv'
      BY <2>3 DEF Working, SeenInv
    <3>4. InputInv'
      BY <2>3, OtherInput DEF Working
    <3>5. OutputInv'
      BY <2>3, BeforeOutput DEF Working
    <3> QED
      BY <3>1, <3>2, <3>3, <3>4, <3>5 DEF PipelineInv, Working
  <2> QED
    BY <2>2, <2>3 DEF PipelineInv
<1> QED
  BY <1>1, <1>2, <1>3 DEF PipelineInv

-----------------------------------------------------------------------------
(* The grid.                                                               *)

\* A non-empty set of natural numbers has a smallest element.
LEMMA Least ==
    ASSUME NEW S \in SUBSET Nat, S # {}
    PROVE  \E x \in S : \A y \in S : x <= y
<1> SUFFICES ASSUME \A x \in S : \E y \in S : ~(x <= y)
             PROVE  FALSE
  OBVIOUS
<1> DEFINE T == {n \in Nat : \A m \in 0 .. n : m \notin S}
<1>1. 0 \in T
  OBVIOUS
<1>2. ASSUME NEW n \in Nat, n \in T
      PROVE  n + 1 \in T
  <2>1. n + 1 \notin S
    <3> SUFFICES ASSUME n + 1 \in S PROVE FALSE
      OBVIOUS
    <3>1. PICK y \in S : ~(n + 1 <= y)
      OBVIOUS
    <3>2. y \in Nat /\ y \in 0 .. n
      BY <3>1
    <3> QED
      BY <1>2, <3>2
  <2>2. \A m \in 0 .. (n + 1) : m = n + 1 \/ m \in 0 .. n
    OBVIOUS
  <2> QED
    BY <1>2, <2>1, <2>2
<1> HIDE DEF T
<1>3. Nat \subseteq T
  BY <1>1, <1>2, SetInduction
<1>4. PICK x \in S : x \in Nat
  OBVIOUS
<1>5. x \in T
  BY <1>3, <1>4
<1> QED
  BY <1>4, <1>5 DEF T

\* So Min finds it.
LEMMA MinOf ==
    ASSUME NEW S \in SUBSET Nat, S # {}
    PROVE  Min(S) \in S
BY Least DEF Min

\* And a bounded one has a largest.
LEMMA Largest ==
    ASSUME NEW S \in SUBSET Nat, S # {}, NEW n \in Nat, \A x \in S : x <= n
    PROVE  \E x \in S : \A y \in S : y <= x
<1> DEFINE R == {m \in Nat : n - m \in S}
<1>1. R # {} /\ R \in SUBSET Nat
  <2>1. PICK x \in S : x \in Nat /\ x <= n
    OBVIOUS
  <2>2. n - x \in Nat /\ n - (n - x) = x
    BY <2>1
  <2> QED
    BY <2>1, <2>2
<1>2. PICK m \in R : \A y \in R : m <= y
  <2> HIDE DEF R
  <2> QED
    BY <1>1, Least
<1>3. ASSUME NEW y \in S PROVE y <= n - m
  <2>1. y \in Nat /\ y <= n /\ n - y \in Nat /\ n - (n - y) = y
    OBVIOUS
  <2>2. n - y \in R
    BY <2>1
  <2>3. m <= n - y /\ m \in Nat
    BY <1>2, <2>2
  <2> QED
    BY <2>1, <2>3
<1> QED
  BY <1>2, <1>3

\* There are finitely many functions from a finite set to a finite set: a
\* function is told by its graph.
LEMMA FiniteFunctions ==
    ASSUME NEW D, NEW S, IsFiniteSet(D), IsFiniteSet(S)
    PROVE  IsFiniteSet([D -> S])
<1> DEFINE Fs == [D -> S]
           graph == [f \in Fs |-> {<<i, f[i]>> : i \in D}]
<1>1. IsFiniteSet(SUBSET (D \X S))
  BY FS_Product, FS_SUBSET
<1>2. graph \in [Fs -> SUBSET (D \X S)]
  <2> SUFFICES ASSUME NEW f \in Fs PROVE {<<i, f[i]>> : i \in D} \in SUBSET (D \X S)
    OBVIOUS
  <2> QED
    OBVIOUS
<1>3. ASSUME NEW f \in Fs, NEW g \in Fs, graph[f] = graph[g]
      PROVE  f = g
  <2>1. {<<i, f[i]>> : i \in D} = {<<i, g[i]>> : i \in D}
    BY <1>3
  <2>2. ASSUME NEW i \in D PROVE f[i] = g[i]
    <3>1. <<i, f[i]>> \in {<<j, g[j]>> : j \in D}
      BY <2>1
    <3> QED
      BY <3>1
  <2> QED
    BY <2>2
<1> HIDE DEF graph, Fs
<1>4. graph \in Injection(Fs, SUBSET (D \X S))
  BY <1>2, <1>3 DEF Injection, IsInjective
<1> QED
  BY <1>1, <1>4, FS_Injection DEF Fs

\* A core has finitely many grid points.
LEMMA GridSize ==
    ASSUME NEW grid \in Seq(Dims), NEW n, NEW c
    PROVE  _grid_size(grid, n, c) \in Nat
<1> DEFINE D == DOMAIN grid
           f == [i \in D |-> 0 .. grid[i].size]
           Images == {0 .. grid[i].size : i \in D}
           top == UNION Images
<1>1. D = 1 .. Len(grid) /\ Len(grid) \in Nat /\ \A i \in D : grid[i].size \in Nat
  <2>1. D = 1 .. Len(grid) /\ Len(grid) \in Nat /\ \A i \in D : grid[i] \in Dims
    OBVIOUS
  <2> QED
    BY <2>1 DEF Dims
<1>2. IsFiniteSet(D)
  BY <1>1, FS_Interval
<1>3. f \in Surjection(D, Images)
  BY DEF Surjection
<1>4. \A i \in D : IsFiniteSet(0 .. grid[i].size)
  <2> SUFFICES ASSUME NEW i \in D PROVE IsFiniteSet(0 .. grid[i].size)
    OBVIOUS
  <2>1. 0 \in Int /\ grid[i].size \in Int
    BY <1>1
  <2> QED
    BY <2>1, FS_Interval
<1>5. \A T \in Images : IsFiniteSet(T)
  BY <1>4
<1>6. IsFiniteSet(Images)
  <2> HIDE DEF D, f, Images
  <2> QED
    BY <1>2, <1>3, FS_Surjection
<1>7. IsFiniteSet(top)
  <2> HIDE DEF Images
  <2> QED
    BY <1>5, <1>6, FS_UNION
<1>8. IsFiniteSet([D -> top])
  <2> HIDE DEF D, top
  <2> QED
    BY <1>2, <1>7, FiniteFunctions
<1>9. PointsOf(grid, n, c) \in SUBSET [D -> top]
  BY DEF PointsOf
<1>10. IsFiniteSet(PointsOf(grid, n, c))
  <2> HIDE DEF D, top
  <2> QED
    BY <1>8, <1>9, FS_Subset
<1> QED
  BY <1>10, FS_CardinalityType DEF _grid_size

-----------------------------------------------------------------------------
(* The beginning.                                                          *)

\* The invariant holds before the first step.
LEMMA PipelineBegins ==
    ASSUME Init, TwoBuffers
    PROVE  PipelineInv
<1>1. call.grid \in Seq(Dims)
  BY PipelineAssumption DEF Init
<1>2. num_steps \in Nat
  BY <1>1, GridSize DEF Init
<1>3. /\ in_count \in Nat \ {0} /\ use_lookahead \in BOOLEAN /\ (use_lookahead => in_count >= 2)
      /\ out_count = 2
  <2>1. PICK m \in InputModes : in_count = m[1] /\ use_lookahead = m[2]
    BY DEF Init
  <2>2. m \in (Nat \ {0}) \X BOOLEAN /\ (m[2] => m[1] >= 2)
    BY PipelineAssumption DEF TwoBuffers
  <2>3. m[1] \in Nat \ {0} /\ m[2] \in BOOLEAN
    BY <2>2
  <2>4. out_count = 2
    BY DEF Init, TwoBuffers
  <2> QED
    BY <2>1, <2>2, <2>3, <2>4
<1>4. CASE num_steps = 0
  BY <1>3, <1>4 DEF Init, PipelineInv, NoSteps
<1>5. CASE num_steps # 0
  <2>1. num_steps \in Nat \ {0} /\ pc = "initialize" /\ step = 0
    BY <1>2, <1>5 DEF Init
  <2>2. ConfigInv
    BY <1>3, <2>1 DEF Init, ConfigInv
  <2>3. ProgramInv
    BY <2>1 DEF Init, ProgramInv, AtEnd
  <2>4. SeenInv
    BY <2>1 DEF Init, SeenInv
  <2>5. fetched = 0 /\ waited = 0
    BY <2>1, InCountFacts DEF Init, fetched, waited, AtEnd, BeforeWait
  <2>6. InTypes
    BY <1>3 DEF Init, InTypes
  <2>7. InCounts
    <3>1. InCount(0) = 0 /\ InCount(0 + 1) = InCount(0) + 1
      BY InCountFacts
    <3>2. wait_in_slot = 0 /\ copy_in_slot = 0 /\ ~AtEnd /\ step + 1 = 0 + 1
      BY <2>1 DEF Init, AtEnd
    <3>3. InCount(step + 1) - 1 = 0
      BY <3>1, <3>2
    <3> QED
      BY <1>3, <2>5, <3>1, <3>2, <3>3 DEF InCounts
  <2>8. UnderWay /\ InLanded /\ InCurrent
    <3>1. UnderWay /\ InLanded
      BY DEF Init, UnderWay, InLanded
    <3>2. waited # wait_in_slot + 1
      BY <2>5 DEF Init
    <3> QED
      BY <3>1, <3>2 DEF InCurrent
  <2>9. OutTypes
    <3>1. out_count - 1 = 1
      BY <1>3
    <3> QED
      BY <3>1 DEF Init, OutTypes
  <2>10. OutCounts
    <3>1. Visit(0) = 0
      BY VisitFacts
    <3> QED
      BY <2>1, <3>1 DEF Init, OutCounts, AtEnd
  <2>11. OutFlight /\ OutLanded /\ OutCurrent
    <3>1. \A s \in 0 .. 1 : sem_sends[s] = 0
      BY <1>3 DEF Init
    <3> QED
      BY <2>1, <3>1 DEF Init, OutFlight, OutLanded, OutCurrent
  <2>12. HbmInv
    <3>1. ASSUME NEW e \in 0 .. (num_steps - 1) PROVE ~Written(Visit(e))
      <4>1. Visit(e) \in Nat
        BY VisitFacts
      <4> QED
        BY <4>1 DEF Init, Written
    <3>2. \A b : ArrivedSteps(b) = {}
      BY <3>1 DEF ArrivedSteps
    <3> QED
      BY <3>2 DEF Init, HbmInv
  <2> QED
    BY <2>2, <2>3, <2>4, <2>6, <2>7, <2>8, <2>9, <2>10, <2>11, <2>12
       DEF PipelineInv, Working, InputInv, OutputInv
<1> QED
  BY <1>4, <1>5

-----------------------------------------------------------------------------
(* What the invariant says.                                                *)

\* A step has its slots to itself, and its blocks are in them.
LEMMA StepsHaveSlots ==
    ASSUME Working
    PROVE  StepsHaveTheirSlots
<1> USE DEF Working, InputInv, OutputInv
<1>1. /\ num_steps \in Nat \ {0} /\ in_count \in Nat \ {0} /\ out_count = 2
      /\ \A d \in dmas : d.dir \in {"in", "out"}
  BY DEF ConfigInv, ProgramInv
<1>2. ASSUME NEW d \in dmas, d.dir = "in"
      PROVE  \E i \in 0 .. (fetched - 1) : Due(i) /\ d = InCopy(InCount(i), InAt(i))
                                           /\ d.slot = InCount(i) % in_count
  BY <1>2 DEF UnderWay, InCopy
<1>3. ASSUME NEW d \in dmas, d.dir = "out"
      PROVE  \E e \in 0 .. (num_steps - 1) :
                /\ d = OutCopy(e) /\ Visit(e) \in released .. (copy_out_slot - 1)
                /\ d.slot = Visit(e) % 2 /\ e \in Nat /\ Visit(e) \in Nat
  <2>1. PICK e \in 0 .. (num_steps - 1) :
          d = OutCopy(e) /\ Visit(e) \in released .. (copy_out_slot - 1)
    BY <1>3 DEF OutFlight
  <2>2. e \in Nat /\ Visit(e) \in Nat
    BY VisitFacts
  <2> QED
    BY <2>1, <2>2 DEF OutCopy
<1>4. TypeOK
  <2>1. step \in 0 .. num_steps
    BY <1>1 DEF ProgramInv
  <2>2. ASSUME NEW d \in dmas
        PROVE  d.slot \in (IF d.dir = "in" THEN DOMAIN window_in ELSE DOMAIN window_out)
    <3>1. DOMAIN window_in = 0 .. (in_count - 1) /\ DOMAIN window_out = 0 .. 1
      BY DEF InTypes, OutTypes
    <3>2. CASE d.dir = "in"
      <4>1. PICK i \in 0 .. (fetched - 1) : Due(i) /\ d.slot = InCount(i) % in_count
        BY <1>2, <3>2
      <4>2. InCount(i) % in_count \in 0 .. (in_count - 1)
        BY <4>1, DueSlots
      <4> QED
        BY <3>1, <3>2, <4>1, <4>2
    <3>3. CASE d.dir = "out"
      <4>1. PICK e \in 0 .. (num_steps - 1) : d.slot = Visit(e) % 2 /\ Visit(e) \in Nat
        BY <1>3, <3>3
      <4>2. Visit(e) % 2 \in 0 .. 1
        BY <4>1
      <4> QED
        BY <3>1, <3>3, <4>1, <4>2
    <3> QED
      BY <1>1, <3>2, <3>3
  <2>3. ASSUME NEW s \in DOMAIN sem_recvs PROVE sem_recvs[s] \in 0 .. num_steps + 1
    <3>1. sem_recvs[s] \in {0, 1}
      BY DEF InTypes, InLanded
    <3> QED
      BY <1>1, <3>1
  <2>4. copy_in_slot \in Nat /\ wait_in_slot \in Nat /\ copy_out_slot \in Nat
    BY InNumbers, OutNumbers
  <2> QED
    BY <2>1, <2>2, <2>3, <2>4 DEF TypeOK, InTypes
<1>5. BodySeesItsBlock
  BY DEF SeenInv, BodySeesItsBlock
<1>6. ASSUME pc = "body", NEW d \in dmas
      PROVE  d.slot # (IF d.dir = "in" THEN wait_in_slot % in_count ELSE copy_out_slot % out_count)
  <2>1. CASE d.dir = "in"
    <3>1. PICK i \in 0 .. (fetched - 1) : Due(i) /\ d.slot = InCount(i) % in_count
      BY <1>2, <2>1
    <3>2. waited = wait_in_slot + 1
      BY <1>6 DEF waited, AtEnd, BeforeWait
    <3> QED
      BY <2>1, <3>1, <3>2, DueSlots
  <2>2. CASE d.dir = "out"
    <3>1. PICK e \in 0 .. (num_steps - 1) :
            /\ Visit(e) \in released .. (copy_out_slot - 1) /\ d.slot = Visit(e) % 2
            /\ Visit(e) \in Nat
      BY <1>3, <2>2
    <3>2. copy_out_slot \in Nat /\ released \in Nat /\ copy_out_slot <= released + 1
      BY <1>6, OutNumbers
    <3>3. 2 \in Nat \ {0} /\ Visit(e) < copy_out_slot /\ copy_out_slot < Visit(e) + 2
      BY <3>1, <3>2
    <3>4. Visit(e) % 2 # copy_out_slot % 2
      BY <3>1, <3>2, <3>3, SlotsApart
    <3> QED
      BY <1>1, <2>2, <3>1, <3>4
  <2> QED
    BY <1>1, <2>1, <2>2
<1>7. ASSUME NEW d \in dmas, NEW e \in dmas, d.dir = e.dir, d.slot = e.slot
      PROVE  d = e
  <2>1. CASE d.dir = "in"
    <3>1. PICK i \in 0 .. (fetched - 1) : Due(i) /\ d = InCopy(InCount(i), InAt(i))
                                          /\ d.slot = InCount(i) % in_count
      BY <1>2, <2>1
    <3>2. PICK j \in 0 .. (fetched - 1) : Due(j) /\ e = InCopy(InCount(j), InAt(j))
                                          /\ e.slot = InCount(j) % in_count
      BY <1>2, <1>7, <2>1
    <3>3. i = j
      BY <1>7, <3>1, <3>2, DueSlots
    <3> QED
      BY <3>1, <3>2, <3>3
  <2>2. CASE d.dir = "out"
    <3>1. PICK i \in 0 .. (num_steps - 1) :
            /\ d = OutCopy(i) /\ Visit(i) \in released .. (copy_out_slot - 1)
            /\ d.slot = Visit(i) % 2 /\ i \in Nat /\ Visit(i) \in Nat
      BY <1>3, <2>2
    <3>2. PICK j \in 0 .. (num_steps - 1) :
            /\ e = OutCopy(j) /\ Visit(j) \in released .. (copy_out_slot - 1)
            /\ e.slot = Visit(j) % 2 /\ j \in Nat /\ Visit(j) \in Nat
      BY <1>3, <1>7, <2>2
    <3>3. copy_out_slot \in Nat /\ released \in Nat /\ copy_out_slot <= released + 2
      BY OutNumbers
    <3>4. 2 \in Nat \ {0} /\ Visit(i) < Visit(j) + 2 /\ Visit(j) < Visit(i) + 2
          /\ Visit(i) % 2 = Visit(j) % 2
      BY <1>7, <3>1, <3>2, <3>3
    <3>5. Visit(i) = Visit(j)
      <4>1. CASE Visit(i) <= Visit(j)
        BY <3>1, <3>2, <3>4, <4>1, SlotsApart
      <4>2. CASE Visit(j) <= Visit(i)
        BY <3>1, <3>2, <3>4, <4>2, SlotsApart
      <4> QED
        BY <3>1, <3>2, <4>1, <4>2
    <3>6. out_block[i] = out_block[j]
      BY <3>5, SameVisit
    <3> QED
      BY <3>1, <3>2, <3>5, <3>6 DEF OutCopy
  <2> QED
    BY <1>1, <2>1, <2>2
<1> QED
  BY <1>4, <1>5, <1>6, <1>7 DEF StepsHaveTheirSlots, SlotsAreExclusive

\* The steps of the last visit to a block are those from which on the block does
\* not change up to its last step.
LEMMA LastSteps ==
    ASSUME ConfigInv, NEW b \in OutBlocks, NEW last \in 0 .. (num_steps - 1), out_block[last] = b,
           \A j \in 0 .. (num_steps - 1) : out_block[j] = b => j <= last
    PROVE  LastVisit(b) = VisitSteps(Visit(last))
<1> DEFINE steps == {i \in 0 .. (num_steps - 1) : out_block[i] = b}
<1>1. num_steps \in Nat \ {0} /\ last \in Nat
  BY DEF ConfigInv
<1>2. last \in steps /\ steps # {} /\ \A j \in steps : j <= last /\ j \in Nat
  OBVIOUS
<1>3. (CHOOSE i \in steps : \A j \in steps : j <= i) = last
  <2>1. ASSUME NEW i \in steps, \A j \in steps : j <= i
        PROVE  i = last
    <3>1. i <= last /\ last <= i /\ i \in Nat
      BY <1>2, <2>1
    <3> QED
      BY <1>1, <3>1
  <2> HIDE DEF steps
  <2> QED
    BY <1>2, <2>1
<1>4. LastVisit(b) = {i \in steps : \A j \in i .. last : out_block[j] = b}
  BY <1>2, <1>3 DEF LastVisit
<1>5. ASSUME NEW t \in 0 .. (num_steps - 1), Visit(t) = Visit(last)
      PROVE  t \in steps /\ \A j \in t .. last : out_block[j] = b
  <2>1. t \in steps
    BY <1>5, SameVisit
  <2>2. ASSUME NEW j \in t .. last PROVE out_block[j] = b
    <3>1. j \in 0 .. (num_steps - 1) /\ j \in Nat /\ t \in Nat /\ t <= j /\ j <= last
      BY <1>1
    <3>2. Visit(t) <= Visit(j) /\ Visit(j) <= Visit(last)
      BY <1>1, <3>1, VisitOrder
    <3>3. Visit(t) \in Nat /\ Visit(j) \in Nat /\ Visit(last) \in Nat
      BY <1>1, <3>1, VisitFacts
    <3>4. Visit(j) = Visit(last)
      BY <1>5, <3>2, <3>3
    <3> QED
      BY <3>1, <3>4, SameVisit
  <2> QED
    BY <2>1, <2>2
<1>6. ASSUME NEW t \in steps, \A j \in t .. last : out_block[j] = b
      PROVE  t \in 0 .. (num_steps - 1) /\ Visit(t) = Visit(last)
  <2>1. t \in Nat /\ t <= last /\ t \in 0 .. (num_steps - 1)
    BY <1>2
  <2> DEFINE T == {j \in Nat : Visit(j) = Visit(t)}
  <2>2. t \in T
    BY <2>1
  <2>3. ASSUME NEW j \in t .. (last - 1), j \in T
        PROVE  j + 1 \in T
    <3>1. /\ j \in Nat /\ j + 1 \in Nat /\ j + 1 # 0 /\ (j + 1) - 1 = j
          /\ j \in t .. last /\ j + 1 \in t .. last
          /\ j \in 0 .. (num_steps - 1) /\ j + 1 \in 0 .. (num_steps - 1)
      BY <1>1, <2>1
    <3>2. out_block[j] = b /\ out_block[j + 1] = b
      BY <1>6, <3>1
    <3>3. j % num_steps = j /\ (j + 1) % num_steps = j + 1
      BY <1>1, <3>1, Wrap
    <3>4. ~OutStarts(j + 1)
      BY <3>1, <3>2, <3>3 DEF OutStarts, Starts, Cyclic
    <3>5. Visit(j + 1) = Visit(j)
      BY <3>1, <3>4, VisitFacts
    <3> QED
      BY <2>3, <3>1, <3>5
  <2> HIDE DEF T
  <2>4. t .. last \subseteq T
    BY <1>1, <2>1, <2>2, <2>3, Upward
  <2>5. last \in T
    BY <1>1, <2>1, <2>4
  <2> QED
    BY <2>1, <2>5 DEF T
<1> QED
  BY <1>4, <1>5, <1>6 DEF VisitSteps

\* At the end every copy to HBM has been waited for, and every copy of the input
\* if the prologue did not go past the end of the grid.
LEMMA EndsWell ==
    ASSUME Working, pc = "done"
    PROVE  EndsCompleteAndDrained
<1> USE DEF Working, InputInv, OutputInv
<1>1. /\ num_steps \in Nat \ {0} /\ in_count \in Nat \ {0} /\ out_count = 2
      /\ step = num_steps - 1 /\ next_fetch \in 0 .. (num_steps - 1)
      /\ \A d \in dmas : d.dir \in {"in", "out"}
  BY DEF ConfigInv, ProgramInv, AtEnd
<1>2. AtEnd
  BY DEF AtEnd
<1>3. copy_out_slot \in Nat /\ released = copy_out_slot
  <2>1. copy_out_slot = OutCount(num_steps) /\ wait_out_slot = OutCount(num_steps) - 1
    BY <1>2 DEF OutCounts
  <2>2. copy_out_slot \in Nat
    BY OutNumbers
  <2> QED
    BY <2>1, <2>2 DEF released
<1>4. \A m : m \notin released .. (copy_out_slot - 1)
  BY <1>3
<1>5. \A d \in dmas : d.dir # "out"
  BY <1>4 DEF OutFlight
<1>6. \A s \in DOMAIN sem_sends : sem_sends[s] = 0
  BY <1>4 DEF OutLanded, OutTypes
<1>7. ASSUME NEW e \in 0 .. (num_steps - 1) PROVE Written(Visit(e))
  <2>1. PICK last \in Nat : last = num_steps - 1
    BY <1>1
  <2>2. last + 1 = num_steps /\ e \in Nat /\ e <= last
    BY <1>1, <2>1
  <2>3. copy_out_slot = Visit(last) + 1
    BY <1>2, <2>2, VisitFacts DEF OutCounts
  <2>4. Visit(e) <= Visit(last) /\ Visit(e) \in Nat /\ Visit(last) \in Nat
    BY <2>2, VisitFacts, VisitOrder
  <2>5. Visit(e) < copy_out_slot
    BY <2>3, <2>4
  <2> QED
    BY <1>5, <2>5 DEF Written
<1>8. OutputIsComplete
  <2> SUFFICES ASSUME NEW b \in OutBlocks PROVE hbm_out[b] = LastVisit(b)
    BY DEF OutputIsComplete
  <2>1. ArrivedSteps(b) = {i \in 0 .. (num_steps - 1) : out_block[i] = b}
    BY <1>7 DEF ArrivedSteps
  <2>2. CASE ArrivedSteps(b) = {}
    BY <2>1, <2>2 DEF HbmInv, LastVisit
  <2>3. CASE ArrivedSteps(b) # {}
    <3>1. ArrivedSteps(b) \in SUBSET Nat /\ \A i \in ArrivedSteps(b) : i <= num_steps
      BY <1>1, <2>1
    <3>2. PICK last \in ArrivedSteps(b) : \A j \in ArrivedSteps(b) : j <= last
      BY <1>1, <2>3, <3>1, Largest
    <3>3. /\ last \in 0 .. (num_steps - 1) /\ out_block[last] = b
          /\ \A j \in 0 .. (num_steps - 1) : out_block[j] = b => j <= last
      BY <2>1, <3>2
    <3>4. \A o \in ArrivedSteps(b) : Visit(o) <= Visit(last)
      BY <3>1, <3>2, VisitOrder
    <3>5. hbm_out[b] = VisitSteps(Visit(last))
      BY <3>2, <3>4 DEF HbmInv
    <3> QED
      BY <3>3, <3>5, LastSteps
  <2> QED
    BY <2>2, <2>3
<1>9. ASSUME use_lookahead \/ in_count <= num_steps + 1
      PROVE  \A i \in 0 .. (fetched - 1) : ~Due(i)
  <2>1. fetched \in Nat /\ fetched <= num_steps
    <3>1. CASE use_lookahead
      <4>1. fetched = next_fetch + 1
        BY <3>1 DEF fetched
      <4> QED
        BY <1>1, <4>1
    <3>2. CASE ~use_lookahead
      <4>1. fetched = Frontier(step + 1) /\ step + 1 = num_steps /\ in_count - 1 <= num_steps
        BY <1>1, <1>9, <3>2 DEF fetched
      <4> QED
        BY <1>1, <4>1 DEF Frontier
    <3> QED
      BY <3>1, <3>2
  <2>2. waited = InCount(num_steps) /\ copy_in_slot = InCount(fetched)
    BY <1>2 DEF waited, InCounts
  <2>3. /\ InCount(fetched) <= InCount(num_steps) /\ InCount(fetched) \in Nat
        /\ InCount(num_steps) \in Nat
    BY <1>1, <2>1, CountBounds, CountNat DEF InCount
  <2>4. ASSUME NEW i \in 0 .. (fetched - 1), Due(i) PROVE FALSE
    <3>1. InCount(i) \in Nat /\ InCount(i) < copy_in_slot
      BY <2>4, DueSlots
    <3>2. InCount(i) >= waited
      BY <2>4 DEF Due
    <3> QED
      BY <2>2, <2>3, <3>1, <3>2
  <2> QED
    BY <2>4
<1>10. ASSUME use_lookahead \/ in_count <= num_steps + 1
       PROVE  dmas = {} /\ \A s \in DOMAIN sem_recvs : sem_recvs[s] = 0
  <2>1. \A i \in 0 .. (fetched - 1) : ~Due(i)
    BY <1>9, <1>10
  <2>2. \A d \in dmas : d.dir # "in"
    BY <2>1 DEF UnderWay
  <2>3. \A s \in DOMAIN sem_recvs : sem_recvs[s] = 0
    BY <2>1 DEF InLanded, InTypes
  <2> QED
    BY <1>1, <1>5, <2>2, <2>3
<1> QED
  BY <1>6, <1>8, <1>10 DEF EndsCompleteAndDrained, DrainedAtEnd

-----------------------------------------------------------------------------
(* The partition of the grid.                                              *)

\* Where the part of core c begins: each core before it takes `base`, and the
\* first `rem` of them one more.
Offset(base, rem, c) == c * base + (IF c < rem THEN c ELSE rem)

\* Parts are adjacent, and the last one ends at the end of the dimension.
LEMMA Parts ==
    ASSUME NEW size \in Nat, NEW n \in Nat \ {0}
    PROVE  \E base \in Nat, rem \in Nat :
           /\ Offset(base, rem, 0) = 0 /\ Offset(base, rem, n) = size
           /\ \A c \in Nat :
                /\ Offset(base, rem, c) \in Nat
                /\ Offset(base, rem, c) <= Offset(base, rem, c + 1)
                /\ PartOf(size, n, c).offset = Offset(base, rem, c) /\ PartOf(size, n, c).size \in Nat
                /\ PartOf(size, n, c).offset + PartOf(size, n, c).size = Offset(base, rem, c + 1)
<1>0. PICK base, rem : base = size \div n /\ rem = size % n
  OBVIOUS
<1>1. base \in Nat /\ rem \in 0 .. (n - 1) /\ size = n * base + rem
  <2>1. size = n * (size \div n) + (size % n) /\ size \div n \in Nat /\ size % n \in 0 .. (n - 1)
    OBVIOUS
  <2> QED
    BY <1>0, <2>1
<1>2. Offset(base, rem, 0) = 0 /\ Offset(base, rem, n) = size
  <2>1. 0 * base = 0 /\ ~(n < rem) /\ n * base \in Nat
    BY <1>1
  <2> QED
    BY <1>1, <2>1 DEF Offset
<1>3. ASSUME NEW c \in Nat
      PROVE  /\ Offset(base, rem, c) \in Nat
             /\ Offset(base, rem, c) <= Offset(base, rem, c + 1)
             /\ PartOf(size, n, c).offset = Offset(base, rem, c) /\ PartOf(size, n, c).size \in Nat
             /\ PartOf(size, n, c).offset + PartOf(size, n, c).size = Offset(base, rem, c + 1)
  <2>1. /\ c * base \in Nat /\ (c + 1) * base = c * base + base /\ c * (base + 1) = c * base + c
    BY <1>1
  <2>2. PartOf(size, n, c) =
          [size |-> IF c < rem THEN base + 1 ELSE base,
           offset |-> IF c < rem THEN c * (base + 1) ELSE c * base + rem]
    BY <1>0 DEF PartOf
  <2>3. PICK p \in Nat : p = c * base
    BY <2>1
  <2>4. Offset(base, rem, c) = p + (IF c < rem THEN c ELSE rem)
    BY <2>3 DEF Offset
  <2>5. Offset(base, rem, c + 1) = (p + base) + (IF c + 1 < rem THEN c + 1 ELSE rem)
    BY <2>1, <2>3 DEF Offset
  <2>6. /\ PartOf(size, n, c).offset = (IF c < rem THEN p + c ELSE p + rem)
        /\ PartOf(size, n, c).size = (IF c < rem THEN base + 1 ELSE base)
    BY <2>1, <2>2, <2>3
  <2>7. CASE c < rem
    BY <1>1, <2>4, <2>5, <2>6, <2>7
  <2>8. CASE ~(c < rem)
    BY <1>1, <2>4, <2>5, <2>6, <2>8
  <2> QED
    BY <2>7, <2>8
<1> base \in Nat /\ rem \in Nat
  BY <1>1
<1> WITNESS base \in Nat, rem \in Nat
<1> QED
  BY <1>2, <1>3

\* Every index of a dimension is in the part of one core, and of only one.
LEMMA PartsAreExact ==
    ASSUME NEW size \in Nat, NEW n \in Nat \ {0}
    PROVE  LET part(c) == PartOf(size, n, c).offset ..
                            (PartOf(size, n, c).offset + PartOf(size, n, c).size - 1)
           IN /\ \A c \in 0 .. (n - 1) : part(c) \subseteq 0 .. (size - 1)
              /\ \A x \in 0 .. (size - 1) : \E c \in 0 .. (n - 1) : x \in part(c)
              /\ \A c, d \in 0 .. (n - 1) : c # d => part(c) \cap part(d) = {}
<1> DEFINE part(c) == PartOf(size, n, c).offset ..
                        (PartOf(size, n, c).offset + PartOf(size, n, c).size - 1)
<1>1. PICK base \in Nat, rem \in Nat :
        /\ Offset(base, rem, 0) = 0 /\ Offset(base, rem, n) = size
        /\ \A c \in Nat :
             /\ Offset(base, rem, c) \in Nat
             /\ Offset(base, rem, c) <= Offset(base, rem, c + 1)
             /\ PartOf(size, n, c).offset = Offset(base, rem, c) /\ PartOf(size, n, c).size \in Nat
             /\ PartOf(size, n, c).offset + PartOf(size, n, c).size = Offset(base, rem, c + 1)
  BY Parts
<1> DEFINE O(c) == Offset(base, rem, c)
<1>3. /\ O(0) = 0 /\ O(n) = size
      /\ \A c \in Nat : O(c) \in Nat /\ O(c + 1) \in Nat /\ O(c) <= O(c + 1)
                        /\ part(c) = O(c) .. (O(c + 1) - 1)
  <2>1. O(0) = 0 /\ O(n) = size
    BY <1>1
  <2>2. ASSUME NEW c \in Nat
        PROVE  O(c) \in Nat /\ O(c + 1) \in Nat /\ O(c) <= O(c + 1)
               /\ part(c) = O(c) .. (O(c + 1) - 1)
    <3>1. c + 1 \in Nat
      OBVIOUS
    <3>2. O(c) \in Nat /\ O(c) <= O(c + 1) /\ PartOf(size, n, c).offset = O(c)
          /\ PartOf(size, n, c).size \in Nat
          /\ PartOf(size, n, c).offset + PartOf(size, n, c).size = O(c + 1)
      BY <1>1
    <3>3. O(c + 1) \in Nat
      BY <1>1, <3>1
    <3>4. part(c) = O(c) .. (O(c + 1) - 1)
      <4>1. PICK a, z : a = PartOf(size, n, c).offset /\ z = PartOf(size, n, c).size
        OBVIOUS
      <4>2. a = O(c) /\ z \in Nat /\ a + z = O(c + 1) /\ part(c) = a .. (a + z - 1)
        BY <3>2, <4>1
      <4> HIDE DEF O, part
      <4> QED
        BY <3>2, <3>3, <4>2
    <3> HIDE DEF O, part
    <3> QED
      BY <3>2, <3>3, <3>4
  <2> QED
    BY <2>1, <2>2
<1> HIDE DEF O, part
<1>4. ASSUME NEW c \in Nat, NEW d \in Nat, c <= d
      PROVE  O(c) <= O(d)
  <2> DEFINE T == {e \in Nat : O(c) <= O(e)}
  <2>1. c \in T
    BY <1>3
  <2>2. ASSUME NEW e \in c .. (d - 1), e \in T
        PROVE  e + 1 \in T
    <3>1. e \in Nat /\ e + 1 \in Nat
      OBVIOUS
    <3>2. O(c) <= O(e) /\ O(e) <= O(e + 1) /\ O(c) \in Nat /\ O(e) \in Nat /\ O(e + 1) \in Nat
      BY <1>3, <2>2, <3>1
    <3> QED
      BY <3>1, <3>2
  <2> HIDE DEF T
  <2>3. c .. d \subseteq T
    BY <2>1, <2>2, Upward
  <2>4. d \in c .. d
    BY <1>4
  <2>5. d \in T
    BY <2>3, <2>4
  <2> QED
    BY <2>5 DEF T
<1>5. ASSUME NEW c \in 0 .. (n - 1) PROVE part(c) \subseteq 0 .. (size - 1)
  <2>1. c \in Nat /\ c + 1 \in Nat /\ c + 1 <= n
    OBVIOUS
  <2>2. O(c + 1) <= size /\ O(c + 1) \in Nat /\ O(c) \in Nat /\ part(c) = O(c) .. (O(c + 1) - 1)
    BY <1>3, <1>4, <2>1
  <2> QED
    BY <2>2
<1>6. ASSUME NEW x \in 0 .. (size - 1)
      PROVE  \E c \in 0 .. (n - 1) : x \in part(c)
  <2> SUFFICES ASSUME \A c \in 0 .. (n - 1) : x \notin part(c) PROVE FALSE
    OBVIOUS
  <2> DEFINE T == {c \in Nat : O(c) <= x}
  <2>1. 0 \in T
    BY <1>3
  <2>2. ASSUME NEW c \in 0 .. (n - 1), c \in T
        PROVE  c + 1 \in T
    <3>1. c \in Nat /\ c + 1 \in Nat /\ O(c) <= x
      BY <2>2
    <3>2. part(c) = O(c) .. (O(c + 1) - 1) /\ O(c) \in Nat /\ O(c + 1) \in Nat
      BY <1>3, <3>1
    <3>3. x \notin O(c) .. (O(c + 1) - 1)
      BY <3>2
    <3> QED
      BY <3>1, <3>2, <3>3
  <2> HIDE DEF T
  <2>3. 0 .. n \subseteq T
    BY <2>1, <2>2, Upward
  <2>4. n \in T
    BY <2>3
  <2>5. size <= x
    BY <1>3, <2>4 DEF T
  <2> QED
    BY <2>5
<1>7. ASSUME NEW c \in 0 .. (n - 1), NEW d \in 0 .. (n - 1), c < d
      PROVE  part(c) \cap part(d) = {}
  <2>1. c \in Nat /\ d \in Nat /\ c + 1 \in Nat /\ c + 1 <= d
    BY <1>7
  <2>2. O(c + 1) <= O(d)
    BY <1>4, <2>1
  <2>3. /\ part(c) = O(c) .. (O(c + 1) - 1) /\ part(d) = O(d) .. (O(d + 1) - 1)
        /\ O(c) \in Nat /\ O(c + 1) \in Nat /\ O(d) \in Nat /\ O(d + 1) \in Nat
    BY <1>3, <2>1
  <2> QED
    BY <2>2, <2>3
<1>8. ASSUME NEW c \in 0 .. (n - 1), NEW d \in 0 .. (n - 1), c # d
      PROVE  part(c) \cap part(d) = {}
  <2>1. c < d \/ d < c
    BY <1>8
  <2> QED
    BY <1>7, <2>1
<1> QED
  BY <1>5, <1>6, <1>8 DEF part

\* The dimension that is divided is one of the grid.
LEMMA PartitionDimension ==
    ASSUME NEW grid \in Seq(Dims), NEW n \in Nat \ {0}, n > 1, CanPartition(grid, n)
    PROVE  partition_dimension(grid, n) \in DOMAIN grid
<1>1. /\ DOMAIN grid = 1 .. Len(grid) /\ Len(grid) \in Nat
      /\ \A i \in DOMAIN grid : grid[i].size \in Nat /\ grid[i].static \in BOOLEAN
  <2>1. DOMAIN grid = 1 .. Len(grid) /\ Len(grid) \in Nat /\ \A i \in DOMAIN grid : grid[i] \in Dims
    OBVIOUS
  <2> QED
    BY <2>1 DEF Dims
<1> DEFINE divisible == divisible_dimensions(grid, n)
           static == static_dims(grid)
           dynamic == dynamic_dims(grid)
<1>2. /\ divisible \subseteq DOMAIN grid /\ static \subseteq DOMAIN grid
      /\ dynamic \subseteq DOMAIN grid /\ static \cup dynamic = parallel_dimensions(grid)
  BY DEF divisible_dimensions, static_dims, dynamic_dims, parallel_dimensions
<1>3. static \cup dynamic # {}
  BY <1>2 DEF CanPartition
<1>4. \A S \in SUBSET DOMAIN grid : S # {} => Min(S) \in DOMAIN grid
  <2> SUFFICES ASSUME NEW S \in SUBSET DOMAIN grid, S # {} PROVE Min(S) \in S
    OBVIOUS
  <2>1. S \in SUBSET Nat
    BY <1>1
  <2> QED
    BY <2>1, MinOf
<1> HIDE DEF divisible, static, dynamic
<1> DEFINE largest == {i \in static : \A j \in static : grid[j].size <= grid[i].size}
<1>5. ASSUME static # {} PROVE largest # {}
  <2> DEFINE T == {k \in Nat : \E b \in Nat : \A i \in 1 .. k : i \in DOMAIN grid => grid[i].size <= b}
  <2>1. 0 \in T
    <3>1. 0 \in Nat /\ \A i \in 1 .. 0 : FALSE
      OBVIOUS
    <3> QED
      BY <3>1
  <2>2. ASSUME NEW k \in Nat, k \in T PROVE k + 1 \in T
    <3>1. PICK b \in Nat : \A i \in 1 .. k : i \in DOMAIN grid => grid[i].size <= b
      BY <2>2
    <3>2. PICK s \in Nat : k + 1 \in DOMAIN grid => s = grid[k + 1].size
      BY <1>1
    <3>3. \A i \in 1 .. (k + 1) : i \in 1 .. k \/ i = k + 1
      OBVIOUS
    <3>4. \A i \in 1 .. (k + 1) : i \in DOMAIN grid => grid[i].size <= b + s
      BY <1>1, <3>1, <3>2, <3>3
    <3>5. b + s \in Nat /\ k + 1 \in Nat
      OBVIOUS
    <3> QED
      BY <3>4, <3>5
  <2>3. Len(grid) \in T
    <3> HIDE DEF T
    <3> QED
      BY <1>1, <2>1, <2>2, SetInduction
  <2>4. PICK b \in Nat : \A i \in DOMAIN grid : grid[i].size <= b
    BY <1>1, <2>3
  <2> DEFINE sizes == {grid[i].size : i \in static}
  <2>5. sizes \in SUBSET Nat /\ sizes # {} /\ \A x \in sizes : x <= b
    BY <1>1, <1>2, <1>5, <2>4
  <2>6. PICK x \in sizes : \A y \in sizes : y <= x
    <3> HIDE DEF sizes
    <3> QED
      BY <2>5, Largest
  <2> QED
    BY <2>6
<1>6. largest \subseteq DOMAIN grid
  BY <1>2
<1> HIDE DEF largest
<1>7. partition_dimension(grid, n) =
        IF divisible # {} THEN Min(divisible) ELSE IF static = {} THEN Min(dynamic) ELSE Min(largest)
  BY DEF partition_dimension, divisible, static, dynamic, largest
<1> QED
  BY <1>2, <1>3, <1>4, <1>5, <1>6, <1>7

\* The indices of a dimension.
LEMMA IndexRange ==
    ASSUME NEW s \in Nat, NEW x \in Nat
    PROVE  x < s <=> x \in 0 .. (s - 1)
OBVIOUS

\* The cores share the grid points.
LEMMA GridIsShared ==
    ASSUME NEW grid \in Seq(Dims), NEW n \in Nat \ {0}, CanPartition(grid, n)
    PROVE  /\ UNION {PointsOf(grid, n, c) : c \in 0 .. (n - 1)} = GridPoints(grid)
           /\ \A c, d \in 0 .. (n - 1) : c # d => PointsOf(grid, n, c) \cap PointsOf(grid, n, d) = {}
<1> DEFINE top == UNION {0 .. grid[i].size : i \in DOMAIN grid}
           range(c, i) == _partition_grid(grid, n, c)[i].offset ..
                            (_partition_grid(grid, n, c)[i].offset
                               + _partition_grid(grid, n, c)[i].size - 1)
<1>1. \A i \in DOMAIN grid : grid[i].size \in Nat
  <2>1. \A i \in DOMAIN grid : grid[i] \in Dims
    OBVIOUS
  <2> QED
    BY <2>1 DEF Dims
<1>2. \A c, p : p \in PointsOf(grid, n, c) <=>
                  p \in [DOMAIN grid -> top] /\ \A i \in DOMAIN grid : p[i] \in range(c, i)
  BY DEF PointsOf
<1>3. \A p : p \in GridPoints(grid) <=>
               p \in [DOMAIN grid -> top] /\ \A i \in DOMAIN grid : p[i] \in 0 .. (grid[i].size - 1)
  <2> SUFFICES ASSUME NEW p \in [DOMAIN grid -> top], NEW i \in DOMAIN grid
               PROVE  p[i] < grid[i].size <=> p[i] \in 0 .. (grid[i].size - 1)
    BY DEF GridPoints
  <2>1. PICK j \in DOMAIN grid : p[i] \in 0 .. grid[j].size
    OBVIOUS
  <2>2. p[i] \in Nat /\ grid[i].size \in Nat
    BY <1>1, <2>1
  <2> QED
    BY <2>2, IndexRange
<1>4. \E k : /\ n > 1 => k \in DOMAIN grid
             /\ \A c \in 0 .. (n - 1) : \A i \in DOMAIN grid :
                  range(c, i) = IF n > 1 /\ i = k
                                THEN PartOf(grid[i].size, n, c).offset ..
                                       (PartOf(grid[i].size, n, c).offset + PartOf(grid[i].size, n, c).size - 1)
                                ELSE 0 .. (grid[i].size - 1)
  <2> WITNESS partition_dimension(grid, n)
  <2>1. n > 1 => partition_dimension(grid, n) \in DOMAIN grid
    BY PartitionDimension
  <2> SUFFICES ASSUME NEW c \in 0 .. (n - 1), NEW i \in DOMAIN grid
               PROVE  range(c, i) = IF n > 1 /\ i = partition_dimension(grid, n)
                                THEN PartOf(grid[i].size, n, c).offset ..
                                       (PartOf(grid[i].size, n, c).offset + PartOf(grid[i].size, n, c).size - 1)
                                ELSE 0 .. (grid[i].size - 1)
    BY <2>1
  <2>2. _partition_grid(grid, n, c)[i] =
          IF n > 1 /\ i = partition_dimension(grid, n) THEN PartOf(grid[i].size, n, c)
          ELSE [size |-> grid[i].size, offset |-> 0]
    BY DEF _partition_grid
  <2>3. CASE n > 1 /\ i = partition_dimension(grid, n)
    <3>1. _partition_grid(grid, n, c)[i] = PartOf(grid[i].size, n, c)
      BY <2>2, <2>3
    <3> QED
      BY <2>3, <3>1
  <2>4. CASE ~(n > 1 /\ i = partition_dimension(grid, n))
    <3>1. /\ _partition_grid(grid, n, c)[i].offset = 0
          /\ _partition_grid(grid, n, c)[i].size = grid[i].size
      BY <2>2, <2>4
    <3>2. 0 + grid[i].size - 1 = grid[i].size - 1
      BY <1>1
    <3> QED
      BY <2>4, <3>1, <3>2
  <2> QED
    BY <2>3, <2>4
<1> HIDE DEF range, top
<1>5. PICK k : /\ n > 1 => k \in DOMAIN grid
               /\ \A c \in 0 .. (n - 1) : \A i \in DOMAIN grid :
                    range(c, i) = IF n > 1 /\ i = k
                                  THEN PartOf(grid[i].size, n, c).offset ..
                                         (PartOf(grid[i].size, n, c).offset + PartOf(grid[i].size, n, c).size - 1)
                                  ELSE 0 .. (grid[i].size - 1)
  BY <1>4
<1>6. CASE n = 1
  <2>1. \A c \in 0 .. (n - 1) : \A i \in DOMAIN grid : range(c, i) = 0 .. (grid[i].size - 1)
    BY <1>5, <1>6
  <2>2. \A c \in 0 .. (n - 1) : PointsOf(grid, n, c) = GridPoints(grid)
    BY <1>2, <1>3, <2>1
  <2>3. 0 \in 0 .. (n - 1) /\ \A c, d \in 0 .. (n - 1) : c = d
    BY <1>6
  <2> QED
    BY <2>2, <2>3
<1>7. CASE n > 1
  <2> DEFINE part(c) == PartOf(grid[k].size, n, c).offset ..
                          (PartOf(grid[k].size, n, c).offset + PartOf(grid[k].size, n, c).size - 1)
  <2>1. k \in DOMAIN grid /\ grid[k].size \in Nat
    BY <1>1, <1>5, <1>7
  <2>2. \A c \in 0 .. (n - 1) :
          /\ range(c, k) = part(c)
          /\ \A i \in DOMAIN grid : i # k => range(c, i) = 0 .. (grid[i].size - 1)
    BY <1>5, <1>7, <2>1
  <2>3. /\ \A c \in 0 .. (n - 1) : part(c) \subseteq 0 .. (grid[k].size - 1)
        /\ \A x \in 0 .. (grid[k].size - 1) : \E c \in 0 .. (n - 1) : x \in part(c)
        /\ \A c, d \in 0 .. (n - 1) : c # d => part(c) \cap part(d) = {}
    BY <2>1, PartsAreExact
  <2> HIDE DEF part
  <2>4. ASSUME NEW c \in 0 .. (n - 1), NEW p \in PointsOf(grid, n, c)
        PROVE  p \in GridPoints(grid)
    <3>1. ASSUME NEW i \in DOMAIN grid PROVE p[i] \in 0 .. (grid[i].size - 1)
      <4>1. p[i] \in range(c, i)
        BY <1>2
      <4>2. CASE i = k
        BY <2>2, <2>3, <4>1, <4>2
      <4>3. CASE i # k
        BY <2>2, <4>1, <4>3
      <4> QED
        BY <4>2, <4>3
    <3> QED
      BY <1>2, <1>3, <3>1
  <2>5. ASSUME NEW p \in GridPoints(grid)
        PROVE  \E c \in 0 .. (n - 1) : p \in PointsOf(grid, n, c)
    <3>1. PICK c \in 0 .. (n - 1) : p[k] \in part(c)
      BY <1>3, <2>1, <2>3
    <3>2. \A i \in DOMAIN grid : p[i] \in range(c, i)
      BY <1>3, <2>1, <2>2, <3>1
    <3> QED
      BY <1>2, <1>3, <3>2
  <2>6. ASSUME NEW c \in 0 .. (n - 1), NEW d \in 0 .. (n - 1), c # d,
               NEW p \in PointsOf(grid, n, c), p \in PointsOf(grid, n, d)
        PROVE  FALSE
    <3>1. p[k] \in part(c) /\ p[k] \in part(d)
      BY <1>2, <2>1, <2>2, <2>6
    <3> QED
      BY <2>3, <2>6, <3>1
  <2> QED
    BY <2>4, <2>5, <2>6
<1> QED
  BY <1>6, <1>7

-----------------------------------------------------------------------------
(* The theorems.                                                           *)

\* For every grid and every number of cores that _partition_grid accepts, the
\* cores together have every point of the grid, and no two cores have the same.
THEOREM PartitionIsAlwaysExact == Spec => []PartitionIsExact
<1> DEFINE Called == call \in Calls
<1>1. Init => Called
  BY DEF Init
<1>2. Called /\ [Next]_vars => Called'
  BY DEF vars, config, Next, CoreStep, initialize_step, InitializeLookahead, copy_in, wait_in, Body,
         copy_out, wait_out, finalize, DmaDone
<1>3. Called => PartitionIsExact
  <2> SUFFICES ASSUME Called PROVE PartitionIsExact
    OBVIOUS
  <2>1. /\ call.grid \in Seq(Dims) /\ call.num_cores \in Nat \ {0}
        /\ CanPartition(call.grid, call.num_cores)
    BY PipelineAssumption
  <2> QED
    BY <2>1, GridIsShared DEF PartitionIsExact
<1> QED
  BY <1>1, <1>2, <1>3, PTL DEF Spec

\* The invariant of the pipeline.
LEMMA PipelineInvariant ==
    ASSUME TwoBuffers
    PROVE  Spec => []PipelineInv
<1>1. Init => PipelineInv
  BY PipelineBegins
<1>2. PipelineInv /\ [Next]_vars => PipelineInv'
  BY PipelineStep
<1> QED
  BY <1>1, <1>2, PTL DEF Spec

\* However many steps, buffers and changes of block, and in whatever order the
\* copies complete: each body reads the block of its step, no copy uses a slot the
\* body works on, and no two copies in flight share a slot and its semaphore.
THEOREM StepsAlwaysHaveTheirSlots ==
    ASSUME TwoBuffers
    PROVE  Spec => []StepsHaveTheirSlots
<1>1. PipelineInv => StepsHaveTheirSlots
  <2>1. ASSUME NoSteps PROVE StepsHaveTheirSlots
    BY <2>1 DEF NoSteps, StepsHaveTheirSlots, TypeOK, BodySeesItsBlock, SlotsAreExclusive
  <2> QED
    BY <2>1, StepsHaveSlots DEF PipelineInv
<1> QED
  BY <1>1, PipelineInvariant, PTL

\* When the pipeline ends, every block in HBM holds the results of its last visit,
\* whole and from no other visit; no copy is in flight and all semaphores are back
\* at zero.
THEOREM PipelineEndsCompleteAndDrained ==
    ASSUME TwoBuffers
    PROVE  Spec => []EndsCompleteAndDrained
<1>1. PipelineInv => EndsCompleteAndDrained
  <2>1. ASSUME NoSteps PROVE EndsCompleteAndDrained
    <3>1. \A b \in OutBlocks : LastVisit(b) = {}
      BY <2>1 DEF NoSteps, LastVisit
    <3> QED
      BY <2>1, <3>1 DEF NoSteps, EndsCompleteAndDrained, OutputIsComplete, DrainedAtEnd
  <2>2. ASSUME Working, pc # "done" PROVE EndsCompleteAndDrained
    BY <2>2 DEF EndsCompleteAndDrained, OutputIsComplete, DrainedAtEnd
  <2> QED
    BY <2>1, <2>2, EndsWell DEF PipelineInv
<1> QED
  BY <1>1, PipelineInvariant, PTL

-----------------------------------------------------------------------------
(***************************************************************************)
(* The pipelines of a GPU block.                                           *)
(*                                                                         *)
(* No thread is a lap ahead of one that it waits for (OneLapAhead,         *)
(* ReleaseSeen).  Every step therefore keeps the phases of the barriers    *)
(* what GpuInv says of them.                                               *)
(***************************************************************************)

-----------------------------------------------------------------------------
(* Slots and laps: step g uses slot Slot(g) for the Lap(g)-th time.        *)

LEMMA SlotRange ==
    ASSUME NEW m \in Nat \ {0}, NEW g \in Nat
    PROVE  SlotOf(m, g) \in 0 .. (m - 1) /\ LapOf(m, g) \in Nat
<1>1. g % m \in 0 .. (m - 1)
  OBVIOUS
<1>2. g \div m \in Nat
  OBVIOUS
<1> QED
  BY <1>1, <1>2 DEF SlotOf, LapOf

LEMMA NextLap ==
    ASSUME NEW m \in Nat \ {0}, NEW g \in Nat
    PROVE  SlotOf(m, g + m) = SlotOf(m, g) /\ LapOf(m, g + m) = LapOf(m, g) + 1
BY DEF SlotOf, LapOf

LEMMA FirstLap ==
    ASSUME NEW m \in Nat \ {0}, NEW g \in Nat, g < m
    PROVE  SlotOf(m, g) = g /\ LapOf(m, g) = 0
BY DEF SlotOf, LapOf

LEMMA StepOf ==
    ASSUME NEW m \in Nat \ {0}, NEW s \in 0 .. (m - 1), NEW k \in Nat
    PROVE  s + k * m \in Nat /\ SlotOf(m, s + k * m) = s /\ LapOf(m, s + k * m) = k
<1>1. (s + k * m) % m = s /\ (s + k * m) \div m = k
  OBVIOUS
<1>2. s + k * m \in Nat
  OBVIOUS
<1> QED
  BY <1>1, <1>2 DEF SlotOf, LapOf

LEMMA LapOrder ==
    ASSUME NEW m \in Nat \ {0}, NEW g \in Nat, NEW h \in Nat, SlotOf(m, g) = SlotOf(m, h), g < h
    PROVE  g + m <= h /\ LapOf(m, g) < LapOf(m, h)
BY DEF SlotOf, LapOf

LEMMA SlotAfterLaps ==
    ASSUME NEW m \in Nat \ {0}, NEW s \in Nat, NEW k \in Nat
    PROVE  (s + k * m) % m = s % m
<1> DEFINE q == s \div m
           r == s % m
<1>1. s = m * q + r /\ q \in Nat /\ r \in 0 .. (m - 1)
  <2>1. s = m * q + r
    OBVIOUS
  <2> QED
    BY <2>1, SlotRange DEF SlotOf, LapOf
<1> HIDE DEF q, r
<1>2. m * q = q * m
  BY <1>1
<1>3. s + k * m = r + (q + k) * m
  BY <1>1, <1>2
<1>4. (r + (q + k) * m) % m = r
  BY <1>1, StepOf DEF SlotOf
<1> QED
  BY <1>3, <1>4 DEF r

\* The steps before a pipeline fill all slots equally often.
LEMMA SlotInPipeline ==
    ASSUME NEW m \in Nat \ {0}, NEW n \in Nat, n % m = 0, NEW p \in Nat, NEW s \in Nat
    PROVE  SlotOf(m, Product(p, n) + s) = SlotOf(m, s)
<1> DEFINE k == n \div m
<1>1. n = k * m /\ k \in Nat
  <2>1. n = m * k + (n % m)
    OBVIOUS
  <2>2. k \in Nat
    OBVIOUS
  <2> QED
    BY <2>1, <2>2
<1> HIDE DEF k
<1>2. p * n = (p * k) * m /\ p * k \in Nat
  BY <1>1
<1> DEFINE j == p * k
<1>3. j \in Nat /\ p * n + s = s + j * m
  BY <1>2, <1>1
<1> HIDE DEF j
<1>4. (s + j * m) % m = s % m
  BY <1>3, SlotAfterLaps
<1> QED
  BY <1>3, <1>4 DEF SlotOf, Product

LEMMA SlotOfRemainder ==
    ASSUME NEW m \in Nat \ {0}, NEW n \in Nat \ {0}, n % m = 0, NEW s \in Nat
    PROVE  SlotOf(m, s % n) = SlotOf(m, s)
<1> DEFINE q == s \div n
           r == s % n
<1>1. s = n * q + r /\ q \in Nat /\ r \in Nat
  <2>1. s = n * q + r
    OBVIOUS
  <2>2. q \in Nat
    OBVIOUS
  <2>3. r \in Nat
    OBVIOUS
  <2> QED
    BY <2>1, <2>2, <2>3
<1> HIDE DEF q, r
<1>2. s = q * n + r
  <2>1. n * q = q * n
    BY <1>1
  <2> QED
    BY <1>1, <2>1
<1>3. SlotOf(m, Product(q, n) + r) = SlotOf(m, r)
  BY <1>1, SlotInPipeline
<1> QED
  BY <1>2, <1>3 DEF r, Product

LEMMA ProductFacts ==
    ASSUME NEW n \in Nat, NEW p \in Nat
    PROVE  /\ Product(p, n) \in Nat
           /\ Product(p + 1, n) = Product(p, n) + n
           /\ Product(0, n) = 0 /\ Product(1, n) = n
           /\ \A q \in Nat : p <= q => Product(p, n) <= Product(q, n)
<1>1. \A q \in Nat : p <= q => p * n <= q * n
  <2> SUFFICES ASSUME NEW q \in Nat, p <= q PROVE p * n <= q * n
    OBVIOUS
  <2> DEFINE e == q - p
  <2>1. e \in Nat /\ q = p + e
    OBVIOUS
  <2> HIDE DEF e
  <2>2. q * n = p * n + e * n /\ e * n \in Nat /\ p * n \in Nat
    BY <2>1
  <2> QED
    BY <2>2
<1>2. p * n \in Nat /\ (p + 1) * n = p * n + n /\ 0 * n = 0 /\ 1 * n = n
  OBVIOUS
<1> QED
  BY <1>1, <1>2 DEF Product

-----------------------------------------------------------------------------
(* What is known of a kernel.                                              *)

LEMMA KernelIsGood ==
    ASSUME kernel \in Kernels, max_concurrent_steps = Shrunk(kernel)
    PROVE  KernelFacts
<1> DEFINE j == CHOOSE i \in Inputs : TRUE
<1>1. j \in Inputs
  BY GpuPipelineAssumption
<1>2. /\ kernel.num_steps \in Nat \ {0} /\ kernel.num_pipelines \in Nat \ {0}
      /\ kernel.max_steps \in Nat \ {0} /\ kernel.num_compute_wgs \in 0 .. MaxWgs
      /\ kernel.static_grid \in BOOLEAN /\ kernel.delay_release \in [Inputs -> Nat]
      /\ Accepted(kernel) /\ EnoughBuffers(kernel) /\ MaxWgs \in Nat
  BY GpuPipelineAssumption
<1>3. delay_release = kernel.delay_release[j]
  BY DEF delay_release
<1> HIDE DEF j
<1>4. max_concurrent_steps \in Nat \ {0} /\ max_concurrent_steps <= kernel.max_steps
  BY <1>2 DEF Shrunk, Smaller
<1>5. max_concurrent_steps = kernel.max_steps \/ max_concurrent_steps = kernel.num_steps
  BY <1>2 DEF Shrunk, Smaller
<1>6. /\ init_prologue_steps \in Nat \ {0}
      /\ init_prologue_steps <= max_concurrent_steps /\ init_prologue_steps <= kernel.num_steps
      /\ init_prologue_steps = max_concurrent_steps \/ init_prologue_steps = kernel.num_steps
  BY <1>2, <1>4 DEF init_prologue_steps, Smaller
<1>7. \A i \in Inputs : kernel.delay_release[i] \in Nat /\ kernel.delay_release[i] < kernel.max_steps
  BY <1>2 DEF EnoughBuffers
<1>8. WarpSpecialized => \A i \in Inputs : kernel.delay_release[i] = delay_release
  BY <1>1, <1>2, <1>3 DEF Accepted, WarpSpecialized
<1>9. ASSUME kernel.num_pipelines > 1
      PROVE  /\ WarpSpecialized /\ delay_release = 0 /\ init_prologue_steps = max_concurrent_steps
             /\ kernel.num_steps % max_concurrent_steps = 0
  <2>1. /\ WarpSpecialized /\ kernel.static_grid /\ delay_release = 0
        /\ kernel.num_steps % Smaller(kernel.max_steps, kernel.num_steps) = 0
    BY <1>1, <1>2, <1>3, <1>9 DEF Accepted, WarpSpecialized
  <2>2. max_concurrent_steps = Smaller(kernel.max_steps, kernel.num_steps)
    BY <2>1 DEF Shrunk
  <2>3. max_concurrent_steps <= kernel.num_steps
    BY <1>2, <2>2 DEF Smaller
  <2> QED
    BY <1>2, <1>4, <2>1, <2>2, <2>3 DEF init_prologue_steps, Smaller
<1>10. \A i \in Inputs : kernel.delay_release[i] <= max_concurrent_steps \/ kernel.num_steps <= max_concurrent_steps
  BY <1>2, <1>4, <1>5, <1>7
<1>11. delay_release \in Nat /\ (delay_release <= max_concurrent_steps \/ kernel.num_steps <= max_concurrent_steps)
  BY <1>1, <1>3, <1>7, <1>10
<1>12. kernel.num_compute_wgs \in Nat
  BY <1>2
<1> QED
  BY <1>2, <1>4, <1>6, <1>7, <1>8, <1>9, <1>10, <1>11, <1>12 DEF KernelFacts

LEMMA ThreadFacts ==
    ASSUME KernelFacts
    PROVE  /\ Threads \subseteq Nat /\ 0 \in Threads /\ memory_thread_idx \in Threads
           /\ ComputeThreads \subseteq Threads /\ 0 \in ComputeThreads
           /\ WarpSpecialized => memory_thread_idx \notin ComputeThreads
           /\ WarpSpecialized => Threads = ComputeThreads \cup {memory_thread_idx}
           /\ ~WarpSpecialized =>
                 Threads = {0} /\ ComputeThreads = {0} /\ memory_thread_idx = 0
           /\ copies_out_in_loop => ComputeThreads = {0}
<1> USE DEF KernelFacts, Threads, ComputeThreads, memory_thread_idx, WarpSpecialized
<1>1. Threads \subseteq Nat /\ 0 \in Threads /\ memory_thread_idx \in Threads
  OBVIOUS
<1>2. ComputeThreads \subseteq Threads /\ 0 \in ComputeThreads
  OBVIOUS
<1>3. WarpSpecialized => /\ memory_thread_idx \notin ComputeThreads
                         /\ Threads = ComputeThreads \cup {memory_thread_idx}
  OBVIOUS
<1>4. ~WarpSpecialized => Threads = {0} /\ ComputeThreads = {0} /\ memory_thread_idx = 0
  OBVIOUS
<1>5. copies_out_in_loop => ComputeThreads = {0}
  BY DEF copies_out_in_loop
<1> QED
  BY <1>1, <1>2, <1>3, <1>4, <1>5

LEMMA LapsAreGood ==
    ASSUME KernelFacts
    PROVE  LapFacts
<1> DEFINE m == max_concurrent_steps
<1>1. m \in Nat \ {0}
  BY DEF KernelFacts
<1>2. \A g : Slot(g) = SlotOf(m, g) /\ Lap(g) = LapOf(m, g)
  BY DEF Slot, SlotOf, Lap
<1>3. Slots = 0 .. (m - 1)
  BY DEF Slots
<1> HIDE DEF m
<1>4. \A g \in Nat : /\ SlotOf(m, g) \in 0 .. (m - 1) /\ LapOf(m, g) \in Nat
                     /\ SlotOf(m, g + m) = SlotOf(m, g) /\ LapOf(m, g + m) = LapOf(m, g) + 1
                     /\ g < m => SlotOf(m, g) = g /\ LapOf(m, g) = 0
  BY <1>1, SlotRange, NextLap, FirstLap
<1>5. \A g, h \in Nat : SlotOf(m, g) = SlotOf(m, h) /\ g < h => g + m <= h /\ LapOf(m, g) < LapOf(m, h)
  BY <1>1, LapOrder
<1>6. \A s \in Slots, k \in Nat : \E g \in Nat : SlotOf(m, g) = s /\ LapOf(m, g) = k
  <2> SUFFICES ASSUME NEW s \in 0 .. (m - 1), NEW k \in Nat
               PROVE  \E g \in Nat : SlotOf(m, g) = s /\ LapOf(m, g) = k
    BY <1>3
  <2>1. s + k * m \in Nat /\ SlotOf(m, s + k * m) = s /\ LapOf(m, s + k * m) = k
    BY <1>1, StepOf
  <2> QED
    BY <2>1
<1> QED
  <2>1. \A g \in Nat : /\ Slot(g) \in Slots /\ Lap(g) \in Nat
                       /\ Slot(g + m) = Slot(g) /\ Lap(g + m) = Lap(g) + 1
                       /\ g < m => Slot(g) = g /\ Lap(g) = 0
    BY <1>2, <1>3, <1>4
  <2>2. \A g, h \in Nat : Slot(g) = Slot(h) /\ g < h => g + m <= h /\ Lap(g) < Lap(h)
    BY <1>2, <1>5
  <2>3. \A s \in Slots, k \in Nat : \E g \in Nat : Slot(g) = s /\ Lap(g) = k
    BY <1>2, <1>6
  <2> QED
    BY <2>1, <2>2, <2>3 DEF LapFacts, m

\* A thread uses the slot of its step in all pipelines.
LEMMA SlotOfIteration ==
    ASSUME KernelFacts, NEW p \in Nat, p < kernel.num_pipelines, NEW s \in Nat
    PROVE  Slot(Product(p, kernel.num_steps) + s) = Slot(s)
<1>1. CASE kernel.num_pipelines > 1
  <2> DEFINE n == kernel.num_steps
             m == max_concurrent_steps
  <2>1. n \in Nat /\ m \in Nat \ {0} /\ n % m = 0
    BY <1>1 DEF KernelFacts
  <2> HIDE DEF n, m
  <2>2. SlotOf(m, Product(p, n) + s) = SlotOf(m, s)
    BY <2>1, SlotInPipeline
  <2>3. \A x : Slot(x) = SlotOf(m, x)
    BY DEF Slot, SlotOf, m
  <2> QED
    BY <2>2, <2>3 DEF n
<1>2. CASE ~(kernel.num_pipelines > 1)
  <2>1. p = 0
    BY <1>2 DEF KernelFacts
  <2>2. Product(p, kernel.num_steps) = 0
    BY <2>1, ProductFacts DEF KernelFacts
  <2>3. Product(p, kernel.num_steps) + s = s
    BY <2>2
  <2> QED
    BY <2>3
<1> QED
  BY <1>1, <1>2

LEMMA KernelStays ==
    ASSUME UNCHANGED fixed
    PROVE  SameKernel
<1>1. kernel' = kernel /\ max_concurrent_steps' = max_concurrent_steps
  BY DEF fixed
<1>2. /\ Threads' = Threads /\ Slots' = Slots
      /\ memory_thread_idx' = memory_thread_idx /\ (WarpSpecialized' <=> WarpSpecialized)
      /\ (copies_out_in_loop' <=> copies_out_in_loop) /\ delay_release' = delay_release
      /\ init_prologue_steps' = init_prologue_steps /\ pending_groups' = pending_groups
  BY <1>1 DEF Threads, Slots, memory_thread_idx, WarpSpecialized,
        copies_out_in_loop, delay_release, init_prologue_steps, pending_groups, Smaller
<1>3. ComputeThreads' = ComputeThreads /\ Quiesce' = Quiesce /\ TotalSteps' = TotalSteps
  BY <1>1, <1>2 DEF ComputeThreads, Quiesce, TotalSteps
<1>4. \A g : Slot(g)' = Slot(g) /\ Lap(g)' = Lap(g) /\ prologue_steps(g)' = prologue_steps(g)
  BY <1>1, <1>2 DEF Slot, Lap, prologue_steps
<1>5. \A w : num_arrivals(w)' = num_arrivals(w)
  BY <1>1 DEF num_arrivals
<1> QED
  BY <1>1, <1>2, <1>3, <1>4, <1>5 DEF SameKernel

-----------------------------------------------------------------------------
(* Where the threads are.                                                  *)

LEMMA Moves ==
    ASSUME PlaceTypes, NEW t \in Threads, NEW l \in Lines, NEW p \in Nat, NEW s \in Nat,
           GoTo(t, l, p, s)
    PROVE  OnlyMoves(t) /\ line'[t] = l /\ pipeline'[t] = p /\ iteration'[t] = s
BY DEF PlaceTypes, GoTo, OnlyMoves

LEMMA LineNames ==
    /\ "prologue" \in Lines /\ "wait_in" \in Lines /\ "finalize" \in Lines
    /\ "deallocate" \in Lines /\ "ended" \in Lines /\ "wait_consumed" \in Lines
    /\ "quiesce" \in Lines /\ "wait_out" \in Lines /\ "body" \in Lines
    /\ "arrive" \in Lines /\ "copy_out" \in Lines /\ "copy_in" \in Lines
BY DEF Lines, AfterWait, AfterBody, AfterRelease, AfterStore

LEMMA Proceeds ==
    ASSUME PlaceTypes, NEW t \in Threads, NEW l \in Lines, Proceed(t, l)
    PROVE  OnlyMoves(t) /\ line'[t] = l /\ pipeline'[t] = pipeline[t] /\ iteration'[t] = iteration[t]
<1>1. pipeline[t] \in Nat /\ iteration[t] \in Nat
  BY DEF PlaceTypes
<1> QED
  BY <1>1, Moves DEF Proceed

LEMMA NextPipelineGoes ==
    ASSUME KernelFacts, PlaceTypes, NEW t \in Threads, NextPipeline(t),
           pipeline[t] < kernel.num_pipelines
    PROVE  /\ OnlyMoves(t)
           /\ line'[t] \in {"wait_in", "deallocate"} /\ iteration'[t] = 0
           /\ line'[t] = "wait_in" => pipeline'[t] < kernel.num_pipelines
           /\ line'[t] = "deallocate" => pipeline'[t] = kernel.num_pipelines
           /\ Product(pipeline'[t], kernel.num_steps)
                = Product(pipeline[t], kernel.num_steps) + kernel.num_steps
<1>1. pipeline[t] \in Nat /\ pipeline[t] + 1 \in Nat /\ kernel.num_pipelines \in Nat /\ 0 \in Nat
  BY DEF PlaceTypes, KernelFacts
<1>2. Product(pipeline[t] + 1, kernel.num_steps)
        = Product(pipeline[t], kernel.num_steps) + kernel.num_steps
  BY <1>1, ProductFacts DEF KernelFacts
<1>3. CASE pipeline[t] + 1 < kernel.num_pipelines
  <2>1. GoTo(t, "wait_in", pipeline[t] + 1, 0)
    BY <1>3 DEF NextPipeline
  <2>2. OnlyMoves(t) /\ line'[t] = "wait_in" /\ pipeline'[t] = pipeline[t] + 1 /\ iteration'[t] = 0
    BY <1>1, <2>1, Moves, LineNames
  <2> QED
    BY <1>2, <1>3, <2>2
<1>4. CASE ~(pipeline[t] + 1 < kernel.num_pipelines)
  <2>1. GoTo(t, "deallocate", kernel.num_pipelines, 0)
    BY <1>4 DEF NextPipeline
  <2>2. /\ OnlyMoves(t) /\ line'[t] = "deallocate" /\ pipeline'[t] = kernel.num_pipelines
        /\ iteration'[t] = 0
    BY <1>1, <2>1, Moves, LineNames
  <2>3. kernel.num_pipelines = pipeline[t] + 1
    BY <1>1, <1>4
  <2> QED
    BY <1>2, <2>2, <2>3
<1> QED
  BY <1>3, <1>4

LEMMA NextStepGoes ==
    ASSUME KernelFacts, PlaceTypes, NEW t \in Threads, NextStep(t),
           pipeline[t] < kernel.num_pipelines, iteration[t] < kernel.num_steps
    PROVE  /\ OnlyMoves(t)
           /\ line'[t] \in {"wait_in", "finalize", "deallocate"}
           /\ line'[t] = "wait_in" =>
                 pipeline'[t] < kernel.num_pipelines /\ iteration'[t] < kernel.num_steps
           /\ line'[t] = "finalize" =>
                 /\ pipeline'[t] < kernel.num_pipelines /\ iteration'[t] = kernel.num_steps
                 /\ copies_out_in_loop
           /\ line'[t] = "deallocate" => pipeline'[t] = kernel.num_pipelines /\ iteration'[t] = 0
           /\ Product(pipeline'[t], kernel.num_steps) + iteration'[t]
                = Product(pipeline[t], kernel.num_steps) + iteration[t] + 1
<1>1. /\ pipeline[t] \in Nat /\ iteration[t] \in Nat /\ iteration[t] + 1 \in Nat
      /\ kernel.num_steps \in Nat \ {0} /\ kernel.num_pipelines \in Nat
  BY DEF PlaceTypes, KernelFacts
<1>2. Product(pipeline[t], kernel.num_steps) \in Nat
  BY <1>1, ProductFacts
<1>3. CASE iteration[t] + 1 < kernel.num_steps
  <2>1. GoTo(t, "wait_in", pipeline[t], iteration[t] + 1)
    BY <1>3 DEF NextStep
  <2>2. /\ OnlyMoves(t) /\ line'[t] = "wait_in" /\ pipeline'[t] = pipeline[t]
        /\ iteration'[t] = iteration[t] + 1
    BY <1>1, <2>1, Moves, LineNames
  <2> QED
    BY <1>1, <1>2, <1>3, <2>2
<1>4. CASE ~(iteration[t] + 1 < kernel.num_steps) /\ copies_out_in_loop
  <2>1. GoTo(t, "finalize", pipeline[t], kernel.num_steps)
    BY <1>4 DEF NextStep
  <2>2. /\ OnlyMoves(t) /\ line'[t] = "finalize" /\ pipeline'[t] = pipeline[t]
        /\ iteration'[t] = kernel.num_steps
    BY <1>1, <2>1, Moves, LineNames
  <2>3. kernel.num_steps = iteration[t] + 1
    BY <1>1, <1>4
  <2> QED
    BY <1>1, <1>2, <1>4, <2>2, <2>3
<1>5. CASE ~(iteration[t] + 1 < kernel.num_steps) /\ ~copies_out_in_loop
  <2>1. NextPipeline(t)
    BY <1>5 DEF NextStep
  <2>2. kernel.num_steps = iteration[t] + 1
    BY <1>1, <1>5
  <2>3. /\ OnlyMoves(t)
        /\ line'[t] \in {"wait_in", "deallocate"} /\ iteration'[t] = 0
        /\ line'[t] = "wait_in" => pipeline'[t] < kernel.num_pipelines
        /\ line'[t] = "deallocate" => pipeline'[t] = kernel.num_pipelines
        /\ Product(pipeline'[t], kernel.num_steps)
             = Product(pipeline[t], kernel.num_steps) + kernel.num_steps
    BY <2>1, NextPipelineGoes
  <2> QED
    BY <1>1, <1>2, <2>2, <2>3
<1> QED
  BY <1>3, <1>4, <1>5

\* The rest of the loop of a pipeline, for a thread that has released its step.
LEMMA StoreOutputGoes ==
    ASSUME KernelFacts, PlaceTypes, NEW t \in Threads, StoreOutput(t),
           pipeline[t] < kernel.num_pipelines, iteration[t] < kernel.num_steps
    PROVE  /\ OnlyMoves(t)
           /\ line'[t] \in {"wait_in", "deallocate", "copy_out"}
           /\ line'[t] = "wait_in" =>
                 pipeline'[t] < kernel.num_pipelines /\ iteration'[t] < kernel.num_steps
           /\ line'[t] = "deallocate" => pipeline'[t] = kernel.num_pipelines /\ iteration'[t] = 0
           /\ line'[t] = "copy_out" =>
                 copies_out_in_loop /\ pipeline'[t] = pipeline[t] /\ iteration'[t] = iteration[t]
           /\ line'[t] # "copy_out" =>
                 Product(pipeline'[t], kernel.num_steps) + iteration'[t]
                   = Product(pipeline[t], kernel.num_steps) + iteration[t] + 1
<1>1. CASE copies_out_in_loop
  <2>1. Proceed(t, "copy_out")
    BY <1>1 DEF StoreOutput
  <2> QED
    BY <1>1, <2>1, Proceeds, LineNames
<1>2. CASE ~copies_out_in_loop
  <2>1. NextStep(t)
    BY <1>2 DEF StoreOutput
  <2> QED
    BY <1>2, <2>1, NextStepGoes
<1> QED
  BY <1>1, <1>2

LEMMA QuiesceGoes ==
    ASSUME KernelFacts, SameKernel, PlaceTypes, WarpSpecialized, NEW s \in Nat,
           QuiesceFrom(memory_thread_idx, s), merging'[memory_thread_idx] = FALSE,
           s >= kernel.num_steps - init_prologue_steps,
           s \in Quiesce \/ s = kernel.num_steps - init_prologue_steps \/ s - 1 \in Quiesce
    PROVE  /\ OnlyMoves(memory_thread_idx) /\ MemoryAt(memory_thread_idx)'
           /\ line'[memory_thread_idx] \in {"quiesce", "deallocate"}
           /\ MemoryDone' = TotalSteps - kernel.num_steps + s
           /\ \A i \in Inputs : FetchedBy(i)' = TotalSteps
<1> DEFINE m == memory_thread_idx
           n == kernel.num_steps
           k == kernel.num_pipelines
           d == delay_release
           q == init_prologue_steps
<1>1. m \in Threads
  BY ThreadFacts
<1>2. /\ n \in Nat \ {0} /\ k \in Nat \ {0} /\ k - 1 \in Nat /\ d \in Nat
      /\ q \in Nat \ {0} /\ q <= n /\ (k > 1 => d = 0)
      /\ q = max_concurrent_steps \/ q = n
      /\ d <= max_concurrent_steps \/ n <= max_concurrent_steps
      /\ max_concurrent_steps \in Nat
  BY DEF KernelFacts
<1>3. /\ TotalSteps = Product(k - 1, n) + n /\ Product(k - 1, n) \in Nat
      /\ k = 1 => Product(k - 1, n) = 0
  <2>1. (k - 1) + 1 = k
    BY <1>2
  <2>2. /\ Product(k - 1, n) \in Nat /\ Product((k - 1) + 1, n) = Product(k - 1, n) + n
        /\ Product(0, n) = 0
    BY <1>2, ProductFacts
  <2> QED
    BY <1>2, <2>1, <2>2 DEF TotalSteps
<1>4. /\ kernel' = kernel /\ WarpSpecialized' /\ memory_thread_idx' = m /\ TotalSteps' = TotalSteps
      /\ delay_release' = d /\ Quiesce' = Quiesce /\ init_prologue_steps' = q
  BY DEF SameKernel
<1>5. Quiesce = (n - q) .. (n - d - 1)
  BY DEF Quiesce
<1>6. CASE s \in Quiesce
  <2>1. GoTo(m, "quiesce", k - 1, s)
    BY <1>6 DEF QuiesceFrom
  <2>2. OnlyMoves(m) /\ line'[m] = "quiesce" /\ pipeline'[m] = k - 1 /\ iteration'[m] = s
    BY <1>1, <1>2, <2>1, Moves, LineNames
  <2>3. MemoryAt(m)'
    BY <1>2, <1>4, <1>6, <2>2 DEF MemoryAt
  <2>4. MemoryDone' = Product(k - 1, n) + s
    BY <1>4, <2>2 DEF MemoryDone
  <2>5. \A i \in Inputs : FetchedBy(i)' = TotalSteps
    BY <1>4, <2>2 DEF FetchedBy
  <2> QED
    BY <1>2, <1>3, <2>2, <2>3, <2>4, <2>5
<1>7. CASE s \notin Quiesce
  <2>1. GoTo(m, "deallocate", k, 0)
    BY <1>7 DEF QuiesceFrom
  <2>2. OnlyMoves(m) /\ line'[m] = "deallocate" /\ pipeline'[m] = k /\ iteration'[m] = 0
    BY <1>1, <1>2, <2>1, Moves, LineNames
  <2>3. MemoryAt(m)'
    BY <1>2, <1>4, <2>2 DEF MemoryAt
  <2>4. MemoryDone' = Monus(TotalSteps, d)
    BY <1>4, <2>2 DEF MemoryDone
  <2>5. \A i \in Inputs : FetchedBy(i)' = TotalSteps
    BY <1>4, <2>2 DEF FetchedBy
  <2>6. Monus(TotalSteps, d) = TotalSteps - n + s
    <3>1. CASE s - 1 \in Quiesce
      <4>1. s = n - d
        BY <1>2, <1>5, <1>7, <3>1
      <4>2. TotalSteps \in Nat /\ TotalSteps - n + s = TotalSteps - d /\ TotalSteps >= d
        BY <1>2, <1>3, <4>1
      <4> QED
        BY <1>2, <4>2 DEF Monus
    <3>2. CASE s = n - q
      <4>1. n - q > n - d - 1
        BY <1>2, <1>5, <1>7, <3>2
      <4>2. q <= d /\ k = 1 /\ TotalSteps = n
        BY <1>2, <1>3, <4>1
      <4> QED
        BY <1>2, <3>2, <4>2 DEF Monus
    <3> QED
      BY <1>7, <3>1, <3>2
  <2> QED
    BY <2>2, <2>3, <2>4, <2>5, <2>6
<1> QED
  BY <1>6, <1>7

LEMMA MemoryLoopGoes ==
    ASSUME KernelFacts, SameKernel, PlaceTypes, WarpSpecialized, NEW p \in Nat, NEW s \in Nat,
           MemoryLoopFrom(memory_thread_idx, p, s), merging'[memory_thread_idx] = FALSE,
           p < kernel.num_pipelines, s <= kernel.num_steps - prologue_steps(p)
    PROVE  MemoryGoes(Product(p, kernel.num_steps) + prologue_steps(p) + s)
<1> DEFINE m == memory_thread_idx
           n == kernel.num_steps
           k == kernel.num_pipelines
           q == init_prologue_steps
           f == Product(p, n) + prologue_steps(p) + s
<1>1. m \in Threads
  BY ThreadFacts
<1>2. n \in Nat \ {0} /\ k \in Nat \ {0} /\ q \in Nat \ {0} /\ q <= n
  BY DEF KernelFacts
<1>3. /\ Product(p, n) \in Nat /\ Product(p + 1, n) = Product(p, n) + n
      /\ prologue_steps(p) \in Nat /\ prologue_steps(p + 1) = 0
  <2>1. Product(p, n) \in Nat /\ Product(p + 1, n) = Product(p, n) + n
    BY <1>2, ProductFacts
  <2>2. p + 1 # 0
    OBVIOUS
  <2> QED
    BY <1>2, <2>1, <2>2 DEF prologue_steps
<1>4. /\ kernel' = kernel /\ WarpSpecialized' /\ memory_thread_idx' = m /\ TotalSteps' = TotalSteps
      /\ init_prologue_steps' = q
  BY DEF SameKernel
<1>5. \A r : prologue_steps(r)' = prologue_steps(r)
  BY DEF SameKernel
<1>6. CASE s < n - prologue_steps(p)
  <2>1. GoTo(m, "wait_consumed", p, s)
    BY <1>6 DEF MemoryLoopFrom
  <2>2. OnlyMoves(m) /\ line'[m] = "wait_consumed" /\ pipeline'[m] = p /\ iteration'[m] = s
    BY <1>1, <2>1, Moves, LineNames
  <2>3. prologue_steps(pipeline[m])' = prologue_steps(p)
    BY <1>4, <2>2 DEF prologue_steps
  <2>4. MemoryAt(m)'
    BY <1>2, <1>4, <1>6, <2>2, <2>3 DEF MemoryAt
  <2>5. MemoryDone' = f - q
    BY <1>4, <2>2, <2>3 DEF MemoryDone
  <2>6. \A i \in Inputs : FetchedBy(i)' = f
    BY <1>4, <2>2, <2>3 DEF FetchedBy
  <2> QED
    BY <2>2, <2>4, <2>5, <2>6 DEF MemoryGoes
<1>7. CASE ~(s < n - prologue_steps(p)) /\ p + 1 < k
  <2>1. GoTo(m, "wait_consumed", p + 1, 0)
    BY <1>7 DEF MemoryLoopFrom
  <2>2. OnlyMoves(m) /\ line'[m] = "wait_consumed" /\ pipeline'[m] = p + 1 /\ iteration'[m] = 0
    BY <1>1, <2>1, Moves, LineNames
  <2>3. prologue_steps(pipeline[m])' = 0
    <3>1. p + 1 # 0
      OBVIOUS
    <3> QED
      BY <1>4, <2>2, <3>1 DEF prologue_steps
  <2>4. MemoryAt(m)'
    BY <1>2, <1>4, <1>7, <2>2, <2>3 DEF MemoryAt
  <2>5. MemoryDone' = (Product(p + 1, n) + 0 + 0) - q
    BY <1>4, <2>2, <2>3 DEF MemoryDone
  <2>6. \A i \in Inputs : FetchedBy(i)' = Product(p + 1, n) + 0 + 0
    BY <1>4, <2>2, <2>3 DEF FetchedBy
  <2>7. f = Product(p + 1, n) + 0 + 0
    BY <1>2, <1>3, <1>7
  <2> QED
    BY <2>2, <2>4, <2>5, <2>6, <2>7 DEF MemoryGoes
<1>8. CASE ~(s < n - prologue_steps(p)) /\ ~(p + 1 < k)
  <2>1. QuiesceFrom(m, n - q) /\ n - q \in Nat
    BY <1>2, <1>8 DEF MemoryLoopFrom
  <2>2. p + 1 = k /\ f = TotalSteps /\ TotalSteps \in Nat
    BY <1>2, <1>3, <1>8 DEF TotalSteps
  <2>3. /\ OnlyMoves(m) /\ MemoryAt(m)' /\ line'[m] \in {"quiesce", "deallocate"}
        /\ MemoryDone' = TotalSteps - n + (n - q)
        /\ \A i \in Inputs : FetchedBy(i)' = TotalSteps
    <3> DEFINE r == n - q
    <3>1. r \in Nat /\ r >= n - q /\ r = n - q /\ QuiesceFrom(m, r)
      BY <1>2, <2>1
    <3> HIDE DEF r
    <3>2. /\ OnlyMoves(m) /\ MemoryAt(m)' /\ line'[m] \in {"quiesce", "deallocate"}
          /\ MemoryDone' = TotalSteps - n + r
          /\ \A i \in Inputs : FetchedBy(i)' = TotalSteps
      BY <3>1, QuiesceGoes
    <3> QED
      BY <3>1, <3>2
  <2> QED
    BY <1>2, <2>2, <2>3 DEF MemoryGoes
<1> QED
  BY <1>6, <1>7, <1>8

LEMMA ControlFacts ==
    ASSUME ControlInv
    PROVE  KernelFacts /\ PlaceTypes /\ LapFacts
<1>1. KernelFacts
  BY KernelIsGood DEF ControlInv
<1> QED
  BY <1>1, LapsAreGood DEF ControlInv, PlaceTypes

LEMMA WhoIsWhere ==
    ASSUME ControlInv, NEW t \in Threads
    PROVE  /\ line[t] \in {"wait_in", "wait_out", "body", "arrive", "copy_out", "finalize"} =>
                 t \in ComputeThreads
           /\ line[t] \in {"wait_consumed", "quiesce"} => WarpSpecialized /\ t = memory_thread_idx
           /\ line[t] \in {"prologue", "copy_in"} => t = memory_thread_idx
<1>1. KernelFacts
  BY ControlFacts
<1>2. CASE t \in ComputeThreads
  <2>1. ComputeAt(t)
    BY <1>2 DEF ControlInv
  <2> QED
    BY <1>1, <1>2, <2>1, ThreadFacts DEF ComputeAt, AfterWait, AfterBody, AfterRelease, AfterStore
<1>3. CASE WarpSpecialized /\ t = memory_thread_idx
  <2>1. MemoryAt(t)
    BY <1>3 DEF ControlInv
  <2> QED
    BY <1>3, <2>1 DEF MemoryAt
<1> QED
  BY <1>1, <1>2, <1>3, ThreadFacts

\* Only what thread t counts can change.
LEMMA OthersKept ==
    ASSUME ControlInv, SameKernel, NEW t \in Threads, OnlyMoves(t),
           \A u \in Threads \ {t} : merging'[u] = merging[u]
    PROVE  /\ \A u \in ComputeThreads \ {t} : SameCompute(u) /\ ComputeAt(u)'
           /\ WarpSpecialized /\ t # memory_thread_idx =>
                 SameMemory /\ SameFetched /\ MemoryAt(memory_thread_idx)'
<1>1. KernelFacts
  BY ControlFacts
<1>2. ASSUME NEW u \in ComputeThreads \ {t}
      PROVE  SameCompute(u) /\ ComputeAt(u)'
  <2>1. u \in Threads \ {t}
    BY <1>1, ThreadFacts
  <2>2. /\ line'[u] = line[u] /\ pipeline'[u] = pipeline[u] /\ iteration'[u] = iteration[u]
        /\ merging'[u] = merging[u]
    BY <2>1 DEF OnlyMoves
  <2>3. /\ kernel' = kernel /\ delay_release' = delay_release
        /\ (WarpSpecialized' <=> WarpSpecialized) /\ init_prologue_steps' = init_prologue_steps
        /\ (copies_out_in_loop' <=> copies_out_in_loop)
    BY DEF SameKernel
  <2>4. Done(u)' = Done(u)
    BY <2>2, <2>3 DEF Done
  <2>5. SameCompute(u)
    BY <2>2, <2>3, <2>4 DEF SameCompute, Merged, Waited, Bodies, Stored, Released, One
  <2>6. ComputeAt(u)
    BY DEF ControlInv
  <2> QED
    BY <2>2, <2>3, <2>5, <2>6 DEF ComputeAt
<1>3. ASSUME WarpSpecialized, t # memory_thread_idx
      PROVE  SameMemory /\ SameFetched /\ MemoryAt(memory_thread_idx)'
  <2> DEFINE m == memory_thread_idx
  <2>1. m \in Threads \ {t}
    BY <1>1, <1>3, ThreadFacts
  <2>2. /\ line'[m] = line[m] /\ pipeline'[m] = pipeline[m] /\ iteration'[m] = iteration[m]
        /\ merging'[m] = merging[m]
    BY <2>1 DEF OnlyMoves
  <2>3. /\ kernel' = kernel /\ delay_release' = delay_release /\ memory_thread_idx' = m
        /\ (WarpSpecialized' <=> WarpSpecialized) /\ init_prologue_steps' = init_prologue_steps
        /\ Quiesce' = Quiesce /\ TotalSteps' = TotalSteps
    BY DEF SameKernel
  <2>4. prologue_steps(pipeline[m])' = prologue_steps(pipeline[m])
    BY <2>2, <2>3 DEF prologue_steps
  <2>5. MemoryDone' = MemoryDone
    BY <2>2, <2>3, <2>4 DEF MemoryDone
  <2>6. SameMemory
    BY <2>2, <2>3, <2>5 DEF SameMemory, Seen, Passed
  <2>7. SameFetched
    BY <1>3, <2>2, <2>3, <2>4 DEF SameFetched, FetchedBy
  <2>8. MemoryAt(m)
    BY <1>3 DEF ControlInv
  <2>9. MemoryAt(m)'
    BY <2>2, <2>3, <2>4, <2>8 DEF MemoryAt
  <2> QED
    BY <2>3, <2>6, <2>7, <2>9
<1> QED
  BY <1>2, <1>3

LEMMA ControlKept ==
    ASSUME ControlInv, SameKernel, NEW t \in Threads, OnlyMoves(t),
           merging' \in [Threads -> BOOLEAN], \A u \in Threads \ {t} : merging'[u] = merging[u],
           level' \in Nat, level' < kernel.max_steps,
           WarpSpecialized \/ line'[0] # "copy_in" => level' = 0,
           t \in ComputeThreads => ComputeAt(t)',
           WarpSpecialized /\ t = memory_thread_idx => MemoryAt(t)'
    PROVE  ControlInv'
<1>1. /\ kernel' \in Kernels /\ max_concurrent_steps' = Shrunk(kernel')
      /\ line' \in [Threads' -> Lines] /\ pipeline' \in [Threads' -> Nat]
      /\ iteration' \in [Threads' -> Nat] /\ merging' \in [Threads' -> BOOLEAN]
      /\ level' \in Nat /\ level' < kernel'.max_steps
      /\ (WarpSpecialized' \/ line'[0] # "copy_in" => level' = 0)
  BY DEF ControlInv, SameKernel, OnlyMoves
<1>2. \A u \in ComputeThreads' : ComputeAt(u)'
  <2>1. ComputeThreads' = ComputeThreads
    BY DEF SameKernel
  <2> QED
    BY <2>1, OthersKept
<1>3. WarpSpecialized' => MemoryAt(memory_thread_idx)'
  <2>1. memory_thread_idx' = memory_thread_idx /\ (WarpSpecialized' <=> WarpSpecialized)
    BY DEF SameKernel
  <2> QED
    BY <2>1, OthersKept
<1> QED
  BY <1>1, <1>2, <1>3 DEF ControlInv

LEMMA FetchedKept ==
    ASSUME ControlInv, SameKernel, NEW t \in ComputeThreads, OnlyMoves(t),
           \A u \in Threads \ {t} : merging'[u] = merging[u],
           line[t] \notin {"prologue", "copy_in"}, line'[t] # "prologue", level' = level,
           ~WarpSpecialized => Done(t)' = Done(t)
    PROVE  SameFetched /\ SameMemory
<1>1. KernelFacts
  BY ControlFacts
<1>2. CASE WarpSpecialized
  BY <1>1, <1>2, OthersKept, ThreadFacts
<1>3. CASE ~WarpSpecialized
  <2>1. t = 0 /\ memory_thread_idx = 0
    BY <1>1, <1>3, ThreadFacts
  <2>2. /\ kernel' = kernel /\ max_concurrent_steps' = max_concurrent_steps
        /\ memory_thread_idx' = 0 /\ ~WarpSpecialized'
    BY <1>3, <2>1 DEF SameKernel
  <2>3. level = 0 /\ level' = 0
    BY <2>1 DEF ControlInv
  <2>4. \A i \in Inputs : kernel.delay_release[i] \in Nat
    BY <1>1 DEF KernelFacts
  <2>5. ASSUME NEW i \in Inputs
        PROVE  FetchedBy(i)' = FetchedBy(i)
    <3>1. ~(level > kernel.delay_release[i]) /\ ~(level' > kernel.delay_release[i])
      BY <2>3, <2>4
    <3>2. FetchedBy(i) = Smaller(kernel.num_steps, max_concurrent_steps + Monus(Done(0) + 0, kernel.delay_release[i]))
      BY <1>3, <2>1, <3>1 DEF FetchedBy, One
    <3>3. FetchedBy(i)' = Smaller(kernel.num_steps, max_concurrent_steps + Monus(Done(0)' + 0, kernel.delay_release[i]))
      BY <1>3, <2>1, <2>2, <3>1 DEF FetchedBy, One
    <3> QED
      BY <1>3, <2>1, <3>2, <3>3
  <2> QED
    BY <1>3, <2>5 DEF SameFetched, SameMemory
<1> QED
  BY <1>2, <1>3

\* The numbers are natural numbers.
LEMMA DoneIsNat ==
    ASSUME ControlInv, NEW t \in Threads
    PROVE  /\ Product(pipeline[t], kernel.num_steps) \in Nat /\ Done(t) \in Nat
           /\ pipeline[t] \in Nat /\ iteration[t] \in Nat
<1>1. pipeline[t] \in Nat /\ iteration[t] \in Nat /\ kernel.num_steps \in Nat
  BY ControlFacts DEF PlaceTypes, KernelFacts
<1>2. Product(pipeline[t], kernel.num_steps) \in Nat
  BY <1>1, ProductFacts
<1> QED
  BY <1>1, <1>2 DEF Done

\* What the memory thread has done is a natural number, whose slot is the one it
\* uses next.
LEMMA MemoryDoneFacts ==
    ASSUME ControlInv, WarpSpecialized, NEW t, t = memory_thread_idx,
           line[t] \in {"wait_consumed", "copy_in", "quiesce"}
    PROVE  /\ MemoryDone \in Nat /\ Slot(iteration[t]) = Slot(MemoryDone)
           /\ line[t] = "quiesce" => MemoryDone + kernel.num_steps = TotalSteps + iteration[t]
           /\ line[t] # "quiesce" =>
                 /\ init_prologue_steps = max_concurrent_steps
                 /\ \A i \in Inputs : FetchedBy(i) = MemoryDone + max_concurrent_steps
                 /\ FetchedInLoop(pipeline[t], iteration[t]) = MemoryDone + max_concurrent_steps
                 /\ MemoryDone + max_concurrent_steps < TotalSteps
<1>1. KernelFacts /\ PlaceTypes /\ LapFacts /\ t \in Threads
  BY ControlFacts, ThreadFacts
<1>2. MemoryAt(t)
  BY DEF ControlInv
<1>3. pipeline[t] \in Nat /\ iteration[t] \in Nat /\ Product(pipeline[t], kernel.num_steps) \in Nat
  BY <1>1, DoneIsNat
<1> DEFINE b == Product(pipeline[t], kernel.num_steps)
           n == kernel.num_steps
           M == max_concurrent_steps
           q == init_prologue_steps
<1>4. pipeline[t] < kernel.num_pipelines /\ pipeline[t] + 1 <= kernel.num_pipelines
  BY <1>1, <1>2, <1>3 DEF MemoryAt, KernelFacts
<1>5. /\ n \in Nat \ {0} /\ M \in Nat \ {0} /\ q \in Nat \ {0} /\ q <= n
      /\ q = M \/ q = n
      /\ kernel.num_pipelines > 1 => q = M
      /\ kernel.num_pipelines \in Nat
  BY <1>1 DEF KernelFacts
<1>6. b + n <= TotalSteps /\ TotalSteps \in Nat /\ (pipeline[t] = 0 => b = 0)
      /\ (pipeline[t] > 0 => b >= n)
      /\ (pipeline[t] + 1 = kernel.num_pipelines => b + n = TotalSteps)
  <2>1. /\ Product(pipeline[t] + 1, n) = b + n /\ Product(0, n) = 0 /\ Product(1, n) = n
        /\ Product(pipeline[t] + 1, n) <= TotalSteps /\ TotalSteps \in Nat
    <3>1. pipeline[t] + 1 \in Nat
      BY <1>3
    <3>2. /\ Product(pipeline[t] + 1, n) = b + n /\ Product(0, n) = 0 /\ Product(1, n) = n
      BY <1>3, <1>5, ProductFacts
    <3>3. Product(pipeline[t] + 1, n) <= Product(kernel.num_pipelines, n)
      BY <1>4, <1>5, <3>1, ProductFacts
    <3>4. Product(kernel.num_pipelines, n) \in Nat
      BY <1>5, ProductFacts
    <3> QED
      BY <3>2, <3>3, <3>4 DEF TotalSteps
  <2>2. pipeline[t] > 0 => Product(1, n) <= b
    <3>1. pipeline[t] > 0 => 1 <= pipeline[t]
      BY <1>3
    <3> QED
      BY <1>3, <1>5, <3>1, ProductFacts
  <2>3. pipeline[t] + 1 = kernel.num_pipelines => b + n = TotalSteps
    BY <2>1 DEF TotalSteps
  <2>4. pipeline[t] = 0 => b = 0
    BY <2>1
  <2>5. pipeline[t] > 0 => b >= n
    BY <2>1, <2>2, <1>3, <1>5
  <2> HIDE DEF b
  <2> QED
    BY <2>1, <2>3, <2>4, <2>5
<1>7. Slot(b + iteration[t]) = Slot(iteration[t])
  BY <1>1, <1>3, <1>4, SlotOfIteration
<1>8. CASE line[t] = "quiesce"
  <2>1. MemoryDone = b + iteration[t]
    BY <1>8 DEF MemoryDone
  <2>2. pipeline[t] + 1 = kernel.num_pipelines
    BY <1>2, <1>8 DEF MemoryAt
  <2> QED
    BY <1>3, <1>5, <1>6, <1>7, <1>8, <2>1, <2>2
<1>9. CASE line[t] # "quiesce"
  <2> DEFINE r == prologue_steps(pipeline[t])
  <2>1. /\ MemoryDone = (b + r + iteration[t]) - q
        /\ \A i \in Inputs : FetchedBy(i) = b + r + iteration[t]
        /\ line[t] # "prologue"
    BY <1>9 DEF MemoryDone, FetchedBy
  <2>2. iteration[t] < n - r
    BY <1>2, <1>9 DEF MemoryAt
  <2>3. r = (IF pipeline[t] = 0 THEN q ELSE 0)
    BY DEF prologue_steps
  <2>4. FetchedInLoop(pipeline[t], iteration[t]) = b + r + iteration[t]
    BY DEF FetchedInLoop, Product
  <2> HIDE DEF r, b
  <2>5. q = M /\ M <= n
    BY <1>3, <1>4, <1>5, <2>2, <2>3
  <2>6. CASE pipeline[t] = 0
    <3>1. MemoryDone = iteration[t]
      BY <1>3, <1>5, <1>6, <2>1, <2>3, <2>6
    <3>2. b + r + iteration[t] = MemoryDone + M /\ MemoryDone + M < TotalSteps
      BY <1>3, <1>5, <1>6, <2>2, <2>3, <2>5, <2>6, <3>1
    <3> QED
      BY <1>3, <1>9, <2>1, <2>4, <2>5, <3>1, <3>2
  <2>7. CASE pipeline[t] # 0
    <3>1. MemoryDone = (b + iteration[t]) - M /\ b >= M /\ b \in Nat
      BY <1>3, <1>5, <1>6, <2>1, <2>3, <2>5, <2>7 DEF b
    <3>2. MemoryDone \in Nat /\ MemoryDone + M = b + iteration[t] /\ r = 0
      BY <1>3, <1>5, <2>3, <2>7, <3>1
    <3>3. Slot(MemoryDone + M) = Slot(MemoryDone)
      BY <1>1, <3>2 DEF LapFacts
    <3>4. b + r + iteration[t] = MemoryDone + M /\ MemoryDone + M < TotalSteps
      BY <1>3, <1>5, <1>6, <2>2, <3>1, <3>2
    <3> QED
      BY <1>7, <1>9, <2>1, <2>4, <2>5, <3>2, <3>3, <3>4 DEF b
  <2> QED
    BY <2>6, <2>7
<1> QED
  BY <1>8, <1>9

\* A compute thread passes the wait for the blocks of a step.
LEMMA WaitInEffect ==
    ASSUME ControlInv, NEW t \in Threads, barrier_wait(t), line[t] = "wait_in"
    PROVE  /\ ControlInv' /\ SameKernel /\ t \in ComputeThreads
           /\ \A u \in ComputeThreads \ {t} : SameCompute(u)
           /\ Waited(t)' = Waited(t) + 1 /\ Merged(t)' = Merged(t) /\ Bodies(t)' = Bodies(t)
           /\ Stored(t)' = Stored(t) /\ Released(t)' = Released(t)
           /\ SameFetched /\ SameMemory
           /\ Slot(iteration[t]) = Slot(Waited(t))
<1>1. KernelFacts /\ PlaceTypes /\ SameKernel /\ t \in ComputeThreads
  BY ControlFacts, KernelStays, WhoIsWhere DEF barrier_wait
<1>2. OnlyMoves(t) /\ line' = line /\ pipeline' = pipeline /\ iteration' = iteration /\ level' = level
  BY <1>1 DEF barrier_wait, place, OnlyMoves, PlaceTypes
<1>3. /\ merging[t] = FALSE /\ merging'[t] = TRUE /\ merging' \in [Threads -> BOOLEAN]
      /\ \A u \in Threads \ {t} : merging'[u] = merging[u]
  BY DEF barrier_wait, ControlInv
<1>4. /\ kernel' = kernel /\ delay_release' = delay_release /\ (WarpSpecialized' <=> WarpSpecialized)
      /\ (copies_out_in_loop' <=> copies_out_in_loop) /\ init_prologue_steps' = init_prologue_steps
  BY <1>1 DEF SameKernel
<1>5. Done(t)' = Done(t) /\ Done(t) \in Nat
  BY <1>2, <1>4, DoneIsNat DEF Done
<1>6. ComputeAt(t)
  BY <1>1 DEF ControlInv
<1>7. ComputeAt(t)'
  BY <1>2, <1>3, <1>4, <1>6 DEF ComputeAt
<1>8. t \in Threads /\ (WarpSpecialized => t # memory_thread_idx)
  BY <1>1, ThreadFacts
<1>9. ControlInv'
  BY <1>1, <1>2, <1>3, <1>7, <1>8, ControlKept DEF ControlInv
<1>10. \A u \in ComputeThreads \ {t} : SameCompute(u)
  BY <1>1, <1>2, <1>3, OthersKept
<1>11. SameFetched /\ SameMemory
  BY <1>1, <1>2, <1>3, <1>5, FetchedKept
<1>12. Merged(t)' = Merged(t) /\ Merged(t) = Done(t)
  BY <1>2, <1>5 DEF Merged, One, AfterWait, AfterBody, AfterRelease, AfterStore
<1>13. Waited(t)' = Waited(t) + 1 /\ Waited(t) = Done(t)
  BY <1>3, <1>5, <1>12 DEF Waited, One
<1>14. Bodies(t)' = Bodies(t) /\ Stored(t)' = Stored(t) /\ Released(t)' = Released(t)
  BY <1>2, <1>4, <1>5 DEF Bodies, Stored, Released, One
<1>15. Done(t) = Product(pipeline[t], kernel.num_steps) + iteration[t]
  BY DEF Done
<1>16. pipeline[t] < kernel.num_pipelines /\ pipeline[t] \in Nat /\ iteration[t] \in Nat
  BY <1>1, <1>6 DEF ComputeAt, PlaceTypes
<1>17. Slot(iteration[t]) = Slot(Waited(t))
  BY <1>1, <1>13, <1>15, <1>16, SlotOfIteration
<1> QED
  BY <1>1, <1>9, <1>10, <1>11, <1>12, <1>13, <1>14, <1>17

\* The memory thread passes the wait for the release of a step.
LEMMA WaitConsumedEffect ==
    ASSUME ControlInv, NEW t \in Threads, barrier_wait(t), line[t] # "wait_in"
    PROVE  /\ ControlInv' /\ SameKernel /\ WarpSpecialized /\ t = memory_thread_idx
           /\ \A u \in ComputeThreads : SameCompute(u)
           /\ Passed' = Passed + 1 /\ Seen' = Seen /\ SameFetched
           /\ Slot(iteration[t]) = Slot(Passed)
<1>1. KernelFacts /\ PlaceTypes /\ LapFacts /\ SameKernel
  BY ControlFacts, KernelStays DEF barrier_wait
<1>2. line[t] \in {"wait_consumed", "quiesce"} /\ WarpSpecialized /\ t = memory_thread_idx
  BY WhoIsWhere DEF barrier_wait, Waits
<1>3. OnlyMoves(t) /\ line' = line /\ pipeline' = pipeline /\ iteration' = iteration /\ level' = level
  BY <1>1 DEF barrier_wait, place, OnlyMoves, PlaceTypes
<1>4. /\ merging[t] = FALSE /\ merging'[t] = TRUE /\ merging' \in [Threads -> BOOLEAN]
      /\ \A u \in Threads \ {t} : merging'[u] = merging[u]
  BY DEF barrier_wait, ControlInv
<1>5. /\ kernel' = kernel /\ delay_release' = delay_release /\ (WarpSpecialized' <=> WarpSpecialized)
      /\ memory_thread_idx' = memory_thread_idx /\ init_prologue_steps' = init_prologue_steps
      /\ Quiesce' = Quiesce /\ TotalSteps' = TotalSteps
      /\ prologue_steps(pipeline[t])' = prologue_steps(pipeline[t])
  BY <1>1, <1>3 DEF SameKernel, prologue_steps
<1>6. MemoryAt(t)
  BY <1>2 DEF ControlInv
<1>7. MemoryAt(t)'
  BY <1>2, <1>3, <1>4, <1>5, <1>6 DEF MemoryAt
<1>8. t \notin ComputeThreads
  BY <1>1, <1>2, ThreadFacts
<1>9. ControlInv'
  BY <1>1, <1>2, <1>3, <1>4, <1>7, <1>8, ControlKept DEF ControlInv
<1>10. \A u \in ComputeThreads : SameCompute(u)
  BY <1>1, <1>3, <1>4, <1>8, OthersKept
<1>11. MemoryDone' = MemoryDone
  BY <1>2, <1>3, <1>5 DEF MemoryDone
<1>12. SameFetched
  BY <1>2, <1>3, <1>5 DEF SameFetched, FetchedBy
<1>14. MemoryDone \in Nat /\ Slot(iteration[t]) = Slot(MemoryDone)
  BY <1>2, MemoryDoneFacts
<1>15. Seen = MemoryDone /\ Seen' = MemoryDone /\ Passed = MemoryDone /\ Passed' = MemoryDone + 1
  BY <1>2, <1>3, <1>4, <1>5, <1>11, <1>14 DEF Seen, Passed, One
<1> QED
  BY <1>1, <1>2, <1>9, <1>10, <1>12, <1>14, <1>15

\* A compute thread merges the clock of a step.
LEMMA MergeInEffect ==
    ASSUME ControlInv, NEW t \in Threads, MergeClock(t), line[t] = "wait_in"
    PROVE  /\ ControlInv' /\ SameKernel /\ t \in ComputeThreads
           /\ \A u \in ComputeThreads \ {t} : SameCompute(u)
           /\ Merged(t)' = Merged(t) + 1 /\ Waited(t)' = Waited(t) /\ Waited(t) = Merged(t) + 1
           /\ Merged(t) \in Nat
           /\ Bodies(t)' = Bodies(t) /\ Stored(t)' = Stored(t) /\ Released(t)' = Released(t)
           /\ SameFetched /\ SameMemory
           /\ Slot(iteration[t]) = Slot(Merged(t))
           /\ line'[t] \in {"wait_out", "body"} /\ (line'[t] = "body" => ~copies_out_in_loop)
<1>1. KernelFacts /\ PlaceTypes /\ SameKernel /\ t \in ComputeThreads
  BY ControlFacts, KernelStays, WhoIsWhere DEF MergeClock
<1>2. /\ Proceed(t, IF copies_out_in_loop THEN "wait_out" ELSE "body") /\ level' = level
  BY DEF MergeClock
<1>3. /\ OnlyMoves(t) /\ pipeline'[t] = pipeline[t] /\ iteration'[t] = iteration[t]
      /\ line'[t] \in {"wait_out", "body"} /\ (line'[t] = "wait_out" <=> copies_out_in_loop)
  BY <1>1, <1>2, Proceeds, LineNames
<1>4. /\ merging[t] = TRUE /\ merging'[t] = FALSE /\ merging' \in [Threads -> BOOLEAN]
      /\ \A u \in Threads \ {t} : merging'[u] = merging[u]
  BY DEF MergeClock, ControlInv
<1>5. /\ kernel' = kernel /\ delay_release' = delay_release /\ (WarpSpecialized' <=> WarpSpecialized)
      /\ (copies_out_in_loop' <=> copies_out_in_loop) /\ init_prologue_steps' = init_prologue_steps
  BY <1>1 DEF SameKernel
<1>6. Done(t)' = Done(t) /\ Done(t) \in Nat
  BY <1>3, <1>5, DoneIsNat DEF Done
<1>7. ComputeAt(t)
  BY <1>1 DEF ControlInv
<1>8. ComputeAt(t)'
  BY <1>3, <1>4, <1>5, <1>7 DEF ComputeAt, AfterWait, AfterBody, AfterRelease, AfterStore
<1>9. t \in Threads /\ (WarpSpecialized => t # memory_thread_idx) /\ (~WarpSpecialized => t = 0)
  BY <1>1, ThreadFacts
<1>10. level' \in Nat /\ level' < kernel.max_steps /\ (WarpSpecialized \/ line'[0] # "copy_in" => level' = 0)
  BY <1>2, <1>9 DEF ControlInv
<1>11. ControlInv'
  BY <1>1, <1>3, <1>4, <1>8, <1>9, <1>10, ControlKept
<1>12. \A u \in ComputeThreads \ {t} : SameCompute(u)
  BY <1>1, <1>3, <1>4, OthersKept
<1>13. SameFetched /\ SameMemory
  BY <1>1, <1>2, <1>3, <1>4, <1>6, FetchedKept
<1>14. Merged(t)' = Done(t) + 1 /\ Merged(t) = Done(t)
  BY <1>3, <1>6 DEF Merged, One, AfterWait, AfterBody, AfterRelease, AfterStore
<1>15. Waited(t)' = Done(t) + 1 /\ Waited(t) = Done(t) + 1
  BY <1>4, <1>6, <1>14 DEF Waited, One
<1>16. Bodies(t)' = Bodies(t) /\ Stored(t)' = Stored(t) /\ Released(t)' = Released(t)
  BY <1>3, <1>5, <1>6 DEF Bodies, Stored, Released, One, AfterBody, AfterRelease, AfterStore
<1>17. Done(t) = Product(pipeline[t], kernel.num_steps) + iteration[t]
  BY DEF Done
<1>18. pipeline[t] < kernel.num_pipelines /\ pipeline[t] \in Nat /\ iteration[t] \in Nat
  BY <1>1, <1>7 DEF ComputeAt, PlaceTypes
<1>19. Slot(iteration[t]) = Slot(Merged(t))
  BY <1>1, <1>14, <1>17, <1>18, SlotOfIteration
<1> QED
  BY <1>1, <1>3, <1>6, <1>11, <1>12, <1>13, <1>14, <1>15, <1>16, <1>19

\* A thread proceeds without counting anything.
LEMMA WaitOutEffect ==
    ASSUME ControlInv, NEW t \in Threads, wait_smem_to_gmem(t)
    PROVE  /\ ControlInv' /\ SameKernel /\ t \in ComputeThreads
           /\ \A u \in ComputeThreads : SameCompute(u)
           /\ SameFetched /\ SameMemory
           /\ line'[t] \in {"body", "wait_in", "deallocate"} /\ copies_out_in_loop
           /\ line'[t] = "body" => Len(groups) <= pending_groups
           /\ line'[t] = "deallocate" => Len(groups) <= 0
<1>1. KernelFacts /\ PlaceTypes /\ SameKernel /\ t \in ComputeThreads
  BY ControlFacts, KernelStays, WhoIsWhere DEF wait_smem_to_gmem
<1>2. ComputeAt(t)
  BY <1>1 DEF ControlInv
<1>3. level' = level /\ merging' = merging
  BY DEF wait_smem_to_gmem
<1>4. line[t] \in {"wait_out", "finalize"} /\ copies_out_in_loop /\ pipeline[t] < kernel.num_pipelines
  BY <1>2 DEF wait_smem_to_gmem, ComputeAt, AfterWait
<1>5. /\ OnlyMoves(t) /\ line'[t] \in {"body", "wait_in", "deallocate"}
      /\ line'[t] = "body" => Len(groups) <= pending_groups
      /\ line'[t] = "deallocate" => Len(groups) <= 0
      /\ line'[t] = "body" <=> line[t] = "wait_out"
      /\ line'[t] \in {"body", "wait_in"} =>
            pipeline'[t] < kernel.num_pipelines /\ iteration'[t] < kernel.num_steps
      /\ line'[t] = "deallocate" => pipeline'[t] = kernel.num_pipelines /\ iteration'[t] = 0
      /\ Product(pipeline'[t], kernel.num_steps) + iteration'[t]
           = Product(pipeline[t], kernel.num_steps) + iteration[t]
  <2>1. CASE line[t] = "wait_out"
    <3>1. Proceed(t, "body") /\ Len(groups) <= pending_groups
      BY <2>1 DEF wait_smem_to_gmem
    <3>2. /\ OnlyMoves(t) /\ line'[t] = "body" /\ pipeline'[t] = pipeline[t]
          /\ iteration'[t] = iteration[t]
      BY <1>1, <3>1, Proceeds, LineNames
    <3>3. iteration[t] < kernel.num_steps
      BY <1>2, <2>1 DEF ComputeAt, AfterWait
    <3> QED
      BY <1>4, <2>1, <3>1, <3>2, <3>3
  <2>2. CASE line[t] = "finalize"
    <3>1. NextPipeline(t) /\ Len(groups) <= 0
      BY <2>2 DEF wait_smem_to_gmem
    <3>2. iteration[t] = kernel.num_steps /\ kernel.num_steps \in Nat \ {0}
      BY <1>1, <1>2, <2>2 DEF ComputeAt, KernelFacts
    <3>3. /\ OnlyMoves(t)
          /\ line'[t] \in {"wait_in", "deallocate"} /\ iteration'[t] = 0
          /\ line'[t] = "wait_in" => pipeline'[t] < kernel.num_pipelines
          /\ line'[t] = "deallocate" => pipeline'[t] = kernel.num_pipelines
          /\ Product(pipeline'[t], kernel.num_steps)
               = Product(pipeline[t], kernel.num_steps) + kernel.num_steps
      BY <1>1, <1>4, <3>1, NextPipelineGoes
    <3>4. Product(pipeline[t], kernel.num_steps) \in Nat
      BY DoneIsNat
    <3> QED
      BY <2>2, <3>1, <3>2, <3>3, <3>4
  <2> QED
    BY <1>4, <2>1, <2>2
<1>6. /\ kernel' = kernel /\ delay_release' = delay_release /\ (WarpSpecialized' <=> WarpSpecialized)
      /\ (copies_out_in_loop' <=> copies_out_in_loop) /\ init_prologue_steps' = init_prologue_steps
  BY <1>1 DEF SameKernel
<1>7. Done(t)' = Done(t)
  BY <1>4, <1>5, <1>6 DEF Done
<1>8. merging[t] = FALSE
  BY <1>2, <1>4 DEF ControlInv, ComputeAt
<1>9. ComputeAt(t)'
  BY <1>3, <1>5, <1>6, <1>8 DEF ComputeAt, AfterWait, AfterBody, AfterRelease, AfterStore
<1>10. t \in Threads /\ (WarpSpecialized => t # memory_thread_idx) /\ (~WarpSpecialized => t = 0)
  BY <1>1, ThreadFacts
<1>11. level' \in Nat /\ level' < kernel.max_steps /\ (WarpSpecialized \/ line'[0] # "copy_in" => level' = 0)
  BY <1>3, <1>4, <1>10 DEF ControlInv
<1>12. merging' \in [Threads -> BOOLEAN] /\ \A u \in Threads \ {t} : merging'[u] = merging[u]
  BY <1>3 DEF ControlInv
<1>13. ControlInv'
  BY <1>1, <1>5, <1>9, <1>10, <1>11, <1>12, ControlKept
<1>14. \A u \in ComputeThreads \ {t} : SameCompute(u)
  BY <1>1, <1>5, <1>12, OthersKept
<1>15. SameFetched /\ SameMemory
  BY <1>1, <1>3, <1>4, <1>5, <1>7, <1>12, FetchedKept
<1>16. SameCompute(t)
  BY <1>3, <1>4, <1>5, <1>6, <1>7
    DEF SameCompute, Merged, Waited, Bodies, Stored, Released, One,
        AfterWait, AfterBody, AfterRelease, AfterStore
<1> QED
  BY <1>1, <1>4, <1>5, <1>13, <1>14, <1>15, <1>16

\* A body ends.
LEMMA EndBodyEffect ==
    ASSUME ControlInv, NEW t \in Threads, EndBody(t)
    PROVE  /\ ControlInv' /\ SameKernel /\ t \in ComputeThreads
           /\ \A u \in ComputeThreads \ {t} : SameCompute(u)
           /\ Bodies(t)' = Bodies(t) + 1 /\ Bodies(t) = StepNumber(t) /\ Bodies(t) \in Nat
           /\ Merged(t)' = Merged(t) /\ Waited(t)' = Waited(t)
           /\ copies_out_in_loop => Stored(t)' = Stored(t)
           /\ WarpSpecialized => Released(t)' = Released(t)
           /\ SameFetched /\ SameMemory
           /\ line'[t] # "body"
           /\ line'[t] = "deallocate" => ~copies_out_in_loop
<1>1. KernelFacts /\ PlaceTypes /\ SameKernel /\ t \in ComputeThreads
  BY ControlFacts, KernelStays, WhoIsWhere DEF EndBody
<1>2. ComputeAt(t) /\ line[t] = "body"
  BY <1>1 DEF ControlInv, EndBody
<1>3. level' = level /\ merging' = merging
  BY DEF EndBody
<1>4. /\ pipeline[t] < kernel.num_pipelines /\ iteration[t] < kernel.num_steps
      /\ merging[t] = FALSE
  BY <1>2 DEF ComputeAt, AfterWait, ControlInv
<1>5. /\ kernel.num_steps \in Nat \ {0} /\ kernel.num_pipelines \in Nat \ {0} /\ delay_release \in Nat
      /\ kernel.num_pipelines > 1 => WarpSpecialized /\ delay_release = 0
  BY <1>1 DEF KernelFacts
<1>6. /\ pipeline[t] \in Nat /\ iteration[t] \in Nat /\ Product(pipeline[t], kernel.num_steps) \in Nat
      /\ pipeline[t] = 0 => Product(pipeline[t], kernel.num_steps) = 0
  BY <1>5, DoneIsNat, ProductFacts
<1> DEFINE D == Product(pipeline[t], kernel.num_steps) + iteration[t]
<1>7. D \in Nat /\ Done(t) = D
  BY <1>2, <1>6 DEF Done
<1>8. /\ kernel' = kernel /\ delay_release' = delay_release /\ (WarpSpecialized' <=> WarpSpecialized)
      /\ (copies_out_in_loop' <=> copies_out_in_loop) /\ init_prologue_steps' = init_prologue_steps
  BY <1>1 DEF SameKernel
<1>9. t \in Threads /\ (WarpSpecialized => t # memory_thread_idx) /\ (~WarpSpecialized => t = 0)
      /\ (~WarpSpecialized => copies_out_in_loop)
  BY <1>1, ThreadFacts DEF copies_out_in_loop, WarpSpecialized, KernelFacts
<1>10. merging' \in [Threads -> BOOLEAN] /\ \A u \in Threads \ {t} : merging'[u] = merging[u]
  BY <1>3 DEF ControlInv
<1>11. level' = 0 /\ level' \in Nat /\ level' < kernel.max_steps
  BY <1>2, <1>3, <1>9 DEF ControlInv
<1>12. CASE WarpSpecialized /\ iteration[t] >= delay_release
  <2>1. Proceed(t, "arrive")
    BY <1>12 DEF EndBody
  <2>2. /\ OnlyMoves(t) /\ line'[t] = "arrive" /\ pipeline'[t] = pipeline[t]
        /\ iteration'[t] = iteration[t]
    BY <1>1, <2>1, Proceeds, LineNames
  <2>3. ComputeAt(t)'
    BY <1>3, <1>4, <1>8, <1>12, <2>2 DEF ComputeAt, AfterWait, AfterBody
  <2>4. Done(t)' = D
    BY <1>8, <2>2 DEF Done
  <2>5. ControlInv'
    BY <1>1, <1>9, <1>10, <1>11, <2>2, <2>3, ControlKept
  <2>6. \A u \in ComputeThreads \ {t} : SameCompute(u)
    BY <1>1, <1>10, <2>2, OthersKept
  <2>7. SameFetched /\ SameMemory
    BY <1>1, <1>2, <1>3, <1>10, <1>12, <2>2, FetchedKept
  <2>8. /\ Bodies(t)' = D + 1 /\ Bodies(t) = D /\ Merged(t)' = Merged(t) /\ Waited(t)' = Waited(t)
        /\ Stored(t)' = Stored(t) /\ Released(t)' = Released(t)
    BY <1>2, <1>3, <1>7, <1>8, <2>2, <2>4
      DEF Merged, Waited, Bodies, Stored, Released, One,
          AfterWait, AfterBody, AfterRelease, AfterStore
  <2> QED
    BY <1>1, <1>7, <2>2, <2>5, <2>6, <2>7, <2>8 DEF StepNumber, Product
<1>13. CASE ~(WarpSpecialized /\ iteration[t] >= delay_release)
  <2>1. StoreOutput(t)
    BY <1>13 DEF EndBody
  <2>2. /\ OnlyMoves(t)
        /\ line'[t] \in {"wait_in", "deallocate", "copy_out"}
        /\ line'[t] = "wait_in" =>
              pipeline'[t] < kernel.num_pipelines /\ iteration'[t] < kernel.num_steps
        /\ line'[t] = "deallocate" => pipeline'[t] = kernel.num_pipelines /\ iteration'[t] = 0
        /\ line'[t] = "copy_out" =>
              copies_out_in_loop /\ pipeline'[t] = pipeline[t] /\ iteration'[t] = iteration[t]
        /\ line'[t] # "copy_out" =>
              Product(pipeline'[t], kernel.num_steps) + iteration'[t] = D + 1
    BY <1>1, <1>4, <2>1, StoreOutputGoes
  <2>3. copies_out_in_loop <=> line'[t] = "copy_out"
    <3>1. CASE copies_out_in_loop
      BY <1>1, <2>1, <3>1, Proceeds, LineNames DEF StoreOutput
    <3> QED
      BY <2>2, <3>1
  <2>4. ComputeAt(t)'
    BY <1>3, <1>4, <1>8, <2>2 DEF ComputeAt, AfterWait, AfterBody, AfterRelease, AfterStore
  <2>5. Done(t)' = IF line'[t] = "copy_out" THEN D ELSE D + 1
    BY <1>8, <2>2 DEF Done
  <2>6. ControlInv'
    BY <1>1, <1>9, <1>10, <1>11, <2>2, <2>4, ControlKept
  <2>7. \A u \in ComputeThreads \ {t} : SameCompute(u)
    BY <1>1, <1>10, <2>2, OthersKept
  <2>8. SameFetched /\ SameMemory
    BY <1>1, <1>2, <1>3, <1>7, <1>9, <1>10, <2>2, <2>3, <2>5, FetchedKept
  <2>9. WarpSpecialized => D + 1 <= delay_release
    BY <1>4, <1>5, <1>6, <1>13
  <2>10. WarpSpecialized => Released(t) = 0 /\ Released(t)' = 0
    BY <1>2, <1>5, <1>7, <1>8, <2>2, <2>5, <2>9
      DEF Released, Monus, One, AfterRelease, AfterStore
  <2>11. /\ Bodies(t)' = D + 1 /\ Bodies(t) = D /\ Merged(t)' = Merged(t) /\ Waited(t)' = Waited(t)
    BY <1>2, <1>3, <1>7, <1>8, <2>2, <2>5
      DEF Merged, Waited, Bodies, One, AfterWait, AfterBody, AfterRelease, AfterStore
  <2>12. copies_out_in_loop => Stored(t)' = Stored(t)
    BY <1>2, <1>7, <2>3, <2>5 DEF Stored, One, AfterStore
  <2> QED
    BY <1>1, <1>7, <2>2, <2>3, <2>6, <2>7, <2>8, <2>10, <2>11, <2>12 DEF StepNumber, Product
<1> QED
  BY <1>12, <1>13

\* A compute thread releases a step.
LEMMA ArriveEffect ==
    ASSUME ControlInv, NEW t \in Threads, barrier_arrive(t)
    PROVE  /\ ControlInv' /\ SameKernel /\ t \in ComputeThreads /\ WarpSpecialized
           /\ \A u \in ComputeThreads \ {t} : SameCompute(u)
           /\ Released(t)' = Released(t) + 1 /\ Released(t) \in Nat
           /\ Bodies(t)' = Bodies(t) /\ Merged(t)' = Merged(t) /\ Waited(t)' = Waited(t)
           /\ copies_out_in_loop => Stored(t)' = Stored(t)
           /\ Bodies(t) = Released(t) + delay_release + 1 /\ Merged(t) = Bodies(t)
           /\ SameFetched /\ SameMemory
           /\ Slot(iteration[t] - delay_release) = Slot(Released(t))
           /\ line'[t] # "body"
           /\ line'[t] = "deallocate" => ~copies_out_in_loop
<1>1. KernelFacts /\ PlaceTypes /\ SameKernel /\ t \in ComputeThreads
  BY ControlFacts, KernelStays, WhoIsWhere DEF barrier_arrive
<1>2. ComputeAt(t) /\ line[t] = "arrive"
  BY <1>1 DEF ControlInv, barrier_arrive
<1>3. level' = level /\ merging' = merging /\ StoreOutput(t)
  BY DEF barrier_arrive
<1>4. /\ pipeline[t] < kernel.num_pipelines /\ iteration[t] < kernel.num_steps
      /\ merging[t] = FALSE /\ WarpSpecialized /\ iteration[t] >= delay_release
  BY <1>2 DEF ComputeAt, AfterWait, AfterBody, ControlInv
<1>5. /\ kernel.num_steps \in Nat \ {0} /\ kernel.num_pipelines \in Nat \ {0} /\ delay_release \in Nat
  BY <1>1 DEF KernelFacts
<1>6. pipeline[t] \in Nat /\ iteration[t] \in Nat /\ Product(pipeline[t], kernel.num_steps) \in Nat
  BY DoneIsNat
<1> DEFINE D == Product(pipeline[t], kernel.num_steps) + iteration[t]
<1>7. D \in Nat /\ Done(t) = D /\ D >= delay_release
  BY <1>2, <1>4, <1>5, <1>6 DEF Done
<1>8. /\ kernel' = kernel /\ delay_release' = delay_release /\ (WarpSpecialized' <=> WarpSpecialized)
      /\ (copies_out_in_loop' <=> copies_out_in_loop) /\ init_prologue_steps' = init_prologue_steps
  BY <1>1 DEF SameKernel
<1>9. t \in Threads /\ t # memory_thread_idx
  BY <1>1, <1>4, ThreadFacts
<1>10. merging' \in [Threads -> BOOLEAN] /\ \A u \in Threads \ {t} : merging'[u] = merging[u]
  BY <1>3 DEF ControlInv
<1>11. level' = 0 /\ level' \in Nat /\ level' < kernel.max_steps
  BY <1>3, <1>4 DEF ControlInv
<1>12. /\ OnlyMoves(t)
       /\ line'[t] \in {"wait_in", "deallocate", "copy_out"}
       /\ line'[t] = "wait_in" =>
             pipeline'[t] < kernel.num_pipelines /\ iteration'[t] < kernel.num_steps
       /\ line'[t] = "deallocate" => pipeline'[t] = kernel.num_pipelines /\ iteration'[t] = 0
       /\ line'[t] = "copy_out" =>
             copies_out_in_loop /\ pipeline'[t] = pipeline[t] /\ iteration'[t] = iteration[t]
       /\ line'[t] # "copy_out" =>
             Product(pipeline'[t], kernel.num_steps) + iteration'[t] = D + 1
  BY <1>1, <1>3, <1>4, StoreOutputGoes
<1>13. copies_out_in_loop <=> line'[t] = "copy_out"
  <2>1. CASE copies_out_in_loop
    BY <1>1, <1>3, <2>1, Proceeds, LineNames DEF StoreOutput
  <2> QED
    BY <1>12, <2>1
<1>14. ComputeAt(t)'
  BY <1>3, <1>4, <1>8, <1>12 DEF ComputeAt, AfterWait, AfterBody, AfterRelease, AfterStore
<1>15. Done(t)' = IF line'[t] = "copy_out" THEN D ELSE D + 1
  BY <1>8, <1>12 DEF Done
<1>16. ControlInv'
  BY <1>1, <1>9, <1>10, <1>11, <1>12, <1>14, ControlKept
<1>17. \A u \in ComputeThreads \ {t} : SameCompute(u)
  BY <1>1, <1>10, <1>12, OthersKept
<1>18. SameFetched /\ SameMemory
  BY <1>1, <1>2, <1>3, <1>4, <1>10, <1>12, FetchedKept
<1>19. Released(t) = D - delay_release /\ Released(t)' = D - delay_release + 1
  BY <1>2, <1>5, <1>7, <1>8, <1>12, <1>15 DEF Released, Monus, One, AfterRelease, AfterStore
<1>20. /\ Bodies(t)' = D + 1 /\ Bodies(t) = D + 1 /\ Merged(t)' = Merged(t) /\ Merged(t) = D + 1
       /\ Waited(t)' = Waited(t)
  BY <1>2, <1>3, <1>7, <1>8, <1>12, <1>15
    DEF Merged, Waited, Bodies, One, AfterWait, AfterBody, AfterRelease, AfterStore
<1>21. copies_out_in_loop => Stored(t)' = Stored(t)
  BY <1>2, <1>7, <1>13, <1>15 DEF Stored, One, AfterStore
<1>22. Slot(iteration[t] - delay_release) = Slot(Released(t))
  <2>1. /\ iteration[t] - delay_release \in Nat
        /\ Released(t) = Product(pipeline[t], kernel.num_steps) + (iteration[t] - delay_release)
    BY <1>4, <1>5, <1>6, <1>19
  <2> QED
    BY <1>1, <1>4, <1>6, <2>1, SlotOfIteration
<1>23. Released(t) \in Nat /\ Bodies(t) = Released(t) + delay_release + 1
  BY <1>5, <1>7, <1>19, <1>20
<1>24. Released(t)' = Released(t) + 1
  BY <1>5, <1>7, <1>19
<1> QED
  BY <1>1, <1>4, <1>12, <1>13, <1>16, <1>17, <1>18, <1>20, <1>21, <1>22, <1>23, <1>24

\* A thread starts to copy the output of a step.
LEMMA StoreEffect ==
    ASSUME ControlInv, NEW t \in Threads, copy_smem_to_gmem(t)
    PROVE  /\ ControlInv' /\ SameKernel /\ t \in ComputeThreads /\ copies_out_in_loop
           /\ \A u \in ComputeThreads \ {t} : SameCompute(u)
           /\ Stored(t)' = Stored(t) + 1 /\ Stored(t) \in Nat
           /\ Released(t)' = Released(t) /\ Bodies(t)' = Bodies(t) /\ Merged(t)' = Merged(t)
           /\ Waited(t)' = Waited(t)
           /\ SameFetched /\ SameMemory
           /\ Slot(iteration[t]) = Slot(Stored(t))
           /\ line'[t] \notin {"body", "deallocate", "ended"}
<1>1. KernelFacts /\ PlaceTypes /\ SameKernel /\ t \in ComputeThreads
  BY ControlFacts, KernelStays, WhoIsWhere DEF copy_smem_to_gmem
<1>2. ComputeAt(t) /\ line[t] = "copy_out"
  BY <1>1 DEF ControlInv, copy_smem_to_gmem
<1>3. level' = level /\ merging' = merging /\ IF WarpSpecialized THEN NextStep(t) ELSE Proceed(t, "copy_in")
  BY DEF copy_smem_to_gmem
<1>4. /\ pipeline[t] < kernel.num_pipelines /\ iteration[t] < kernel.num_steps
      /\ merging[t] = FALSE /\ copies_out_in_loop
  BY <1>2 DEF ComputeAt, AfterWait, AfterBody, AfterRelease, ControlInv
<1>5. pipeline[t] \in Nat /\ iteration[t] \in Nat /\ Product(pipeline[t], kernel.num_steps) \in Nat
  BY DoneIsNat
<1> DEFINE D == Product(pipeline[t], kernel.num_steps) + iteration[t]
<1>6. D \in Nat /\ Done(t) = D
  BY <1>2, <1>5 DEF Done
<1>7. /\ kernel' = kernel /\ delay_release' = delay_release /\ (WarpSpecialized' <=> WarpSpecialized)
      /\ (copies_out_in_loop' <=> copies_out_in_loop) /\ init_prologue_steps' = init_prologue_steps
  BY <1>1 DEF SameKernel
<1>8. t \in Threads /\ (WarpSpecialized => t # memory_thread_idx) /\ (~WarpSpecialized => t = 0)
  BY <1>1, ThreadFacts
<1>9. merging' \in [Threads -> BOOLEAN] /\ \A u \in Threads \ {t} : merging'[u] = merging[u]
  BY <1>3 DEF ControlInv
<1>10. level' = 0 /\ level' \in Nat /\ level' < kernel.max_steps
  BY <1>2, <1>3, <1>8 DEF ControlInv
<1>11. /\ OnlyMoves(t)
       /\ line'[t] \in {"wait_in", "finalize", "copy_in"}
       /\ line'[t] = "wait_in" =>
             pipeline'[t] < kernel.num_pipelines /\ iteration'[t] < kernel.num_steps
       /\ line'[t] = "finalize" =>
             pipeline'[t] < kernel.num_pipelines /\ iteration'[t] = kernel.num_steps
       /\ line'[t] = "copy_in" <=> ~WarpSpecialized
       /\ line'[t] = "copy_in" => pipeline'[t] = pipeline[t] /\ iteration'[t] = iteration[t]
       /\ line'[t] # "copy_in" =>
             Product(pipeline'[t], kernel.num_steps) + iteration'[t] = D + 1
  <2>1. CASE WarpSpecialized
    <3>1. NextStep(t)
      BY <1>3, <2>1
    <3>2. line'[t] # "deallocate"
      <4>1. CASE iteration[t] + 1 < kernel.num_steps
        <5>1. GoTo(t, "wait_in", pipeline[t], iteration[t] + 1)
          BY <3>1, <4>1 DEF NextStep
        <5> QED
          BY <1>1, <1>5, <5>1 DEF GoTo, PlaceTypes
      <4>2. CASE ~(iteration[t] + 1 < kernel.num_steps)
        <5>1. GoTo(t, "finalize", pipeline[t], kernel.num_steps)
          BY <1>4, <3>1, <4>2 DEF NextStep
        <5> QED
          BY <1>1, <1>5, <5>1 DEF GoTo, PlaceTypes
      <4> QED
        BY <4>1, <4>2
    <3> QED
      BY <1>1, <1>4, <2>1, <3>1, <3>2, NextStepGoes
  <2>2. CASE ~WarpSpecialized
    <3>1. Proceed(t, "copy_in")
      BY <1>3, <2>2
    <3> QED
      BY <1>1, <2>2, <3>1, Proceeds, LineNames
  <2> QED
    BY <2>1, <2>2
<1>12. ComputeAt(t)'
  BY <1>3, <1>4, <1>7, <1>11 DEF ComputeAt, AfterWait, AfterBody, AfterRelease, AfterStore
<1>13. Done(t)' = IF line'[t] = "copy_in" THEN D ELSE D + 1
  BY <1>7, <1>11 DEF Done
<1>14. ControlInv'
  BY <1>1, <1>8, <1>9, <1>10, <1>11, <1>12, ControlKept
<1>15. \A u \in ComputeThreads \ {t} : SameCompute(u)
  BY <1>1, <1>9, <1>11, OthersKept
<1>16. SameFetched /\ SameMemory
  BY <1>1, <1>2, <1>3, <1>6, <1>9, <1>11, <1>13, FetchedKept
<1>17. /\ Bodies(t)' = Bodies(t) /\ Merged(t)' = Merged(t) /\ Waited(t)' = Waited(t)
       /\ Released(t)' = Released(t) /\ Stored(t)' = D + 1 /\ Stored(t) = D
  BY <1>2, <1>3, <1>6, <1>7, <1>11, <1>13
    DEF Merged, Waited, Bodies, Released, Stored, One, AfterWait, AfterBody, AfterRelease, AfterStore
<1>18. Slot(iteration[t]) = Slot(Stored(t))
  BY <1>1, <1>4, <1>5, <1>17, SlotOfIteration
<1> QED
  BY <1>1, <1>4, <1>6, <1>11, <1>14, <1>15, <1>16, <1>17, <1>18

\* The memory thread merges the clock of a release.
LEMMA MergeConsumedEffect ==
    ASSUME ControlInv, NEW t \in Threads, MergeClock(t), line[t] # "wait_in"
    PROVE  /\ ControlInv' /\ SameKernel /\ WarpSpecialized /\ t = memory_thread_idx
           /\ \A u \in ComputeThreads : SameCompute(u)
           /\ Seen' = Seen + 1 /\ Passed' = Passed /\ Passed = Seen + 1 /\ Seen \in Nat
           /\ SameFetched
           /\ Slot(iteration[t]) = Slot(Seen)
           /\ line'[0] = line[0]
<1>1. KernelFacts /\ PlaceTypes /\ SameKernel
  BY ControlFacts, KernelStays DEF MergeClock
<1>2. line[t] \in {"wait_consumed", "quiesce"} /\ WarpSpecialized /\ t = memory_thread_idx
  BY WhoIsWhere DEF MergeClock
<1>3. /\ merging[t] = TRUE /\ merging'[t] = FALSE /\ merging' \in [Threads -> BOOLEAN]
      /\ \A u \in Threads \ {t} : merging'[u] = merging[u]
      /\ level' = level
  BY DEF MergeClock, ControlInv
<1>4. MemoryAt(t) /\ t \notin ComputeThreads
  BY <1>1, <1>2, ThreadFacts DEF ControlInv
<1>5. MemoryDone \in Nat /\ Slot(iteration[t]) = Slot(MemoryDone)
  BY <1>2, MemoryDoneFacts
<1>6. Seen = MemoryDone /\ Passed = MemoryDone + 1
  BY <1>2, <1>3, <1>5 DEF Seen, Passed, One
<1>7. /\ kernel' = kernel /\ (WarpSpecialized' <=> WarpSpecialized)
      /\ memory_thread_idx' = memory_thread_idx /\ init_prologue_steps' = init_prologue_steps
      /\ Quiesce' = Quiesce /\ TotalSteps' = TotalSteps
  BY <1>1 DEF SameKernel
<1>8. /\ OnlyMoves(t) /\ MemoryAt(t)' /\ SameFetched
      /\ MemoryDone' + One(line'[t] = "copy_in") = MemoryDone + 1
  <2>1. CASE line[t] = "wait_consumed"
    <3>1. Proceed(t, "copy_in")
      BY <2>1 DEF MergeClock
    <3>2. /\ OnlyMoves(t) /\ line'[t] = "copy_in" /\ pipeline'[t] = pipeline[t]
          /\ iteration'[t] = iteration[t]
      BY <1>1, <3>1, Proceeds, LineNames
    <3>3. prologue_steps(pipeline[t])' = prologue_steps(pipeline[t])
      BY <1>7, <3>2 DEF prologue_steps
    <3>4. MemoryAt(t)'
      BY <1>3, <1>4, <1>7, <2>1, <3>2, <3>3 DEF MemoryAt
    <3>5. MemoryDone' = MemoryDone
      BY <1>2, <1>7, <2>1, <3>2, <3>3 DEF MemoryDone
    <3>6. SameFetched
      BY <1>2, <1>7, <2>1, <3>2, <3>3 DEF SameFetched, FetchedBy
    <3> QED
      BY <1>5, <3>2, <3>4, <3>5, <3>6 DEF One
  <2>2. CASE line[t] = "quiesce"
    <3> DEFINE s == iteration[t] + 1
    <3>1. QuiesceFrom(t, s)
      BY <2>2 DEF MergeClock
    <3>2. /\ iteration[t] \in Quiesce /\ iteration[t] \in Nat
          /\ kernel.num_steps \in Nat /\ init_prologue_steps \in Nat
      BY <1>1, <1>4, <2>2, DoneIsNat DEF MemoryAt, KernelFacts
    <3>3. /\ s \in Nat /\ s >= kernel.num_steps - init_prologue_steps /\ s - 1 \in Quiesce
          /\ s = iteration[t] + 1
      BY <3>2 DEF Quiesce
    <3> HIDE DEF s
    <3>4. /\ OnlyMoves(t) /\ MemoryAt(t)'
          /\ line'[t] \in {"quiesce", "deallocate"}
          /\ MemoryDone' = TotalSteps - kernel.num_steps + s
          /\ \A i \in Inputs : FetchedBy(i)' = TotalSteps
      <4>1. QuiesceFrom(memory_thread_idx, s) /\ merging'[memory_thread_idx] = FALSE
        BY <1>2, <1>3, <3>1
      <4>2. /\ OnlyMoves(memory_thread_idx) /\ MemoryAt(memory_thread_idx)'
            /\ line'[memory_thread_idx] \in {"quiesce", "deallocate"}
            /\ MemoryDone' = TotalSteps - kernel.num_steps + s
            /\ \A i \in Inputs : FetchedBy(i)' = TotalSteps
        BY <1>1, <1>2, <3>3, <4>1, QuiesceGoes
      <4>3. MemoryAt(t)'
        BY <1>2, <1>7, <4>2
      <4> QED
        BY <1>2, <4>2, <4>3
    <3>5. MemoryDone + kernel.num_steps = TotalSteps + iteration[t]
      BY <1>2, <2>2, MemoryDoneFacts
    <3>6. \A i \in Inputs : FetchedBy(i) = TotalSteps
      BY <1>2, <2>2 DEF FetchedBy
    <3>7. TotalSteps \in Nat
      <4>1. kernel.num_pipelines \in Nat
        BY <1>1 DEF KernelFacts
      <4> QED
        BY <3>2, <4>1, ProductFacts DEF TotalSteps
    <3>8. MemoryDone' = MemoryDone + 1
      BY <1>5, <3>2, <3>3, <3>4, <3>5, <3>7
    <3> QED
      BY <1>5, <3>4, <3>6, <3>8 DEF One, SameFetched
  <2> QED
    BY <1>2, <2>1, <2>2
<1>9. ControlInv'
  BY <1>1, <1>2, <1>3, <1>4, <1>8, ControlKept DEF ControlInv
<1>10. \A u \in ComputeThreads : SameCompute(u)
  BY <1>1, <1>3, <1>4, <1>8, OthersKept
<1>11. Seen' = MemoryDone + 1 /\ Passed' = MemoryDone + 1
  <2>1. Seen' = MemoryDone + 1
    BY <1>2, <1>7, <1>8 DEF Seen
  <2> QED
    BY <1>2, <1>3, <1>5, <1>7, <2>1 DEF Passed, One
<1>12. line'[0] = line[0]
  BY <1>1, <1>2, <1>8, ThreadFacts DEF OnlyMoves
<1> QED
  BY <1>1, <1>2, <1>5, <1>6, <1>8, <1>9, <1>10, <1>11, <1>12

\* A thread deallocates.
LEMMA DeallocateEffect ==
    ASSUME ControlInv, NEW t \in Threads, deallocate_barrier(t)
    PROVE  /\ ControlInv' /\ SameKernel /\ SameFetched /\ SameMemory
           /\ \A u \in ComputeThreads : SameCompute(u)
           /\ OnlyMoves(t) /\ line'[t] = "ended"
<1>1. KernelFacts /\ PlaceTypes /\ SameKernel
  BY ControlFacts, KernelStays DEF deallocate_barrier
<1>2. line[t] = "deallocate" /\ Proceed(t, "ended") /\ level' = level /\ merging' = merging
  BY DEF deallocate_barrier
<1>3. /\ OnlyMoves(t) /\ line'[t] = "ended" /\ pipeline'[t] = pipeline[t]
      /\ iteration'[t] = iteration[t]
  BY <1>1, <1>2, Proceeds, LineNames
<1>4. /\ kernel' = kernel /\ delay_release' = delay_release /\ (WarpSpecialized' <=> WarpSpecialized)
      /\ (copies_out_in_loop' <=> copies_out_in_loop) /\ init_prologue_steps' = init_prologue_steps
      /\ memory_thread_idx' = memory_thread_idx /\ Quiesce' = Quiesce /\ TotalSteps' = TotalSteps
  BY <1>1 DEF SameKernel
<1>5. merging' \in [Threads -> BOOLEAN] /\ \A u \in Threads \ {t} : merging'[u] = merging[u]
  BY <1>2 DEF ControlInv
<1>6. level' \in Nat /\ level' < kernel.max_steps /\ (WarpSpecialized \/ line'[0] # "copy_in" => level' = 0)
  <2>1. line'[0] # "copy_in" => line[0] # "copy_in"
    BY <1>1, <1>2, <1>3, ThreadFacts DEF OnlyMoves
  <2> QED
    BY <1>2, <2>1 DEF ControlInv
<1>7. CASE t \in ComputeThreads
  <2>1. ComputeAt(t)
    BY <1>7 DEF ControlInv
  <2>2. ComputeAt(t)'
    BY <1>2, <1>3, <1>4, <2>1 DEF ComputeAt, AfterWait, AfterBody, AfterRelease, AfterStore
  <2>3. WarpSpecialized => t # memory_thread_idx
    BY <1>1, <1>7, ThreadFacts
  <2>4. ControlInv'
    BY <1>1, <1>3, <1>5, <1>6, <2>2, <2>3, ControlKept
  <2>5. \A u \in ComputeThreads \ {t} : SameCompute(u)
    BY <1>1, <1>3, <1>5, OthersKept
  <2>6. Done(t)' = Done(t)
    BY <1>2, <1>3, <1>4 DEF Done
  <2>7. SameCompute(t)
    BY <1>2, <1>3, <1>4, <2>6
      DEF SameCompute, Merged, Waited, Bodies, Stored, Released, One,
          AfterWait, AfterBody, AfterRelease, AfterStore
  <2>8. SameFetched /\ SameMemory
    BY <1>1, <1>2, <1>3, <1>5, <1>7, <2>6, FetchedKept
  <2> QED
    BY <1>1, <1>3, <2>4, <2>5, <2>7, <2>8
<1>8. CASE t \notin ComputeThreads
  <2>1. WarpSpecialized /\ t = memory_thread_idx
    BY <1>1, <1>8, ThreadFacts
  <2>2. MemoryAt(t)
    BY <2>1 DEF ControlInv
  <2>3. MemoryAt(t)'
    BY <1>2, <1>3, <1>4, <2>2 DEF MemoryAt
  <2>4. ControlInv'
    BY <1>1, <1>3, <1>5, <1>6, <1>8, <2>3, ControlKept
  <2>5. \A u \in ComputeThreads : SameCompute(u)
    BY <1>1, <1>3, <1>5, <1>8, OthersKept
  <2>6. MemoryDone' = MemoryDone
    BY <1>2, <1>3, <1>4, <2>1 DEF MemoryDone
  <2>7. SameMemory
    BY <1>2, <1>3, <1>4, <2>1, <2>6 DEF SameMemory, Seen, Passed, One
  <2>8. SameFetched
    BY <1>2, <1>3, <1>4, <2>1 DEF SameFetched, FetchedBy
  <2> QED
    BY <1>1, <1>3, <2>4, <2>5, <2>7, <2>8
<1> QED
  BY <1>7, <1>8

\* The memory thread continues after a fetch.
LEMMA MemoryFetches ==
    ASSUME ControlInv, SameKernel, WarpSpecialized, NEW t \in Threads, t = memory_thread_idx,
           NEW f \in Nat, MemoryGoes(f), merging' = merging, merging[t] = FALSE, level' = level
    PROVE  /\ ControlInv' /\ \A u \in ComputeThreads : SameCompute(u)
           /\ Seen' = f - init_prologue_steps /\ Passed' = f - init_prologue_steps
           /\ \A i \in Inputs : FetchedBy(i)' = f
           /\ line'[0] = line[0]
<1>1. KernelFacts
  BY ControlFacts
<1>2. t \notin ComputeThreads /\ 0 \in Threads \ {t}
  BY <1>1, ThreadFacts
<1>3. memory_thread_idx' = t /\ kernel' = kernel
  BY DEF SameKernel
<1>4. /\ OnlyMoves(t) /\ MemoryAt(t)' /\ line'[t] \in {"wait_consumed", "quiesce", "deallocate"}
      /\ MemoryDone' = f - init_prologue_steps /\ \A i \in Inputs : FetchedBy(i)' = f
  BY <1>3 DEF MemoryGoes
<1>5. level' \in Nat /\ level' < kernel.max_steps /\ level' = 0
  BY DEF ControlInv
<1>6. merging' \in [Threads -> BOOLEAN] /\ \A u \in Threads \ {t} : merging'[u] = merging[u]
  BY DEF ControlInv
<1>7. ControlInv'
  BY <1>2, <1>4, <1>5, <1>6, ControlKept
<1>8. \A u \in ComputeThreads : SameCompute(u)
  BY <1>2, <1>4, <1>6, OthersKept
<1>9. init_prologue_steps \in Nat
  BY <1>1 DEF KernelFacts
<1>10. Seen' = f - init_prologue_steps /\ Passed' = f - init_prologue_steps
  <2>1. Seen' = (f - init_prologue_steps) + 0
    BY <1>3, <1>4 DEF Seen, One
  <2>2. Passed' = Seen' + 0
    BY <1>3 DEF Passed, One
  <2> QED
    BY <1>9, <2>1, <2>2
<1>11. line'[0] = line[0]
  BY <1>2, <1>4 DEF OnlyMoves
<1> QED
  BY <1>4, <1>7, <1>8, <1>10, <1>11

LEMMA FetchNextEffect ==
    ASSUME ControlInv, NEW t \in Threads, FetchNext(t)
    PROVE  \E g \in Nat : Fetches(t, Inputs, g)
<1>1. KernelFacts /\ PlaceTypes /\ LapFacts /\ SameKernel
  BY ControlFacts, KernelStays DEF FetchNext
<1>2. WarpSpecialized /\ line[t] = "copy_in" /\ t = memory_thread_idx
  BY WhoIsWhere DEF FetchNext
<1>3. /\ MemoryDone \in Nat /\ Slot(iteration[t]) = Slot(MemoryDone)
      /\ init_prologue_steps = max_concurrent_steps
      /\ \A i \in Inputs : FetchedBy(i) = MemoryDone + max_concurrent_steps
      /\ FetchedInLoop(pipeline[t], iteration[t]) = MemoryDone + max_concurrent_steps
  BY <1>2, MemoryDoneFacts
<1>4. MemoryAt(t)
  BY <1>2 DEF ControlInv
<1>5. /\ merging[t] = FALSE /\ merging' = merging /\ level' = level
      /\ pipeline[t] < kernel.num_pipelines /\ pipeline[t] \in Nat /\ iteration[t] \in Nat
      /\ iteration[t] < kernel.num_steps - prologue_steps(pipeline[t])
      /\ max_concurrent_steps \in Nat \ {0} /\ kernel.num_steps \in Nat
      /\ prologue_steps(pipeline[t]) \in Nat
  BY <1>1, <1>2, <1>4 DEF MemoryAt, FetchNext, PlaceTypes, KernelFacts, ControlInv, prologue_steps
<1> DEFINE s == iteration[t] + 1
           g == MemoryDone + max_concurrent_steps
<1>6. /\ MemoryLoopFrom(memory_thread_idx, pipeline[t], s) /\ merging'[memory_thread_idx] = FALSE
      /\ s \in Nat /\ s <= kernel.num_steps - prologue_steps(pipeline[t])
  <2>1. MemoryLoopFrom(memory_thread_idx, pipeline[t], s)
    BY <1>2 DEF FetchNext
  <2>2. merging'[memory_thread_idx] = FALSE
    BY <1>2, <1>5
  <2> QED
    BY <1>5, <2>1, <2>2
<1> HIDE DEF s
<1>7. MemoryGoes(Product(pipeline[t], kernel.num_steps) + prologue_steps(pipeline[t]) + s)
  BY <1>1, <1>2, <1>5, <1>6, MemoryLoopGoes
<1>8. Product(pipeline[t], kernel.num_steps) + prologue_steps(pipeline[t]) + s = g + 1
  <2>1. Product(pipeline[t], kernel.num_steps) + prologue_steps(pipeline[t]) + iteration[t] = g
    BY <1>3 DEF FetchedInLoop, Product
  <2>2. Product(pipeline[t], kernel.num_steps) \in Nat
    BY DoneIsNat
  <2> QED
    BY <1>3, <1>5, <2>1, <2>2 DEF s
<1>9. g \in Nat /\ g + 1 \in Nat /\ MemoryGoes(g + 1)
  BY <1>3, <1>5, <1>7, <1>8
<1>10. /\ ControlInv' /\ \A u \in ComputeThreads : SameCompute(u)
       /\ Seen' = (g + 1) - init_prologue_steps /\ Passed' = (g + 1) - init_prologue_steps
       /\ \A i \in Inputs : FetchedBy(i)' = g + 1
       /\ line'[0] = line[0]
  BY <1>1, <1>2, <1>5, <1>9, MemoryFetches
<1>11. Seen = MemoryDone + 1 /\ Passed = MemoryDone + 1
  BY <1>2, <1>3, <1>5 DEF Seen, Passed, One
<1>12. SameMemory
  BY <1>3, <1>5, <1>10, <1>11 DEF SameMemory
<1>13. \A i \in Inputs : FetchedBy(i)' = FetchedBy(i) + One(i \in Inputs) /\ FetchedBy(i) = g
  BY <1>3, <1>10 DEF One
<1>14. Slot(g) = Slot(MemoryDone)
  BY <1>1, <1>3 DEF LapFacts
<1>15. copies' = copies \cup
          {[input |-> i, slot |-> Slot(g), step |-> g, clock |-> clock[t]] : i \in Inputs}
  BY <1>3, <1>14 DEF FetchNext, copy_gmem_to_smem
<1>16. \A h \in Nat : h + max_concurrent_steps = g => h < Seen
  BY <1>3, <1>5, <1>11
<1>17. Fetches(t, Inputs, g)
  BY <1>1, <1>2, <1>9, <1>10, <1>12, <1>13, <1>15, <1>16 DEF Fetches
<1> QED
  BY <1>9, <1>17

LEMMA PrologueEffect ==
    ASSUME ControlInv, NEW t \in Threads, prologue(t)
    PROVE  \E g \in Nat : Fetches(t, Inputs, g)
<1>1. KernelFacts /\ PlaceTypes /\ LapFacts /\ SameKernel
  BY ControlFacts, KernelStays DEF prologue
<1>2. line[t] = "prologue" /\ t = memory_thread_idx
  BY WhoIsWhere DEF prologue
<1> DEFINE g == iteration[t]
           q == init_prologue_steps
           M == max_concurrent_steps
           n == kernel.num_steps
<1>3. /\ q \in Nat \ {0} /\ q <= M /\ M \in Nat \ {0} /\ n \in Nat \ {0}
      /\ (q = M \/ q = n) /\ q <= n /\ kernel.num_pipelines \in Nat \ {0}
  BY <1>1 DEF KernelFacts
<1>4. /\ merging[t] = FALSE /\ pipeline[t] = 0 /\ g \in Nat /\ g < q /\ merging' = merging
      /\ merging' \in [Threads -> BOOLEAN] /\ level' = level
  <2>1. CASE WarpSpecialized
    BY <1>1, <1>2, <2>1 DEF ControlInv, MemoryAt, prologue, PlaceTypes
  <2>2. CASE ~WarpSpecialized
    <3>1. ComputeAt(t)
      BY <1>1, <1>2, <2>2, ThreadFacts DEF ControlInv
    <3> QED
      BY <1>1, <1>2, <3>1 DEF ControlInv, ComputeAt, prologue, PlaceTypes
  <2> QED
    BY <2>1, <2>2
<1>5. \A i \in Inputs : FetchedBy(i) = g
  BY <1>2 DEF FetchedBy
<1>6. Slot(g) = g
  <2>1. g \in Nat /\ g < max_concurrent_steps
    BY <1>3, <1>4
  <2> HIDE DEF g
  <2> QED
    BY <1>1, <2>1 DEF LapFacts
<1>7. copies' = copies \cup
          {[input |-> i, slot |-> Slot(g), step |-> g, clock |-> clock[t]] : i \in Inputs}
  BY <1>6 DEF prologue, copy_gmem_to_smem
<1>8. \A h \in Nat : h + M # g
  BY <1>3, <1>4
<1>9. /\ kernel' = kernel /\ memory_thread_idx' = memory_thread_idx /\ TotalSteps' = TotalSteps
      /\ (WarpSpecialized' <=> WarpSpecialized) /\ init_prologue_steps' = q
      /\ max_concurrent_steps' = M /\ delay_release' = delay_release
      /\ (copies_out_in_loop' <=> copies_out_in_loop)
  BY <1>1 DEF SameKernel
<1>10. WarpSpecialized => Seen = 0 /\ Passed = 0
  BY <1>2, <1>4 DEF Seen, Passed, MemoryDone, One
<1>11. level \in Nat /\ level' < kernel.max_steps /\ level = 0
  <2>1. WarpSpecialized \/ line[0] = "prologue"
    BY <1>1, <1>2, ThreadFacts
  <2> QED
    BY <1>4, <2>1 DEF ControlInv
<1>12. \A u \in Threads \ {t} : merging'[u] = merging[u]
  BY <1>4
<1>13. 0 \in Threads
  BY <1>1, ThreadFacts
<1>14. CASE g + 1 < q
  <2>1. GoTo(t, "prologue", 0, g + 1)
    BY <1>14 DEF prologue
  <2> HIDE DEF g
  <2>2. OnlyMoves(t) /\ line'[t] = "prologue" /\ pipeline'[t] = 0 /\ iteration'[t] = g + 1
    <3>1. g + 1 \in Nat /\ 0 \in Nat
      BY <1>4
    <3>2. "prologue" \in Lines
      BY LineNames
    <3> QED
      BY <1>1, <2>1, <3>1, <3>2, Moves
  <2> USE DEF g
  <2>3. \A i \in Inputs : FetchedBy(i)' = g + 1
    BY <1>2, <1>9, <2>2 DEF FetchedBy
  <2>4. SameMemory
    BY <1>2, <1>4, <1>9, <1>10, <2>2 DEF SameMemory, Seen, Passed, MemoryDone, One
  <2>5. WarpSpecialized => MemoryAt(t)' /\ t \notin ComputeThreads
    <3>1. ASSUME WarpSpecialized
          PROVE  MemoryAt(t)'
      BY <1>4, <1>9, <1>14, <2>2 DEF MemoryAt
    <3> QED
      BY <1>1, <1>2, <3>1, ThreadFacts
  <2>6. ~WarpSpecialized => ComputeAt(t)' /\ SameCompute(t)
    <3>1. ASSUME ~WarpSpecialized
          PROVE  ComputeAt(t)'
      BY <1>4, <1>9, <1>14, <2>2, <3>1 DEF ComputeAt, AfterWait, AfterBody, AfterRelease, AfterStore
    <3>2. ASSUME ~WarpSpecialized
          PROVE  SameCompute(t)
      BY <1>2, <1>4, <1>9, <2>2, <3>2
        DEF SameCompute, Merged, Waited, Bodies, Stored, Released, Done
    <3> QED
      BY <3>1, <3>2
  <2>7. line'[0] \in {"body", "deallocate", "ended"} => line'[0] = line[0]
    BY <1>13, <2>2 DEF OnlyMoves
  <2>8. WarpSpecialized \/ line'[0] # "copy_in" => level' = 0
    BY <1>4, <1>11
  <2>9. ControlInv'
    BY <1>1, <1>4, <1>11, <1>12, <2>2, <2>5, <2>6, <2>8, ControlKept
  <2>10. \A u \in ComputeThreads : SameCompute(u)
    <3>1. \A u \in ComputeThreads \ {t} : SameCompute(u)
      BY <1>1, <1>12, <2>2, OthersKept
    <3> QED
      BY <2>5, <2>6, <3>1
  <2>11. \A i \in Inputs : FetchedBy(i)' = FetchedBy(i) + One(i \in Inputs)
    BY <1>5, <2>3 DEF One
  <2>12. Fetches(t, Inputs, g)
    BY <1>1, <1>2, <1>4, <1>5, <1>7, <1>8, <2>4, <2>7, <2>9, <2>10, <2>11 DEF Fetches
  <2> QED
    BY <1>4, <2>12
<1>15. CASE ~(g + 1 < q) /\ WarpSpecialized
  <2>1. /\ MemoryLoopFrom(memory_thread_idx, 0, 0) /\ merging'[memory_thread_idx] = FALSE
    BY <1>2, <1>4, <1>15 DEF prologue
  <2>2. prologue_steps(0) = q /\ Product(0, n) = 0
    BY <1>3, ProductFacts DEF prologue_steps
  <2>3. 0 < kernel.num_pipelines /\ 0 <= n - prologue_steps(0) /\ 0 \in Nat
    BY <1>3, <2>2
  <2>4. MemoryGoes(Product(0, n) + prologue_steps(0) + 0)
    BY <1>1, <1>15, <2>1, <2>3, MemoryLoopGoes
  <2>5. Product(0, n) + prologue_steps(0) + 0 = q /\ q = g + 1
    BY <1>3, <1>4, <1>15, <2>2
  <2>6. MemoryGoes(q) /\ q \in Nat
    BY <1>3, <2>4, <2>5
  <2>7. /\ ControlInv' /\ \A u \in ComputeThreads : SameCompute(u)
        /\ Seen' = q - init_prologue_steps /\ Passed' = q - init_prologue_steps
        /\ \A i \in Inputs : FetchedBy(i)' = q
        /\ line'[0] = line[0]
    BY <1>1, <1>2, <1>4, <1>15, <2>6, MemoryFetches
  <2>8. SameMemory
    BY <1>3, <1>10, <2>7 DEF SameMemory
  <2>9. \A i \in Inputs : FetchedBy(i)' = FetchedBy(i) + One(i \in Inputs)
    BY <1>5, <2>5, <2>7 DEF One
  <2>10. Fetches(t, Inputs, g)
    BY <1>1, <1>2, <1>4, <1>5, <1>7, <1>8, <2>7, <2>8, <2>9 DEF Fetches
  <2> QED
    BY <1>4, <2>10
<1>16. CASE ~(g + 1 < q) /\ ~WarpSpecialized
  <2>1. GoTo(t, "wait_in", 0, 0)
    BY <1>16 DEF prologue
  <2>2. OnlyMoves(t) /\ line'[t] = "wait_in" /\ pipeline'[t] = 0 /\ iteration'[t] = 0
    BY <1>1, <2>1, Moves, LineNames
  <2>3. t = 0 /\ memory_thread_idx = 0 /\ ComputeThreads = {0}
    BY <1>1, <1>2, <1>16, ThreadFacts
  <2>4. Done(0)' = 0 /\ Done(0) = 0
    <3>1. Product(0, n) = 0
      BY <1>3, ProductFacts
    <3>2. Done(0)' = Product(0, n) + 0
      BY <1>9, <2>2, <2>3 DEF Done
    <3> QED
      BY <1>2, <2>3, <3>1, <3>2 DEF Done
  <2>5. ComputeAt(t)'
    BY <1>3, <1>4, <1>9, <2>2 DEF ComputeAt, AfterWait, AfterBody, AfterRelease, AfterStore
  <2>6. SameCompute(t)
    BY <1>2, <1>4, <1>9, <2>2, <2>3, <2>4
      DEF SameCompute, Merged, Waited, Bodies, Stored, Released, One,
          AfterWait, AfterBody, AfterRelease, AfterStore
  <2>7. \A i \in Inputs : FetchedBy(i)' = q
    <3> SUFFICES ASSUME NEW i \in Inputs PROVE FetchedBy(i)' = q
      OBVIOUS
    <3>1. kernel.delay_release[i] \in Nat
      BY <1>1 DEF KernelFacts
    <3>2. FetchedBy(i)' = Smaller(n, M + Monus(0 + 0, kernel.delay_release[i]))
      BY <1>9, <1>16, <2>2, <2>3, <2>4 DEF FetchedBy, One
    <3>3. Monus(0 + 0, kernel.delay_release[i]) = 0
      BY <3>1 DEF Monus
    <3> QED
      BY <1>3, <3>2, <3>3 DEF Smaller, init_prologue_steps
  <2>8. ControlInv'
    BY <1>1, <1>4, <1>11, <1>12, <1>16, <2>2, <2>5, ControlKept
  <2>9. SameMemory
    BY <1>16 DEF SameMemory
  <2>10. \A i \in Inputs : FetchedBy(i)' = FetchedBy(i) + One(i \in Inputs)
    BY <1>3, <1>4, <1>5, <1>16, <2>7 DEF One
  <2>11. Fetches(t, Inputs, g)
    BY <1>1, <1>2, <1>4, <1>5, <1>7, <1>8, <2>2, <2>3, <2>6, <2>8, <2>9, <2>10 DEF Fetches
  <2> QED
    BY <1>4, <2>11
<1> QED
  BY <1>14, <1>15, <1>16

\* What a step of do_fetch adds to what has been fetched, for an input with delay
\* d at iteration k.
LEMMA FetchCount ==
    ASSUME NEW n \in Nat, NEW M \in Nat, NEW k \in Nat, NEW d \in Nat, k < n, M \in {n} \/ d <= M
    PROVE  /\ k >= d /\ k + (M - d) < n =>
                 /\ Smaller(n, M + Monus(k, d)) = k + (M - d)
                 /\ Smaller(n, M + Monus(k + 1, d)) = k + (M - d) + 1
           /\ ~(k >= d /\ k + (M - d) < n) =>
                 Smaller(n, M + Monus(k + 1, d)) = Smaller(n, M + Monus(k, d))
BY DEF Smaller, Monus

LEMMA DoFetchEffect ==
    ASSUME ControlInv, NEW t \in Threads, do_fetch(t)
    PROVE  \E due, g : Fetches(t, due, g)
<1>1. KernelFacts /\ PlaceTypes /\ LapFacts /\ SameKernel
  BY ControlFacts, KernelStays DEF do_fetch
<1>2. /\ line[t] = "copy_in" /\ ~WarpSpecialized /\ t = 0 /\ memory_thread_idx = 0
      /\ ComputeThreads = {0} /\ Threads = {0}
  BY <1>1, ThreadFacts DEF do_fetch
<1> DEFINE k == iteration[t]
           M == max_concurrent_steps
           n == kernel.num_steps
           d(i) == kernel.delay_release[i]
           g == k + (M - level)
           due == {i \in Inputs : d(i) = level /\ k >= level /\ g < n}
<1>3. /\ M \in Nat \ {0} /\ n \in Nat \ {0} /\ kernel.num_pipelines = 1
      /\ \A i \in Inputs : d(i) \in Nat /\ d(i) < kernel.max_steps
      /\ kernel.max_steps \in Nat
  BY <1>1, <1>2 DEF KernelFacts
<1>4. /\ ComputeAt(t) /\ level \in Nat /\ level < kernel.max_steps
  BY <1>2 DEF ControlInv
<1>5. /\ pipeline[t] = 0 /\ k \in Nat /\ k < n /\ merging[t] = FALSE
      /\ pipeline[t] < kernel.num_pipelines
  BY <1>1, <1>2, <1>3, <1>4
    DEF ComputeAt, PlaceTypes, ControlInv, AfterWait, AfterBody, AfterRelease, AfterStore
<1>6. /\ copies' = copies \cup
            {[input |-> i, slot |-> Slot(g), step |-> g, clock |-> clock[t]] : i \in due}
      /\ merging' = merging
      /\ IF level + 1 < kernel.max_steps THEN level' = level + 1 /\ Proceed(t, "copy_in")
         ELSE level' = 0 /\ NextStep(t)
  BY DEF do_fetch, copy_gmem_to_smem
<1>7. /\ kernel' = kernel /\ memory_thread_idx' = 0 /\ ~WarpSpecialized' /\ max_concurrent_steps' = M
      /\ delay_release' = delay_release /\ init_prologue_steps' = init_prologue_steps
      /\ (copies_out_in_loop' <=> copies_out_in_loop) /\ copies_out_in_loop
  BY <1>1, <1>2 DEF SameKernel, copies_out_in_loop, WarpSpecialized, KernelFacts
<1>8. Product(0, n) = 0 /\ Done(t) = k
  <2>1. Product(0, n) = 0
    BY <1>3, ProductFacts
  <2> QED
    BY <1>2, <1>5, <2>1 DEF Done
<1>9. \A i \in Inputs : FetchedBy(i) = Smaller(n, M + Monus(k + One(level > d(i)), d(i)))
  BY <1>2, <1>8 DEF FetchedBy
<1>10. /\ OnlyMoves(t) /\ line'[t] \in {"copy_in", "wait_in", "finalize"} /\ level' \in Nat
       /\ level' < kernel.max_steps
       /\ line'[t] # "copy_in" => level' = 0
       /\ line'[t] \in {"copy_in", "wait_in"} =>
             pipeline'[t] < kernel.num_pipelines /\ iteration'[t] < n
       /\ line'[t] = "finalize" => pipeline'[t] < kernel.num_pipelines /\ iteration'[t] = n
       /\ Product(pipeline'[t], n) + iteration'[t] = k + One(line'[t] # "copy_in")
       /\ line'[t] = "copy_in" => level' = level + 1
       /\ line'[t] # "copy_in" => level + 1 = kernel.max_steps
  <2>1. CASE level + 1 < kernel.max_steps
    <3>1. level' = level + 1 /\ Proceed(t, "copy_in")
      BY <1>6, <2>1
    <3>2. /\ OnlyMoves(t) /\ line'[t] = "copy_in" /\ pipeline'[t] = pipeline[t]
          /\ iteration'[t] = k
      BY <1>1, <3>1, Proceeds, LineNames
    <3> QED
      BY <1>4, <1>5, <1>8, <2>1, <3>1, <3>2 DEF One
  <2>2. CASE ~(level + 1 < kernel.max_steps)
    <3>1. level' = 0 /\ NextStep(t) /\ level + 1 = kernel.max_steps
      BY <1>3, <1>4, <1>6, <2>2
    <3>2. line'[t] \in {"wait_in", "finalize"}
      <4>1. CASE k + 1 < n
        <5>1. GoTo(t, "wait_in", pipeline[t], k + 1)
          BY <3>1, <4>1 DEF NextStep
        <5> QED
          BY <1>1, <5>1 DEF GoTo, PlaceTypes
      <4>2. CASE ~(k + 1 < n)
        <5>1. GoTo(t, "finalize", pipeline[t], n)
          BY <1>7, <3>1, <4>2 DEF NextStep
        <5> QED
          BY <1>1, <5>1 DEF GoTo, PlaceTypes
      <4> QED
        BY <4>1, <4>2
    <3>3. /\ OnlyMoves(t)
          /\ line'[t] = "wait_in" => pipeline'[t] < kernel.num_pipelines /\ iteration'[t] < n
          /\ line'[t] = "finalize" => pipeline'[t] < kernel.num_pipelines /\ iteration'[t] = n
          /\ Product(pipeline'[t], n) + iteration'[t] = Product(pipeline[t], n) + k + 1
      BY <1>1, <1>5, <3>1, NextStepGoes
    <3>4. Product(pipeline[t], n) + k + 1 = k + 1
      BY <1>5, <1>8
    <3>5. line'[t] # "copy_in" /\ One(line'[t] # "copy_in") = 1
      BY <3>2 DEF One
    <3>6. level' \in Nat /\ level' < kernel.max_steps
      BY <1>4, <3>1
    <3> QED
      BY <3>1, <3>2, <3>3, <3>4, <3>5, <3>6
  <2> QED
    BY <2>1, <2>2
<1>11. Done(t)' = k + One(line'[t] # "copy_in")
  BY <1>7, <1>10 DEF Done
<1>12. ComputeAt(t)'
  BY <1>2, <1>5, <1>6, <1>7, <1>10 DEF ComputeAt, AfterWait, AfterBody, AfterRelease, AfterStore
<1>13. ControlInv'
  <2>1. merging' \in [Threads -> BOOLEAN] /\ \A u \in Threads \ {t} : merging'[u] = merging[u]
    BY <1>6 DEF ControlInv
  <2>2. ~WarpSpecialized /\ (line'[0] # "copy_in" => level' = 0)
    BY <1>2, <1>10
  <2> QED
    BY <1>1, <1>10, <1>12, <2>1, <2>2, ControlKept
<1>14. /\ SameCompute(t) /\ Merged(t) = k + 1 /\ Bodies(t) = k + 1
  BY <1>2, <1>5, <1>6, <1>7, <1>8, <1>10, <1>11
    DEF SameCompute, Merged, Waited, Bodies, Stored, One,
        AfterWait, AfterBody, AfterRelease, AfterStore
<1>15. \A i \in Inputs : FetchedBy(i)' = FetchedBy(i) + One(i \in due) /\ (i \in due => FetchedBy(i) = g)
  <2> SUFFICES ASSUME NEW i \in Inputs
               PROVE  FetchedBy(i)' = FetchedBy(i) + One(i \in due) /\ (i \in due => FetchedBy(i) = g)
    OBVIOUS
  <2>1. FetchedBy(i)' = Smaller(n, M + Monus(Done(t)' + One(line'[t] = "copy_in" /\ level' > d(i)), d(i)))
    BY <1>2, <1>7, <1>10 DEF FetchedBy
  <2>2. d(i) \in Nat /\ d(i) < kernel.max_steps /\ (M \in {n} \/ d(i) <= M)
    <3>1. d(i) <= M \/ M = n
      <4>1. max_concurrent_steps = Shrunk(kernel)
        BY DEF ControlInv
      <4>2. M = kernel.max_steps \/ M = n
        BY <4>1 DEF Shrunk, Smaller
      <4> QED
        BY <1>3, <4>2
    <3> QED
      BY <1>3, <3>1
  <2> DEFINE a == Smaller(n, M + Monus(k, d(i)))
             b == Smaller(n, M + Monus(k + 1, d(i)))
  <2>3. a \in Nat /\ b \in Nat
    BY <1>3, <1>5, <2>2 DEF Smaller, Monus
  <2>4. /\ k >= d(i) /\ k + (M - d(i)) < n => a = k + (M - d(i)) /\ b = k + (M - d(i)) + 1
        /\ ~(k >= d(i) /\ k + (M - d(i)) < n) => b = a
    <3> DEFINE e == d(i)
    <3>1. n \in Nat /\ M \in Nat /\ k \in Nat /\ e \in Nat /\ k < n /\ (M \in {n} \/ e <= M)
      BY <1>3, <1>5, <2>2
    <3> HIDE DEF e, n, M, k
    <3>2. /\ k >= e /\ k + (M - e) < n =>
                /\ Smaller(n, M + Monus(k, e)) = k + (M - e)
                /\ Smaller(n, M + Monus(k + 1, e)) = k + (M - e) + 1
          /\ ~(k >= e /\ k + (M - e) < n) =>
                Smaller(n, M + Monus(k + 1, e)) = Smaller(n, M + Monus(k, e))
      BY <3>1, FetchCount
    <3> QED
      BY <3>2 DEF e
  <2>5. Done(t)' + One(line'[t] = "copy_in" /\ level' > d(i)) = k + One(level + 1 > d(i))
    BY <1>3, <1>4, <1>5, <1>10, <1>11, <2>2 DEF One
  <2>6. FetchedBy(i) = Smaller(n, M + Monus(k + One(level > d(i)), d(i)))
    BY <1>9
  <2>7. FetchedBy(i)' = Smaller(n, M + Monus(k + One(level + 1 > d(i)), d(i)))
    BY <2>1, <2>5
  <2>8. CASE level > d(i)
    <3>1. One(level > d(i)) = 1 /\ One(level + 1 > d(i)) = 1 /\ i \notin due
      BY <1>4, <2>2, <2>8 DEF One
    <3>2. FetchedBy(i) = b /\ FetchedBy(i)' = b
      BY <2>6, <2>7, <3>1
    <3> QED
      BY <2>3, <3>1, <3>2 DEF One
  <2>9. CASE level < d(i)
    <3>1. One(level > d(i)) = 0 /\ One(level + 1 > d(i)) = 0 /\ i \notin due /\ k + 0 = k
      BY <1>4, <1>5, <2>2, <2>9 DEF One
    <3>2. FetchedBy(i) = a /\ FetchedBy(i)' = a
      BY <2>6, <2>7, <3>1
    <3> QED
      BY <2>3, <3>1, <3>2 DEF One
  <2>10. CASE level = d(i)
    <3>1. One(level > d(i)) = 0 /\ One(level + 1 > d(i)) = 1 /\ k + 0 = k
      BY <1>4, <1>5, <2>2, <2>10 DEF One
    <3>2. FetchedBy(i) = a /\ FetchedBy(i)' = b
      BY <2>6, <2>7, <3>1
    <3>3. i \in due <=> k >= d(i) /\ k + (M - d(i)) < n
      BY <2>10
    <3> HIDE DEF a, b
    <3> QED
      BY <2>3, <2>4, <2>10, <3>2, <3>3 DEF One
  <2> QED
    BY <1>4, <2>2, <2>8, <2>9, <2>10
<1>16. due # {} => g \in Nat
  BY <1>3, <1>4, <1>5
<1>17. \A i \in due, h \in Nat : h + M = g => h < Merged(0) /\ h + d(i) < Bodies(0)
  BY <1>2, <1>3, <1>4, <1>5, <1>14
<1>18. Fetches(t, due, g)
  <2> HIDE DEF due
  <2>1. due \subseteq Inputs
    BY DEF due
  <2>2. /\ \A u \in ComputeThreads : SameCompute(u)
        /\ line'[0] \in {"body", "deallocate", "ended"} => line'[0] = line[0]
    BY <1>2, <1>10, <1>14
  <2>3. SameMemory
    BY <1>2 DEF SameMemory
  <2>4. t = memory_thread_idx
    BY <1>2
  <2> HIDE DEF g
  <2> QED
    BY <1>1, <1>2, <1>6, <1>13, <1>15, <1>16, <1>17, <2>1, <2>2, <2>3, <2>4 DEF Fetches
<1> QED
  BY <1>18

\* No thread moves.
LEMMA StayEffect ==
    ASSUME ControlInv, UNCHANGED <<fixed, place, level, merging>>
    PROVE  /\ ControlInv' /\ SameKernel /\ SameFetched /\ SameMemory
           /\ \A u \in ComputeThreads : SameCompute(u)
           /\ line' = line
<1>1. KernelFacts /\ SameKernel
  BY ControlFacts, KernelStays
<1>2. /\ line' = line /\ pipeline' = pipeline /\ iteration' = iteration
      /\ merging' = merging /\ level' = level
  BY DEF place
<1>3. /\ kernel' = kernel /\ max_concurrent_steps' = max_concurrent_steps
      /\ Threads' = Threads /\ ComputeThreads' = ComputeThreads
      /\ memory_thread_idx' = memory_thread_idx /\ (WarpSpecialized' <=> WarpSpecialized)
      /\ (copies_out_in_loop' <=> copies_out_in_loop) /\ delay_release' = delay_release
      /\ init_prologue_steps' = init_prologue_steps /\ Quiesce' = Quiesce /\ TotalSteps' = TotalSteps
  BY <1>1 DEF SameKernel
<1>4. \A p : prologue_steps(p)' = prologue_steps(p)
  BY <1>1 DEF SameKernel
<1>5. \A u : ComputeAt(u) => ComputeAt(u)'
  BY <1>2, <1>3 DEF ComputeAt
<1>6. prologue_steps(pipeline[memory_thread_idx])' = prologue_steps(pipeline[memory_thread_idx])
  BY <1>2, <1>3 DEF prologue_steps
<1>7. MemoryAt(memory_thread_idx) => MemoryAt(memory_thread_idx)'
  BY <1>2, <1>3, <1>6 DEF MemoryAt
<1>8. ControlInv'
  BY <1>2, <1>3, <1>5, <1>7 DEF ControlInv
<1>9. \A u : Done(u)' = Done(u)
  BY <1>2, <1>3 DEF Done
<1>10. \A u \in ComputeThreads : SameCompute(u)
  BY <1>2, <1>3, <1>9 DEF SameCompute, Merged, Waited, Bodies, Stored, Released
<1>11. MemoryDone' = MemoryDone
  BY <1>2, <1>3, <1>6 DEF MemoryDone
<1>12. SameMemory
  BY <1>2, <1>3, <1>11 DEF SameMemory, Seen, Passed
<1>13. SameFetched
  BY <1>2, <1>3, <1>6, <1>9 DEF SameFetched, FetchedBy
<1> QED
  BY <1>1, <1>2, <1>8, <1>10, <1>12, <1>13

LEMMA NobodyEnds ==
    ASSUME ControlInv, NEW t \in Threads, line[t] # "ended", NEW l, l # "ended",
           line' = [line EXCEPT ![t] = l]
    PROVE  SameEnded
<1>1. DOMAIN line = Threads
  BY DEF ControlInv
<1> QED
  BY <1>1 DEF SameEnded, Ended

LEMMA GoOn ==
    ASSUME ControlInv, NEW t \in Threads, line[t] # "ended",
           \/ \E l : l # "ended" /\ Proceed(t, l)
           \/ \E l, p, s : l # "ended" /\ GoTo(t, l, p, s)
           \/ NextPipeline(t) \/ NextStep(t) \/ StoreOutput(t)
           \/ \E s : QuiesceFrom(t, s)
           \/ \E p, s : MemoryLoopFrom(t, p, s)
    PROVE  SameEnded
<1>1. \A l, p, s : l # "ended" /\ GoTo(t, l, p, s) => SameEnded
  BY NobodyEnds DEF GoTo
<1>2. \A l : l # "ended" /\ Proceed(t, l) => SameEnded
  BY <1>1 DEF Proceed
<1>3. NextPipeline(t) => SameEnded
  BY <1>1 DEF NextPipeline
<1>4. NextStep(t) => SameEnded
  BY <1>1, <1>3 DEF NextStep
<1>5. StoreOutput(t) => SameEnded
  BY <1>2, <1>4 DEF StoreOutput
<1>6. \A s : QuiesceFrom(t, s) => SameEnded
  BY <1>1 DEF QuiesceFrom
<1>7. \A p, s : MemoryLoopFrom(t, p, s) => SameEnded
  BY <1>1, <1>6 DEF MemoryLoopFrom
<1> QED
  BY <1>1, <1>2, <1>3, <1>4, <1>5, <1>6, <1>7

LEMMA OnlyDeallocateEnds ==
    ASSUME ControlInv, NEW t \in Threads, ThreadStep(t), ~deallocate_barrier(t)
    PROVE  SameEnded
<1>1. CASE prologue(t)
  BY <1>1, GoOn DEF prologue
<1>2. CASE FetchNext(t)
  BY <1>2, GoOn DEF FetchNext
<1>3. CASE do_fetch(t)
  BY <1>3, GoOn DEF do_fetch
<1>4. CASE barrier_wait(t)
  BY <1>4 DEF barrier_wait, place, SameEnded, Ended
<1>5. CASE MergeClock(t)
  <2>1. CASE line[t] = "wait_in"
    <3>1. Proceed(t, IF copies_out_in_loop THEN "wait_out" ELSE "body")
      BY <1>5, <2>1 DEF MergeClock
    <3>2. (IF copies_out_in_loop THEN "wait_out" ELSE "body") # "ended"
      OBVIOUS
    <3> QED
      BY <2>1, <3>1, <3>2, GoOn
  <2>2. CASE line[t] = "wait_consumed"
    BY <1>5, <2>2, GoOn DEF MergeClock
  <2>3. CASE line[t] = "quiesce"
    BY <1>5, <2>3, GoOn DEF MergeClock
  <2> QED
    BY <1>5, <2>1, <2>2, <2>3 DEF MergeClock
<1>6. CASE wait_smem_to_gmem(t)
  BY <1>6, GoOn DEF wait_smem_to_gmem
<1>7. CASE EndBody(t)
  BY <1>7, GoOn DEF EndBody
<1>8. CASE barrier_arrive(t)
  BY <1>8, GoOn DEF barrier_arrive
<1>9. CASE copy_smem_to_gmem(t)
  BY <1>9, GoOn DEF copy_smem_to_gmem
<1> QED
  BY <1>1, <1>2, <1>3, <1>4, <1>5, <1>6, <1>7, <1>8, <1>9 DEF ThreadStep

-----------------------------------------------------------------------------
(* How far the threads are of each other.                                  *)

LEMMA ComputeIsCounted ==
    ASSUME ControlInv, NEW t \in ComputeThreads
    PROVE  ComputeCounts(t)
<1>1. KernelFacts /\ PlaceTypes /\ t \in Threads /\ ComputeAt(t)
  BY ControlFacts, ThreadFacts DEF ControlInv
<1>2. /\ pipeline[t] \in Nat /\ iteration[t] \in Nat /\ Done(t) \in Nat
      /\ Product(pipeline[t], kernel.num_steps) \in Nat
  BY <1>1, DoneIsNat
<1> DEFINE n == kernel.num_steps
           k == kernel.num_pipelines
<1>3. n \in Nat \ {0} /\ k \in Nat \ {0} /\ delay_release \in Nat
  BY <1>1 DEF KernelFacts
<1>4. TotalSteps \in Nat
  BY <1>3, ProductFacts DEF TotalSteps
<1>5. pipeline[t] < k => Product(pipeline[t], n) + n <= TotalSteps
  <2>1. pipeline[t] + 1 \in Nat /\ (pipeline[t] < k => pipeline[t] + 1 <= k)
    BY <1>2, <1>3
  <2>2. Product(pipeline[t] + 1, n) = Product(pipeline[t], n) + n
    BY <1>2, <1>3, ProductFacts
  <2>3. pipeline[t] < k => Product(pipeline[t] + 1, n) <= Product(k, n)
    BY <1>3, <2>1, ProductFacts
  <2> QED
    BY <2>2, <2>3 DEF TotalSteps
<1>6. Done(t) <= TotalSteps /\ (line[t] \in {"wait_in"} \cup AfterWait => Done(t) + 1 <= TotalSteps)
  <2>1. CASE line[t] = "prologue"
    BY <1>4, <2>1 DEF Done, AfterWait, AfterBody, AfterRelease, AfterStore
  <2>2. CASE line[t] \in {"wait_in"} \cup AfterWait
    <3>1. pipeline[t] < k /\ iteration[t] < n /\ line[t] # "prologue"
      BY <1>1, <2>2 DEF ComputeAt, AfterWait, AfterBody, AfterRelease, AfterStore
    <3>2. Done(t) = Product(pipeline[t], n) + iteration[t]
      BY <3>1 DEF Done
    <3> QED
      BY <1>2, <1>3, <1>4, <1>5, <3>1, <3>2
  <2>3. CASE line[t] = "finalize"
    <3>1. pipeline[t] < k /\ iteration[t] = n
      BY <1>1, <2>3 DEF ComputeAt
    <3>2. Done(t) = Product(pipeline[t], n) + iteration[t]
      BY <2>3 DEF Done
    <3> QED
      BY <1>5, <2>3, <3>1, <3>2 DEF AfterWait, AfterBody, AfterRelease, AfterStore
  <2>4. CASE line[t] \in {"deallocate", "ended"}
    <3>1. Done(t) = TotalSteps + 0
      BY <1>1, <2>4 DEF ComputeAt, Done, TotalSteps
    <3> QED
      BY <1>4, <2>4, <3>1 DEF AfterWait, AfterBody, AfterRelease, AfterStore
  <2> QED
    BY <1>1, <2>1, <2>2, <2>3, <2>4 DEF ComputeAt
<1>7. line[t] \in {"deallocate", "ended"} => Done(t) = TotalSteps
  <2>1. line[t] \in {"deallocate", "ended"} => Done(t) = TotalSteps + 0
    BY <1>1 DEF ComputeAt, Done, TotalSteps
  <2> QED
    BY <1>4, <2>1
<1>8. merging[t] => line[t] = "wait_in"
  BY <1>1 DEF ComputeAt
<1> DEFINE w == One(line[t] \in AfterWait)
           b == One(line[t] \in AfterBody)
           r == One(line[t] \in AfterRelease)
           s == One(line[t] \in AfterStore)
           m == One(merging[t])
<1>9. /\ w \in 0 .. 1 /\ b \in 0 .. 1 /\ r \in 0 .. 1 /\ s \in 0 .. 1 /\ m \in 0 .. 1
      /\ b <= w /\ r <= b /\ s <= r
  BY DEF One, AfterWait, AfterBody, AfterRelease, AfterStore
<1>10. w + m > 0 => Done(t) + 1 <= TotalSteps
  BY <1>6, <1>8 DEF One
<1>11. w + m <= 1
  BY <1>8 DEF One, AfterWait, AfterBody, AfterRelease, AfterStore
<1>12. /\ Merged(t) = Done(t) + w /\ Waited(t) = Done(t) + w + m /\ Bodies(t) = Done(t) + b
       /\ Stored(t) = Done(t) + s /\ Released(t) = Monus(Done(t) + r, delay_release)
  BY DEF Merged, Waited, Bodies, Stored, Released
<1>13. line[t] \in {"deallocate", "ended"} => w = 0 /\ m = 0
  BY <1>8 DEF One, AfterWait, AfterBody, AfterRelease, AfterStore
<1>14. line[t] = "body" => /\ w = 1 /\ b = 0 /\ s = 0 /\ pipeline[t] < k
                           /\ Done(t) = StepNumber(t)
                           /\ Done(t) = Product(pipeline[t], n) + iteration[t]
  BY <1>1 DEF ComputeAt, One, AfterWait, AfterBody, AfterRelease, AfterStore, Done, StepNumber, Product
<1> HIDE DEF w, b, r, s, m
<1>15. /\ Merged(t) \in Nat /\ Waited(t) \in Nat /\ Bodies(t) \in Nat /\ Stored(t) \in Nat
       /\ Bodies(t) <= Merged(t) /\ Merged(t) <= Waited(t) /\ Waited(t) <= TotalSteps
  BY <1>2, <1>4, <1>6, <1>9, <1>10, <1>11, <1>12
<1>16. /\ Released(t) \in Nat /\ Released(t) <= Monus(TotalSteps, delay_release)
       /\ \A g \in Nat : g < Released(t) => g + delay_release < Bodies(t)
  <2>1. Done(t) + r <= TotalSteps /\ Done(t) + r <= Bodies(t) /\ Done(t) + r \in Nat
    BY <1>2, <1>4, <1>6, <1>9, <1>10, <1>12, <1>15
  <2> QED
    BY <1>3, <1>4, <1>12, <1>15, <2>1 DEF Monus
<1>17. line[t] \in {"deallocate", "ended"} => Waited(t) = TotalSteps
  BY <1>2, <1>7, <1>12, <1>13
<1>18. line[t] = "body" =>
          /\ Bodies(t) = StepNumber(t) /\ Merged(t) = Bodies(t) + 1
          /\ Stored(t) = Bodies(t) /\ Slot(iteration[t]) = Slot(Bodies(t))
  <2>1. pipeline[t] < k => Slot(Product(pipeline[t], n) + iteration[t]) = Slot(iteration[t])
    BY <1>1, <1>2, SlotOfIteration
  <2>2. ASSUME line[t] = "body"
        PROVE  Bodies(t) = Done(t) /\ Merged(t) = Done(t) + 1 /\ Stored(t) = Done(t)
    BY <1>2, <1>12, <1>14, <2>2
  <2> QED
    BY <1>14, <2>1, <2>2
<1> QED
  BY <1>15, <1>16, <1>17, <1>18 DEF ComputeCounts

LEMMA MemoryIsCounted ==
    ASSUME ControlInv, WarpSpecialized
    PROVE  MemoryCounts
<1> DEFINE t == memory_thread_idx
           M == max_concurrent_steps
           n == kernel.num_steps
           q == init_prologue_steps
           d == delay_release
<1>1. KernelFacts /\ PlaceTypes /\ MemoryAt(t) /\ t \in Threads
  BY ControlFacts, ThreadFacts DEF ControlInv
<1>2. /\ M \in Nat \ {0} /\ n \in Nat \ {0} /\ q \in Nat \ {0} /\ d \in Nat
      /\ kernel.num_pipelines \in Nat \ {0} /\ q <= M /\ q <= n
      /\ (d <= M \/ n <= M)
      /\ kernel.num_pipelines > 1 => d = 0 /\ q = M
  BY <1>1 DEF KernelFacts
<1>3. TotalSteps \in Nat /\ (kernel.num_pipelines = 1 => TotalSteps = n)
  BY <1>2, ProductFacts DEF TotalSteps
<1>4. merging[t] \in BOOLEAN /\ iteration[t] \in Nat
  BY <1>1 DEF ControlInv, PlaceTypes
<1>5. /\ Seen \in Nat
      /\ line[t] \in {"deallocate", "ended"} => Seen = Monus(TotalSteps, d) /\ merging[t] = FALSE
      /\ \A i \in Inputs, g \in Nat : g + M < FetchedBy(i) => g < Seen
      /\ Waits(t) => Slot(iteration[t]) = Slot(Seen)
  <2>1. CASE line[t] = "prologue"
    <3>1. Seen = 0 /\ iteration[t] < q /\ (\A i \in Inputs : FetchedBy(i) = iteration[t])
      BY <1>1, <2>1 DEF Seen, MemoryDone, One, FetchedBy, MemoryAt
    <3> QED
      BY <1>2, <1>4, <2>1, <3>1 DEF Waits
  <2>2. CASE line[t] \in {"wait_consumed", "copy_in"}
    <3>1. /\ MemoryDone \in Nat /\ Slot(iteration[t]) = Slot(MemoryDone)
          /\ \A i \in Inputs : FetchedBy(i) = MemoryDone + M
      BY <2>2, MemoryDoneFacts
    <3>2. Seen = MemoryDone + One(line[t] = "copy_in") /\ One(line[t] = "copy_in") \in Nat
      BY DEF Seen, One
    <3>3. Waits(t) => Seen = MemoryDone
      BY <2>2, <3>1 DEF Waits, Seen, One
    <3> QED
      BY <1>2, <2>2, <3>1, <3>2, <3>3
  <2>3. CASE line[t] = "quiesce"
    <3>1. /\ MemoryDone \in Nat /\ Slot(iteration[t]) = Slot(MemoryDone)
          /\ MemoryDone + n = TotalSteps + iteration[t]
      BY <2>3, MemoryDoneFacts
    <3>2. Seen = MemoryDone
      BY <2>3, <3>1 DEF Seen, One
    <3>3. iteration[t] >= n - q
      BY <1>1, <1>2, <2>3 DEF MemoryAt, Quiesce
    <3>4. \A i \in Inputs : FetchedBy(i) = TotalSteps
      BY <2>3 DEF FetchedBy
    <3> QED
      BY <1>2, <1>3, <1>4, <2>3, <3>1, <3>2, <3>3, <3>4
  <2>4. CASE line[t] \in {"deallocate", "ended"}
    <3>1. MemoryDone = Monus(TotalSteps, d) /\ (\A i \in Inputs : FetchedBy(i) = TotalSteps)
      BY <2>4 DEF MemoryDone, FetchedBy
    <3>2. Monus(TotalSteps, d) \in Nat
      BY <1>2, <1>3 DEF Monus
    <3>3. Seen = Monus(TotalSteps, d)
      BY <2>4, <3>1, <3>2 DEF Seen, One
    <3>4. merging[t] = FALSE
      BY <1>1, <1>4, <2>4 DEF MemoryAt
    <3>5. \A g \in Nat : g + M < TotalSteps => g < Monus(TotalSteps, d)
      BY <1>2, <1>3 DEF Monus
    <3> QED
      BY <2>4, <3>1, <3>2, <3>3, <3>4, <3>5 DEF Waits
  <2> QED
    BY <1>1, <2>1, <2>2, <2>3, <2>4 DEF MemoryAt
<1>6. Passed = Seen + One(merging[t]) /\ One(merging[t]) \in 0 .. 1
      /\ (merging[t] = FALSE => One(merging[t]) = 0)
  BY <1>4 DEF Passed, One
<1> HIDE DEF t
<1>7. Passed \in Nat /\ Seen <= Passed /\ (merging[t] = FALSE => Passed = Seen)
  BY <1>5, <1>6
<1> QED
  BY <1>5, <1>6, <1>7 DEF MemoryCounts, t

LEMMA FetchedIsCounted ==
    ASSUME ControlInv, NEW i \in Inputs
    PROVE  FetchedCounts(i)
<1> DEFINE t == memory_thread_idx
           M == max_concurrent_steps
           n == kernel.num_steps
           q == init_prologue_steps
           d == kernel.delay_release[i]
<1>1. KernelFacts /\ PlaceTypes /\ t \in Threads
  BY ControlFacts, ThreadFacts DEF ControlInv
<1>2. /\ M \in Nat \ {0} /\ n \in Nat \ {0} /\ q \in Nat \ {0} /\ d \in Nat
      /\ kernel.num_pipelines \in Nat \ {0} /\ q <= n /\ q <= M
  BY <1>1 DEF KernelFacts
<1>3. TotalSteps \in Nat /\ n <= TotalSteps
  <2>1. Product(1, n) <= Product(kernel.num_pipelines, n)
    <3>1. 1 \in Nat /\ 1 <= kernel.num_pipelines
      BY <1>2
    <3> QED
      BY <1>2, <3>1, ProductFacts
  <2>2. Product(1, n) = n /\ TotalSteps \in Nat
    BY <1>2, ProductFacts DEF TotalSteps
  <2> QED
    BY <2>1, <2>2 DEF TotalSteps
<1>4. CASE line[t] = "prologue"
  <2>1. FetchedBy(i) = iteration[t]
    BY <1>4 DEF FetchedBy
  <2>2. iteration[t] \in Nat /\ iteration[t] < q
    <3>1. CASE WarpSpecialized
      BY <1>1, <1>4, <3>1 DEF ControlInv, MemoryAt, PlaceTypes
    <3>2. CASE ~WarpSpecialized
      BY <1>1, <1>4, <3>2, ThreadFacts DEF ControlInv, ComputeAt, PlaceTypes
    <3> QED
      BY <3>1, <3>2
  <2> QED
    BY <1>2, <1>3, <2>1, <2>2 DEF FetchedCounts
<1>5. CASE line[t] # "prologue" /\ WarpSpecialized
  <2>1. MemoryAt(t)
    BY <1>5 DEF ControlInv
  <2>2. CASE line[t] \in {"wait_consumed", "copy_in"}
    <3>1. MemoryDone \in Nat /\ FetchedBy(i) = MemoryDone + M /\ MemoryDone + M < TotalSteps
      BY <1>5, <2>2, MemoryDoneFacts
    <3> QED
      BY <1>2, <1>3, <1>5, <3>1 DEF FetchedCounts
  <2>3. CASE line[t] \notin {"wait_consumed", "copy_in"}
    <3>1. FetchedBy(i) = TotalSteps
      BY <1>5, <2>3 DEF FetchedBy
    <3> QED
      BY <1>3, <1>5, <3>1 DEF FetchedCounts
  <2> QED
    BY <2>2, <2>3
<1>6. CASE line[t] # "prologue" /\ ~WarpSpecialized
  <2>1. t = 0 /\ 0 \in ComputeThreads /\ 0 \in Threads
    BY <1>1, <1>6, ThreadFacts
  <2> DEFINE s == Done(0) + One(line[0] = "copy_in" /\ level > d)
  <2>2. FetchedBy(i) = Smaller(n, M + Monus(s, d))
    BY <1>6 DEF FetchedBy
  <2>3. Done(0) \in Nat
    BY <2>1, DoneIsNat
  <2>4. s \in Nat /\ s <= Bodies(0) /\ Bodies(0) \in Nat
    BY <2>3 DEF Bodies, One, AfterBody, AfterRelease, AfterStore
  <2> HIDE DEF s
  <2>5. FetchedBy(i) \in Nat /\ FetchedBy(i) <= n
    BY <1>2, <2>2, <2>4 DEF Smaller, Monus
  <2>6. \A g \in Nat : g + M < FetchedBy(i) => g + d < Bodies(0)
    BY <1>2, <2>2, <2>4 DEF Smaller, Monus
  <2> QED
    BY <1>2, <1>3, <2>5, <2>6 DEF FetchedCounts
<1> QED
  BY <1>4, <1>5, <1>6

\* A slot is fetched again only when all bodies that use it have ended.
LEMMA OneLapAhead ==
    ASSUME ControlInv, InInv, ReleaseInv, NEW i \in Inputs, NEW g \in Nat,
           g + max_concurrent_steps < FetchedBy(i)
    PROVE  /\ \A t \in ComputeThreads : g + kernel.delay_release[i] < Bodies(t) /\ g < Waited(t)
           /\ \A j \in Inputs : Arrived(j, g)
<1>1. KernelFacts
  BY ControlFacts
<1>2. kernel.delay_release[i] \in Nat /\ (WarpSpecialized => kernel.delay_release[i] = delay_release)
  BY <1>1 DEF KernelFacts
<1>3. ASSUME NEW t \in ComputeThreads
      PROVE  g + kernel.delay_release[i] < Bodies(t)
  <2>1. CASE WarpSpecialized
    <3>1. MemoryCounts
      BY <2>1, MemoryIsCounted
    <3>2. g < Seen /\ Seen \in Nat /\ Passed \in Nat /\ Seen <= Passed
      BY <3>1 DEF MemoryCounts
    <3>3. g < Passed
      BY <3>2
    <3>4. g < Released(t)
      BY <2>1, <3>3 DEF ReleaseInv, ConsumedInv
    <3>5. g + delay_release < Bodies(t)
      BY <3>4, ComputeIsCounted DEF ComputeCounts
    <3> QED
      BY <1>2, <2>1, <3>5
  <2>2. CASE ~WarpSpecialized
    <3>1. t = 0
      BY <1>1, <2>2, ThreadFacts
    <3> QED
      BY <2>2, <3>1, FetchedIsCounted DEF FetchedCounts
  <2> QED
    BY <2>1, <2>2
<1>4. ASSUME NEW t \in ComputeThreads
      PROVE  g < Waited(t)
  <2>1. /\ Bodies(t) \in Nat /\ Merged(t) \in Nat /\ Waited(t) \in Nat
        /\ Bodies(t) <= Merged(t) /\ Merged(t) <= Waited(t)
    BY ComputeIsCounted DEF ComputeCounts
  <2> QED
    BY <1>2, <1>3, <2>1
<1>5. 0 \in ComputeThreads
  BY <1>1, ThreadFacts
<1>6. \A j \in Inputs : Arrived(j, g)
  BY <1>4, <1>5 DEF InInv
<1> QED
  BY <1>3, <1>4, <1>6

\* The body of a step one lap later follows the release.
LEMMA ReleaseSeen ==
    ASSUME ControlInv, InInv, WarpSpecialized, NEW t \in ComputeThreads, NEW g \in Nat,
           g + max_concurrent_steps < Bodies(t)
    PROVE  g < Seen /\ g < Passed
<1>1. KernelFacts /\ MemoryCounts
  BY ControlFacts, MemoryIsCounted
<1>2. /\ Bodies(t) \in Nat /\ Merged(t) \in Nat /\ Waited(t) \in Nat
      /\ Bodies(t) <= Merged(t) /\ Merged(t) <= Waited(t)
  BY ComputeIsCounted DEF ComputeCounts
<1>3. max_concurrent_steps \in Nat
  BY <1>1 DEF KernelFacts
<1> DEFINE h == g + max_concurrent_steps
<1>4. h \in Nat /\ h < Waited(t)
  BY <1>2, <1>3
<1>5. PICK i \in Inputs : TRUE
  BY GpuPipelineAssumption
<1> HIDE DEF h
<1>6. Arrived(i, h)
  BY <1>4 DEF InInv
<1>7. h < FetchedBy(i)
  BY <1>6 DEF Arrived
<1>8. g < Seen
  BY <1>1, <1>7 DEF MemoryCounts, h
<1> QED
  BY <1>1, <1>8 DEF MemoryCounts

-----------------------------------------------------------------------------
(* The phases of the barriers: what an arrival and a wait do to them.      *)

LEMMA SameStep ==
    ASSUME LapFacts, NEW g \in Nat, NEW h \in Nat, Slot(g) = Slot(h)
    PROVE  /\ Lap(g) = Lap(h) <=> g = h
           /\ Lap(g) < Lap(h) <=> g < h
<1>1. g < h => Lap(g) < Lap(h)
  BY DEF LapFacts
<1>2. h < g => Lap(h) < Lap(g)
  BY DEF LapFacts
<1>3. Lap(g) \in Nat /\ Lap(h) \in Nat
  BY DEF LapFacts
<1> QED
  BY <1>1, <1>2, <1>3

\* A later lap has one before it.
LEMMA LapBefore ==
    ASSUME LapFacts, KernelFacts, NEW g \in Nat, Lap(g) > 0
    PROVE  \E h \in Nat : h + max_concurrent_steps = g /\ Slot(h) = Slot(g) /\ Lap(h) + 1 = Lap(g)
<1> DEFINE h == g - max_concurrent_steps
<1>1. max_concurrent_steps \in Nat \ {0} /\ Lap(g) \in Nat
  BY DEF KernelFacts, LapFacts
<1>2. ~(g < max_concurrent_steps)
  BY <1>1 DEF LapFacts
<1>3. h \in Nat /\ h + max_concurrent_steps = g
  BY <1>1, <1>2
<1> HIDE DEF h
<1>4. Slot(h + max_concurrent_steps) = Slot(h) /\ Lap(h + max_concurrent_steps) = Lap(h) + 1
  BY <1>3 DEF LapFacts
<1> QED
  BY <1>3, <1>4

LEMMA ArriveFields ==
    ASSUME NEW b \in BarrierStates, NEW events \in SUBSET Accesses
    PROVE  /\ arrive(b, events) \in BarrierStates
           /\ arrive(b, events).num_arrivals = b.num_arrivals
           /\ arrive(b, events).ref_count = b.ref_count
           /\ arrive(b, events).next_awaited_phase = b.next_awaited_phase
           /\ arrive(b, events).clock = b.clock \cup events
           /\ Completes(b) =>
                 /\ arrive(b, events).phase = b.phase + 1 /\ arrive(b, events).arrivals_count = 0
                 /\ ~arrive(b, events).phase_change_observed
           /\ ~Completes(b) =>
                 /\ arrive(b, events).phase = b.phase
                 /\ arrive(b, events).arrivals_count = b.arrivals_count + 1
                 /\ arrive(b, events).phase_change_observed = b.phase_change_observed
<1>1. /\ b.arrivals_count \in Nat /\ b.phase \in Nat /\ b.phase_change_observed \in BOOLEAN
      /\ b.clock \in SUBSET Accesses
  BY DEF BarrierStates
<1> DEFINE ac == IF Completes(b) THEN 0 ELSE b.arrivals_count + 1
           ph == IF Completes(b) THEN b.phase + 1 ELSE b.phase
           ob == b.phase_change_observed /\ ~Completes(b)
           cl == b.clock \cup events
<1>2. ac \in Nat /\ ph \in Nat /\ ob \in BOOLEAN /\ cl \in SUBSET Accesses
  BY <1>1
<1>3. arrive(b, events) = [[[[b EXCEPT !.arrivals_count = ac] EXCEPT !.phase = ph]
                              EXCEPT !.phase_change_observed = ob] EXCEPT !.clock = cl]
  BY DEF arrive, BarrierStates
<1> HIDE DEF ac, ph, ob, cl
<1>4. /\ arrive(b, events) \in BarrierStates
      /\ arrive(b, events).num_arrivals = b.num_arrivals
      /\ arrive(b, events).ref_count = b.ref_count
      /\ arrive(b, events).next_awaited_phase = b.next_awaited_phase
      /\ arrive(b, events).clock = cl /\ arrive(b, events).phase = ph
      /\ arrive(b, events).arrivals_count = ac /\ arrive(b, events).phase_change_observed = ob
  BY <1>2, <1>3 DEF BarrierStates
<1> QED
  BY <1>1, <1>4 DEF ac, ph, ob, cl

LEMMA ObservedFields ==
    ASSUME NEW b \in BarrierStates, NEW t \in Threads
    PROVE  /\ Observed(b, t) \in BarrierStates
           /\ Observed(b, t).num_arrivals = b.num_arrivals
           /\ Observed(b, t).ref_count = b.ref_count
           /\ Observed(b, t).arrivals_count = b.arrivals_count
           /\ Observed(b, t).phase = b.phase
           /\ Observed(b, t).clock = b.clock
           /\ Observed(b, t).phase_change_observed
           /\ Observed(b, t).next_awaited_phase[t] = b.next_awaited_phase[t] + 1
           /\ \A u \in Threads \ {t} :
                 Observed(b, t).next_awaited_phase[u] = b.next_awaited_phase[u]
<1> DEFINE na == [b.next_awaited_phase EXCEPT ![t] = b.next_awaited_phase[t] + 1]
<1>1. b.next_awaited_phase \in [Threads -> Nat]
  BY DEF BarrierStates
<1>2. /\ na \in [Threads -> Nat] /\ na[t] = b.next_awaited_phase[t] + 1
      /\ \A u \in Threads \ {t} : na[u] = b.next_awaited_phase[u]
  BY <1>1
<1>3. Observed(b, t) = [[b EXCEPT !.phase_change_observed = TRUE] EXCEPT !.next_awaited_phase = na]
  BY DEF Observed, BarrierStates
<1> HIDE DEF na
<1>4. /\ Observed(b, t) \in BarrierStates
      /\ Observed(b, t).num_arrivals = b.num_arrivals
      /\ Observed(b, t).ref_count = b.ref_count
      /\ Observed(b, t).arrivals_count = b.arrivals_count
      /\ Observed(b, t).phase = b.phase
      /\ Observed(b, t).clock = b.clock
      /\ Observed(b, t).phase_change_observed
      /\ Observed(b, t).next_awaited_phase = na
  BY <1>2, <1>3 DEF BarrierStates
<1> QED
  BY <1>2, <1>4

LEMMA OneMore ==
    ASSUME NEW S, IsFiniteSet(S), NEW T \in SUBSET S, NEW x \in S, x \notin T
    PROVE  /\ Cardinality(T) \in Nat /\ Cardinality(S) \in Nat
           /\ Cardinality(T \cup {x}) = Cardinality(T) + 1
           /\ Cardinality(T) + 1 <= Cardinality(S)
           /\ Cardinality(T) + 1 = Cardinality(S) <=> T \cup {x} = S
<1>1. IsFiniteSet(T)
  BY FS_Subset
<1>2. Cardinality(T \cup {x}) = Cardinality(T) + 1
  BY <1>1, FS_AddElement
<1>3. T \cup {x} \in SUBSET S
  OBVIOUS
<1>4. /\ Cardinality(T \cup {x}) <= Cardinality(S)
      /\ Cardinality(S) = Cardinality(T \cup {x}) => S = T \cup {x}
  BY <1>3, FS_Subset
<1>5. Cardinality(T) \in Nat /\ Cardinality(S) \in Nat
  BY <1>1, FS_CardinalityType
<1>6. T \cup {x} = S => Cardinality(T \cup {x}) = Cardinality(S)
  OBVIOUS
<1> QED
  BY <1>2, <1>4, <1>5, <1>6

\* An arrival for a step belongs to the current phase.
LEMMA PhaseOfArrival ==
    ASSUME LapFacts, KernelFacts, NEW b \in [Slots -> BarrierStates], NEW X, NEW A,
           PhaseInv(b, X, A), NEW x \in X, NEW G \in Nat, G \notin A[x],
           \A h \in Nat : h + max_concurrent_steps = G => \A y \in X : h \in A[y]
    PROVE  b[Slot(G)].phase = Lap(G)
<1>1. Lap(G) \in Nat /\ Slot(G) \in Slots
  BY DEF LapFacts
<1>2. b[Slot(G)].phase \in Nat
  BY <1>1 DEF BarrierStates
<1>3. ~(Lap(G) < b[Slot(G)].phase)
  BY DEF PhaseInv
<1>4. ~(Lap(G) > b[Slot(G)].phase)
  <2> SUFFICES ASSUME Lap(G) > b[Slot(G)].phase PROVE FALSE
    OBVIOUS
  <2>1. Lap(G) > 0
    BY <1>1, <1>2
  <2>2. PICK h \in Nat : h + max_concurrent_steps = G /\ Slot(h) = Slot(G) /\ Lap(h) + 1 = Lap(G)
    BY <2>1, LapBefore
  <2>3. Lap(h) < b[Slot(h)].phase
    BY <2>2 DEF PhaseInv
  <2>4. Lap(h) \in Nat
    BY DEF LapFacts
  <2> QED
    BY <1>1, <1>2, <2>2, <2>3, <2>4
<1> QED
  BY <1>1, <1>2, <1>3, <1>4

LEMMA ArrivalCounted ==
    ASSUME LapFacts, KernelFacts, NEW b \in [Slots -> BarrierStates], NEW X, NEW A,
           NEW x \in X, NEW G \in Nat, MayArrive(b, X, A, x, G),
           NEW events \in SUBSET Accesses, NEW c \in [Slots -> BarrierStates], NEW A2,
           Arrives(b, X, A, x, G, events, c, A2)
    PROVE  /\ PhaseInv(c, X, A2)
           /\ c[Slot(G)].arrivals_count < c[Slot(G)].num_arrivals
           /\ b[Slot(G)].phase <= c[Slot(G)].phase
           /\ c[Slot(G)].phase_change_observed \/ c[Slot(G)].phase = Lap(G) + 1
                \/ (~b[Slot(G)].phase_change_observed /\ c[Slot(G)].phase = b[Slot(G)].phase)
<1> USE DEF MayArrive, Arrives
<1> DEFINE s == Slot(G)
           M == max_concurrent_steps
           T == {y \in X : G \in A[y]}
<1>1. M \in Nat \ {0} /\ Lap(G) \in Nat /\ s \in Slots
  BY DEF KernelFacts, LapFacts
<1>2. b[s].phase = Lap(G)
  BY PhaseOfArrival
<1>3. b[s].arrivals_count = Cardinality(T)
  BY <1>2 DEF PhaseInv
<1>4. /\ Cardinality(T) \in Nat /\ Cardinality(X) \in Nat
      /\ Cardinality(T \cup {x}) = Cardinality(T) + 1
      /\ Cardinality(T) + 1 <= Cardinality(X)
      /\ Cardinality(T) + 1 = Cardinality(X) <=> T \cup {x} = X
  <2>1. T \in SUBSET X /\ x \notin T
    OBVIOUS
  <2> HIDE DEF T
  <2> QED
    BY <2>1, OneMore
<1>5. b[s] \in BarrierStates
  BY <1>1
<1>6. Completes(b[s]) <=> T \cup {x} = X
  BY <1>3, <1>4 DEF Completes
<1>7. {y \in X : G \in A2[y]} = T \cup {x}
  OBVIOUS
<1>8. ASSUME NEW g \in Nat, g # G
      PROVE  {y \in X : g \in A2[y]} = {y \in X : g \in A[y]}
  BY <1>8
<1>9. \A g \in Nat : g # G => ((\A y \in X : g \in A2[y]) <=> \A y \in X : g \in A[y])
  OBVIOUS
<1>10. (\A y \in X : G \in A2[y]) <=> T \cup {x} = X
  BY <1>7
<1>11. ~\A y \in X : G \in A[y]
  OBVIOUS
<1>12. /\ Completes(b[s]) =>
             c[s].phase = Lap(G) + 1 /\ c[s].arrivals_count = 0 /\ ~c[s].phase_change_observed
       /\ ~Completes(b[s]) =>
             /\ c[s].phase = Lap(G) /\ c[s].arrivals_count = Cardinality(T) + 1
             /\ c[s].phase_change_observed = b[s].phase_change_observed
       /\ c[s].num_arrivals = Cardinality(X)
  BY <1>2, <1>3, <1>5, ArriveFields
<1> HIDE DEF T, M
<1>13. ASSUME NEW g \in Nat
       PROVE  Lap(g) < c[Slot(g)].phase <=> \A y \in X : g \in A2[y]
  <2>1. Slot(g) \in Slots /\ Lap(g) \in Nat
    BY DEF LapFacts
  <2>2. Lap(g) < b[Slot(g)].phase <=> \A y \in X : g \in A[y]
    BY DEF PhaseInv
  <2>3. CASE Slot(g) # s
    <3>1. c[Slot(g)] = b[Slot(g)] /\ g # G
      BY <2>1, <2>3
    <3> QED
      BY <1>9, <2>2, <3>1
  <2>4. CASE g = G
    BY <1>1, <1>6, <1>10, <1>12, <2>4
  <2>5. CASE Slot(g) = s /\ g # G
    <3>1. Lap(g) # Lap(G)
      BY <2>5, SameStep
    <3>2. Lap(g) < c[s].phase <=> Lap(g) < b[s].phase
      BY <1>1, <1>2, <1>12, <2>1, <3>1
    <3> QED
      BY <1>9, <2>2, <2>5, <3>2
  <2> QED
    BY <2>3, <2>4, <2>5
<1>14. ASSUME NEW g \in Nat, Lap(g) = c[Slot(g)].phase
       PROVE  c[Slot(g)].arrivals_count = Cardinality({y \in X : g \in A2[y]})
  <2>1. Slot(g) \in Slots /\ Lap(g) \in Nat
    BY DEF LapFacts
  <2>2. CASE Slot(g) # s
    <3>1. c[Slot(g)] = b[Slot(g)] /\ g # G
      BY <2>1, <2>2
    <3> QED
      BY <1>8, <1>14, <3>1 DEF PhaseInv
  <2>3. CASE Slot(g) = s /\ Completes(b[s])
    <3>1. Lap(g) = Lap(G) + 1 /\ c[s].arrivals_count = 0
      BY <1>12, <1>14, <2>3
    <3>2. g = G + M
      <4>1. G + M \in Nat
        BY <1>1
      <4>2. Slot(G + M) = s /\ Lap(G + M) = Lap(G) + 1
        BY DEF LapFacts, M
      <4> QED
        BY <2>3, <3>1, <4>1, <4>2, SameStep
    <3>3. g # G
      BY <1>1, <3>2
    <3>4. {y \in X : g \in A2[y]} = {}
      BY <1>8, <3>2, <3>3 DEF M
    <3> QED
      BY <2>3, <3>1, <3>4, FS_EmptySet
  <2>4. CASE Slot(g) = s /\ ~Completes(b[s])
    <3>1. Lap(g) = Lap(G) /\ c[s].arrivals_count = Cardinality(T) + 1
      BY <1>12, <1>14, <2>4
    <3>2. g = G
      BY <2>4, <3>1, SameStep
    <3> QED
      BY <1>4, <1>7, <2>4, <3>1, <3>2
  <2> QED
    BY <2>2, <2>3, <2>4
<1>15. c[s].arrivals_count < c[s].num_arrivals
  <2>1. CASE Completes(b[s])
    BY <1>4, <1>12, <2>1
  <2>2. CASE ~Completes(b[s])
    <3>1. Cardinality(T) + 1 # Cardinality(X)
      BY <1>4, <1>6, <2>2
    <3> QED
      BY <1>4, <1>12, <2>2, <3>1
  <2> QED
    BY <2>1, <2>2
<1>16. b[s].phase <= c[s].phase
  BY <1>1, <1>2, <1>12
<1>17. c[s].phase_change_observed \/ c[s].phase = Lap(G) + 1
         \/ (~b[s].phase_change_observed /\ c[s].phase = b[s].phase)
  <2>1. CASE Completes(b[s])
    <3>1. c[s].phase = Lap(G) + 1
      BY <1>12, <2>1
    <3> QED
      BY <3>1
  <2>2. CASE ~Completes(b[s])
    <3>1. c[s].phase_change_observed <=> b[s].phase_change_observed
      BY <1>12, <2>2
    <3>2. c[s].phase = b[s].phase
      BY <1>2, <1>12, <2>2
    <3> QED
      BY <3>1, <3>2
  <2> QED
    BY <2>1, <2>2
<1> QED
  BY <1>13, <1>14, <1>15, <1>16, <1>17 DEF PhaseInv

\* The phase for which a thread waits next, and what it has waited for after that.
LEMMA NextAwaited ==
    ASSUME LapFacts, KernelFacts, NEW b \in [Slots -> BarrierStates], NEW t \in Threads,
           NEW W \in Nat, AwaitInv(b, t, W), b[Slot(W)].next_awaited_phase[t] >= 1
    PROVE  b[Slot(W)].next_awaited_phase[t] = Lap(W) + 1
<1>1. Lap(W) \in Nat /\ Slot(W) \in Slots /\ max_concurrent_steps \in Nat \ {0}
  BY DEF LapFacts, KernelFacts
<1>2. b[Slot(W)].next_awaited_phase[t] \in Nat
  BY <1>1 DEF BarrierStates
<1>3. ~(Lap(W) + 1 < b[Slot(W)].next_awaited_phase[t])
  BY DEF AwaitInv
<1>4. ASSUME Lap(W) > 0
      PROVE  Lap(W) < b[Slot(W)].next_awaited_phase[t]
  <2>1. PICK h \in Nat : h + max_concurrent_steps = W /\ Slot(h) = Slot(W) /\ Lap(h) + 1 = Lap(W)
    BY <1>4, LapBefore
  <2>2. h < W
    BY <1>1, <2>1
  <2> QED
    BY <2>1, <2>2 DEF AwaitInv
<1> QED
  BY <1>1, <1>2, <1>3, <1>4

LEMMA WaitCounted ==
    ASSUME LapFacts, KernelFacts, NEW b \in [Slots -> BarrierStates], NEW t \in Threads,
           NEW W \in Nat, AwaitInv(b, t, W), b[Slot(W)].next_awaited_phase[t] >= 1,
           NEW c \in [Slots -> BarrierStates],
           c[Slot(W)].next_awaited_phase[t] = b[Slot(W)].next_awaited_phase[t] + 1,
           \A s \in Slots \ {Slot(W)} : c[s] = b[s]
    PROVE  AwaitInv(c, t, W + 1)
<1>1. c[Slot(W)].next_awaited_phase[t] = Lap(W) + 2
  <2>1. b[Slot(W)].next_awaited_phase[t] = Lap(W) + 1
    BY NextAwaited
  <2>2. Lap(W) \in Nat
    BY DEF LapFacts
  <2> QED
    BY <2>1, <2>2
<1> SUFFICES ASSUME NEW g \in Nat
             PROVE  g < W + 1 <=> Lap(g) + 1 < c[Slot(g)].next_awaited_phase[t]
  BY DEF AwaitInv
<1>2. Slot(g) \in Slots /\ Lap(g) \in Nat /\ Lap(W) \in Nat
  BY DEF LapFacts
<1>3. CASE Slot(g) = Slot(W)
  <2>1. (Lap(g) = Lap(W) <=> g = W) /\ (Lap(g) < Lap(W) <=> g < W)
    BY <1>3, SameStep
  <2> QED
    BY <1>1, <1>2, <1>3, <2>1
<1>4. CASE Slot(g) # Slot(W)
  <2>1. c[Slot(g)] = b[Slot(g)] /\ g # W
    BY <1>2, <1>4
  <2>2. g < W <=> Lap(g) + 1 < b[Slot(g)].next_awaited_phase[t]
    BY DEF AwaitInv
  <2> QED
    BY <2>1, <2>2
<1> QED
  BY <1>3, <1>4

-----------------------------------------------------------------------------
(* What a step does not touch stays true.                                  *)

LEMMA ArrivedKept ==
    ASSUME SameFetched, copies' = copies
    PROVE  SameArrived
BY DEF SameArrived, SameFetched, Arrived, InFlight

LEMMA InKept ==
    ASSUME InInv, LapFacts, SameKernel, SameArrived, SameRounds("in"),
           \A t \in ComputeThreads : Waited(t)' = Waited(t)
    PROVE  InInv'
<1>1. /\ ComputeThreads' = ComputeThreads /\ Slots' = Slots
      /\ memory_thread_idx' = memory_thread_idx /\ (WarpSpecialized' <=> WarpSpecialized)
      /\ \A g : Slot(g)' = Slot(g) /\ Lap(g)' = Lap(g)
  BY DEF SameKernel
<1>2. \A s \in Slots : /\ In(s)'.phase = In(s).phase
                       /\ In(s)'.arrivals_count = In(s).arrivals_count
                       /\ In(s)'.next_awaited_phase = In(s).next_awaited_phase
                       /\ In(s)'.phase_change_observed = In(s).phase_change_observed
  BY DEF SameRounds, In
<1>3. \A g \in Nat : Slot(g) \in Slots
  BY DEF LapFacts
<1>4. \A g \in Nat : /\ In(Slot(g))'.phase = In(Slot(g)).phase
                     /\ In(Slot(g))'.arrivals_count = In(Slot(g)).arrivals_count
                     /\ In(Slot(g))'.next_awaited_phase = In(Slot(g)).next_awaited_phase
  BY <1>1, <1>2, <1>3 DEF In
<1>5. \A g \in Nat : (\A i \in Inputs : Arrived(i, g))' <=> \A i \in Inputs : Arrived(i, g)
  BY DEF SameArrived
<1>6. \A g \in Nat : {i \in Inputs : Arrived(i, g)}' = {i \in Inputs : Arrived(i, g)}
  BY DEF SameArrived
<1>7. (\A g \in Nat : Lap(g) < In(Slot(g)).phase <=> \A i \in Inputs : Arrived(i, g))'
  BY <1>1, <1>4, <1>5 DEF InInv
<1>8. (\A g \in Nat : Lap(g) = In(Slot(g)).phase =>
          In(Slot(g)).arrivals_count = Cardinality({i \in Inputs : Arrived(i, g)}))'
  BY <1>1, <1>4, <1>6 DEF InInv
<1>9. (\A t \in ComputeThreads, g \in Nat : g < Waited(t) => \A i \in Inputs : Arrived(i, g))'
  BY <1>1, <1>5 DEF InInv
<1>10. (\A t \in ComputeThreads, g \in Nat :
          g < Waited(t) <=> Lap(g) + 1 < In(Slot(g)).next_awaited_phase[t])'
  BY <1>1, <1>4 DEF InInv
<1>11. (WarpSpecialized => \A s \in Slots : In(s).next_awaited_phase[memory_thread_idx] = 1)'
  BY <1>1, <1>2 DEF InInv
<1>12. (\A s \in Slots : In(s).phase_change_observed \/
          /\ In(s).phase > 0
          /\ \A t \in ComputeThreads, g \in Nat :
                Slot(g) = s /\ Lap(g) + 1 = In(s).phase => Waited(t) <= g)'
  BY <1>1, <1>2 DEF InInv
<1> QED
  BY <1>7, <1>8, <1>9, <1>10, <1>11, <1>12 DEF InInv

LEMMA ReleaseKept ==
    ASSUME ReleaseInv, LapFacts, SameKernel, SameRounds("consumed"),
           WarpSpecialized => /\ Passed' = Passed
                              /\ \A t \in ComputeThreads : Released(t)' = Released(t)
    PROVE  ReleaseInv'
<1>1. /\ ComputeThreads' = ComputeThreads /\ Slots' = Slots
      /\ memory_thread_idx' = memory_thread_idx /\ (WarpSpecialized' <=> WarpSpecialized)
      /\ \A g : Slot(g)' = Slot(g) /\ Lap(g)' = Lap(g)
  BY DEF SameKernel
<1>2. \A s \in Slots : /\ Consumed(s)'.phase = Consumed(s).phase
                       /\ Consumed(s)'.arrivals_count = Consumed(s).arrivals_count
                       /\ Consumed(s)'.next_awaited_phase = Consumed(s).next_awaited_phase
                       /\ Consumed(s)'.phase_change_observed = Consumed(s).phase_change_observed
  BY DEF SameRounds, Consumed
<1>3. \A g \in Nat : Slot(g) \in Slots
  BY DEF LapFacts
<1>4. \A g \in Nat : /\ Consumed(Slot(g))'.phase = Consumed(Slot(g)).phase
                     /\ Consumed(Slot(g))'.arrivals_count = Consumed(Slot(g)).arrivals_count
                     /\ Consumed(Slot(g))'.next_awaited_phase = Consumed(Slot(g)).next_awaited_phase
  BY <1>1, <1>2, <1>3 DEF Consumed
<1>5. CASE ~WarpSpecialized
  BY <1>1, <1>2, <1>5 DEF ReleaseInv, UnusedInv
<1>6. CASE WarpSpecialized
  <2>1. /\ Passed' = Passed /\ \A t \in ComputeThreads : Released(t)' = Released(t)
        /\ ConsumedInv
    BY <1>6 DEF ReleaseInv
  <2>2. \A g \in Nat : {t \in ComputeThreads : g < Released(t)}' = {t \in ComputeThreads : g < Released(t)}
    BY <1>1, <2>1
  <2>3. (\A g \in Nat : Lap(g) < Consumed(Slot(g)).phase <=> \A t \in ComputeThreads : g < Released(t))'
    BY <1>1, <1>4, <2>1 DEF ConsumedInv
  <2>4. (\A g \in Nat : Lap(g) = Consumed(Slot(g)).phase =>
          Consumed(Slot(g)).arrivals_count = Cardinality({t \in ComputeThreads : g < Released(t)}))'
    BY <1>1, <1>4, <2>1, <2>2 DEF ConsumedInv
  <2>5. (\A t \in ComputeThreads, g \in Nat : g < Passed => g < Released(t))'
    BY <1>1, <2>1 DEF ConsumedInv
  <2>6. (\A g \in Nat :
          g < Passed <=> Lap(g) + 1 < Consumed(Slot(g)).next_awaited_phase[memory_thread_idx])'
    BY <1>1, <1>4, <2>1 DEF ConsumedInv
  <2>7. (\A t \in ComputeThreads, s \in Slots : Consumed(s).next_awaited_phase[t] = 1)'
    BY <1>1, <1>2, <2>1 DEF ConsumedInv
  <2>8. (\A s \in Slots : Consumed(s).phase_change_observed \/
          /\ Consumed(s).phase > 0
          /\ \A g \in Nat : Slot(g) = s /\ Lap(g) + 1 = Consumed(s).phase => Passed <= g)'
    BY <1>1, <1>2, <2>1 DEF ConsumedInv
  <2>9. ConsumedInv'
    BY <2>3, <2>4, <2>5, <2>6, <2>7, <2>8 DEF ConsumedInv
  <2> QED
    BY <1>1, <1>6, <2>9 DEF ReleaseInv
<1> QED
  BY <1>5, <1>6

LEMMA SmemKept ==
    ASSUME SmemInv, SameKernel, SameArrived, in_smem' = in_smem, KernelFacts
    PROVE  SmemInv'
<1>1. max_concurrent_steps' = max_concurrent_steps /\ \A g : Slot(g)' = Slot(g)
  BY DEF SameKernel
<1>2. \A g \in Nat : g + max_concurrent_steps \in Nat
  BY DEF KernelFacts
<1>3. \A i \in Inputs, g \in Nat :
        /\ Arrived(i, g)' <=> Arrived(i, g)
        /\ Arrived(i, g + max_concurrent_steps)' <=> Arrived(i, g + max_concurrent_steps)
  <2> SUFFICES ASSUME NEW i \in Inputs, NEW g \in Nat
               PROVE  /\ Arrived(i, g)' <=> Arrived(i, g)
                      /\ Arrived(i, g + max_concurrent_steps)' <=> Arrived(i, g + max_concurrent_steps)
    OBVIOUS
  <2>1. Arrived(i, g)' <=> Arrived(i, g)
    BY DEF SameArrived
  <2> DEFINE h == g + max_concurrent_steps
  <2>2. h \in Nat /\ h' = h
    BY <1>1, <1>2
  <2> HIDE DEF h
  <2>3. Arrived(i, h)' <=> Arrived(i, h)
    BY <2>2 DEF SameArrived, Arrived, InFlight
  <2> QED
    BY <2>1, <2>3 DEF h
<1> QED
  BY <1>1, <1>3 DEF SmemInv

LEMMA CopiesKept ==
    ASSUME CopiesInv, SameKernel, SameFetched, DataTypes, copies' \subseteq copies
    PROVE  CopiesInv'
<1>1. \A g : Slot(g)' = Slot(g)
  BY DEF SameKernel
<1>2. \A c \in copies : c.input \in Inputs
  BY DEF DataTypes
<1>3. \A c \in copies' : FetchedBy(c.input)' = FetchedBy(c.input)
  BY <1>2 DEF SameFetched
<1> QED
  BY <1>1, <1>3 DEF CopiesInv

LEMMA ComputeClocksKept ==
    ASSUME ComputeClocks, SameKernel, \A t \in ComputeThreads :
              clock[t] \subseteq clock'[t] /\ Merged(t)' = Merged(t) /\ Bodies(t)' = Bodies(t)
    PROVE  ComputeClocks'
BY DEF ComputeClocks, SameKernel

LEMMA InClocksKept ==
    ASSUME InClocks, SameKernel, SameArrived, LapFacts,
           \A s \in Slots : barrier["in"][s].clock \subseteq barrier'["in"][s].clock
    PROVE  InClocks'
<1>1. \A g \in Nat : Slot(g)' = Slot(g) /\ Slot(g) \in Slots
  BY DEF SameKernel, LapFacts
<1> QED
  BY <1>1 DEF InClocks, SameArrived, In

LEMMA CountsMore ==
    ASSUME NEW e, NEW f, e \subseteq f, NEW i, NEW t, NEW g, NEW d, CountsStep(e, i, t, g, d)
    PROVE  CountsStep(f, i, t, g, d)
BY DEF CountsStep

LEMMA ReleaseClocksKept ==
    ASSUME ReleaseClocks, SameKernel, LapFacts,
           WarpSpecialized => /\ Seen' = Seen
                              /\ \A t \in ComputeThreads : Released(t)' = Released(t),
           clock[memory_thread_idx] \subseteq clock'[memory_thread_idx],
           \A s \in Slots : barrier["consumed"][s].clock \subseteq barrier'["consumed"][s].clock
    PROVE  ReleaseClocks'
<1>1. /\ ComputeThreads' = ComputeThreads /\ delay_release' = delay_release
      /\ memory_thread_idx' = memory_thread_idx /\ (WarpSpecialized' <=> WarpSpecialized)
      /\ \A g : Slot(g)' = Slot(g)
  BY DEF SameKernel
<1> SUFFICES ASSUME WarpSpecialized PROVE ConsumedClocks'
  BY <1>1 DEF ReleaseClocks
<1>2. /\ Seen' = Seen /\ \A t \in ComputeThreads : Released(t)' = Released(t)
      /\ ConsumedClocks
  BY DEF ReleaseClocks
<1>3. \A g \in Nat : Consumed(Slot(g)).clock \subseteq Consumed(Slot(g))'.clock
  BY <1>1 DEF Consumed, LapFacts
<1>4. (\A t \in ComputeThreads, i \in Inputs, g \in Nat :
          g < Released(t) => CountsStep(Consumed(Slot(g)).clock, i, t, g, delay_release))'
  <2> SUFFICES ASSUME NEW t \in ComputeThreads, NEW i \in Inputs, NEW g \in Nat, g < Released(t)
               PROVE  CountsStep(Consumed(Slot(g))'.clock, i, t, g, delay_release)
    BY <1>1, <1>2 DEF CountsStep
  <2>1. CountsStep(Consumed(Slot(g)).clock, i, t, g, delay_release)
    BY <1>2 DEF ConsumedClocks
  <2> QED
    BY <1>3, <2>1, CountsMore
<1>5. (\A t \in ComputeThreads, i \in Inputs, g \in Nat :
          g < Seen => CountsStep(clock[memory_thread_idx], i, t, g, delay_release))'
  <2> SUFFICES ASSUME NEW t \in ComputeThreads, NEW i \in Inputs, NEW g \in Nat, g < Seen
               PROVE  CountsStep(clock'[memory_thread_idx], i, t, g, delay_release)
    BY <1>1, <1>2 DEF CountsStep
  <2>1. CountsStep(clock[memory_thread_idx], i, t, g, delay_release)
    BY <1>2 DEF ConsumedClocks
  <2> QED
    BY <2>1, CountsMore
<1> QED
  BY <1>4, <1>5 DEF ConsumedClocks

LEMMA CopyClocksKept ==
    ASSUME CopyClocks, SameKernel, copies' \subseteq copies
    PROVE  CopyClocks'
BY DEF CopyClocks, SameKernel, CountsStep

\* Thread 0 stores nothing.
LEMMA GroupsKept ==
    ASSUME GroupsInv, SameKernel, KernelFacts, groups' = groups,
           copies_out_in_loop => Stored(0)' = Stored(0),
           line'[0] = "body" /\ copies_out_in_loop => line[0] = "body" \/ Len(groups) <= pending_groups,
           line'[0] \in {"deallocate", "ended"} =>
              line[0] \in {"deallocate", "ended"} \/ ~copies_out_in_loop \/ Len(groups) = 0
    PROVE  GroupsInv'
<1>1. /\ (copies_out_in_loop' <=> copies_out_in_loop) /\ pending_groups' = pending_groups
      /\ \A g : Slot(g)' = Slot(g)
  BY DEF SameKernel
<1>2. ~copies_out_in_loop => groups = << >> /\ Len(groups) = 0
  BY DEF GroupsInv
<1>3. copies_out_in_loop => Stored(0)' = Stored(0)
  OBVIOUS
<1>4. (Len(groups) <= Stored(0) \/ ~copies_out_in_loop)' /\ (~copies_out_in_loop => groups = << >>)'
  BY <1>1, <1>3 DEF GroupsInv
<1>5. (\A k \in 1 .. Len(groups) : groups[k] \in {NoSlot, Slot(Stored(0) - Len(groups) + k - 1)})'
  <2>1. CASE copies_out_in_loop
    BY <1>1, <1>3, <2>1 DEF GroupsInv, Slot
  <2>2. CASE ~copies_out_in_loop
    BY <1>2, <2>2
  <2> QED
    BY <2>1, <2>2
<1>6. (line[0] = "body" /\ copies_out_in_loop => Len(groups) <= pending_groups)'
  BY <1>1 DEF GroupsInv
<1>7. (line[0] \in {"deallocate", "ended"} => Len(groups) = 0)'
  BY <1>2 DEF GroupsInv
<1> QED
  BY <1>4, <1>5, <1>6, <1>7 DEF GroupsInv

LEMMA TypesStay ==
    ASSUME SameKernel, barrier' \in BarrierTypes, clock' \in [Threads -> SUBSET Accesses],
           in_smem' \in [Inputs -> [Slots -> Nat \cup {NoStep}]], copies' \in SUBSET CopyTypes,
           groups' \in Seq(Int)
    PROVE  DataTypes'
<1>1. Threads' = Threads /\ Slots' = Slots
  BY DEF SameKernel
<1>2. BarrierStates' = BarrierStates
  BY <1>1 DEF BarrierStates
<1> QED
  BY <1>1, <1>2 DEF DataTypes, BarrierTypes, CopyTypes

\* The counts of the barriers that a step changes.
LEMMA CountsKept ==
    ASSUME BarrierCounts, SameKernel, SameEnded,
           \A w \in {"in", "consumed"}, s \in Slots : barrier'[w][s] = barrier[w][s] \/
              LET b == barrier[w][s]
                  c == barrier'[w][s] IN
              /\ c.num_arrivals = b.num_arrivals /\ c.ref_count = b.ref_count
              /\ c.arrivals_count < c.num_arrivals \/ c.num_arrivals = 0
              /\ \A t \in Threads : c.next_awaited_phase[t] \in 1 .. (c.phase + 1)
    PROVE  BarrierCounts'
<1>1. Threads' = Threads /\ Slots' = Slots /\ \A w : num_arrivals(w)' = num_arrivals(w)
  BY DEF SameKernel
<1>2. Running' = Running
  BY <1>1 DEF SameEnded, Running
<1> SUFFICES ASSUME NEW w \in {"in", "consumed"}, NEW s \in Slots
             PROVE  LET c == barrier'[w][s] IN
                    /\ c.num_arrivals = num_arrivals(w)
                    /\ c.arrivals_count < c.num_arrivals \/ c.num_arrivals = 0
                    /\ c.ref_count = Cardinality(Running)
                    /\ \A t \in Threads : c.next_awaited_phase[t] \in 1 .. (c.phase + 1)
  BY <1>1, <1>2 DEF BarrierCounts
<1>3. LET b == barrier[w][s] IN
      /\ b.num_arrivals = num_arrivals(w)
      /\ b.arrivals_count < b.num_arrivals \/ b.num_arrivals = 0
      /\ b.ref_count = Cardinality(Running)
      /\ \A t \in Threads : b.next_awaited_phase[t] \in 1 .. (b.phase + 1)
  BY DEF BarrierCounts
<1> QED
  BY <1>3

\* A step that leaves barriers, copies and input blocks alone.
LEMMA QuietStep ==
    ASSUME GpuInv, SameKernel, SameEnded, SameFetched,
           barrier' = barrier, in_smem' = in_smem, copies' = copies,
           \A t \in ComputeThreads : Waited(t)' = Waited(t)
    PROVE  /\ BarrierCounts' /\ CopiesInv' /\ InInv' /\ SmemInv' /\ InClocks' /\ CopyClocks'
           /\ (WarpSpecialized => (/\ Passed' = Passed
                                   /\ \A t \in ComputeThreads : Released(t)' = Released(t)))
                => ReleaseInv'
           /\ clock' \in [Threads -> SUBSET Accesses] /\ groups' \in Seq(Int) => DataTypes'
<1>1. KernelFacts /\ LapFacts
  BY ControlFacts DEF GpuInv
<1>2. SameArrived
  BY ArrivedKept
<1>3. SameRounds("in") /\ SameRounds("consumed")
  BY DEF SameRounds
<1>4. BarrierCounts'
  BY CountsKept DEF GpuInv
<1>5. CopiesInv' /\ CopyClocks'
  BY CopiesKept, CopyClocksKept DEF GpuInv
<1>6. InInv' /\ SmemInv'
  BY <1>1, <1>2, <1>3, InKept, SmemKept DEF GpuInv
<1>7. InClocks'
  BY <1>1, <1>2, InClocksKept DEF GpuInv
<1>8. (WarpSpecialized => (/\ Passed' = Passed
                           /\ \A t \in ComputeThreads : Released(t)' = Released(t)))
        => ReleaseInv'
  BY <1>1, <1>3, ReleaseKept DEF GpuInv
<1>9. clock' \in [Threads -> SUBSET Accesses] /\ groups' \in Seq(Int) => DataTypes'
  BY TypesStay DEF GpuInv, DataTypes, BarrierTypes, CopyTypes
<1> QED
  BY <1>4, <1>5, <1>6, <1>7, <1>8, <1>9

-----------------------------------------------------------------------------
(* Every step keeps the invariant.                                         *)

LEMMA EndBodyKeeps ==
    ASSUME GpuInv, NEW t \in Threads, EndBody(t)
    PROVE  GpuInv'
<1>1. ControlInv /\ DataTypes /\ KernelFacts /\ LapFacts
  BY ControlFacts DEF GpuInv
<1>2. /\ ControlInv' /\ SameKernel /\ t \in ComputeThreads
      /\ \A u \in ComputeThreads \ {t} : SameCompute(u)
      /\ Bodies(t)' = Bodies(t) + 1 /\ Bodies(t) = StepNumber(t) /\ Bodies(t) \in Nat
      /\ Merged(t)' = Merged(t) /\ Waited(t)' = Waited(t)
      /\ copies_out_in_loop => Stored(t)' = Stored(t)
      /\ WarpSpecialized => Released(t)' = Released(t)
      /\ SameFetched /\ SameMemory
      /\ line'[t] # "body"
      /\ line'[t] = "deallocate" => ~copies_out_in_loop
  BY <1>1, EndBodyEffect
<1>3. SameEnded
  <2>1. ThreadStep(t) /\ ~deallocate_barrier(t)
    BY DEF ThreadStep, EndBody, deallocate_barrier
  <2> QED
    BY <1>1, <2>1, OnlyDeallocateEnds
<1>4. barrier' = barrier /\ in_smem' = in_smem /\ copies' = copies /\ groups' = groups
  BY DEF EndBody
<1>5. /\ clock' \in [Threads -> SUBSET Accesses]
      /\ clock'[t] = clock[t] \cup {<<"body", t, Bodies(t)>>}
      /\ \A u \in Threads : clock[u] \subseteq clock'[u]
      /\ \A u \in Threads \ {t} : clock'[u] = clock[u]
  <2>1. clock \in [Threads -> SUBSET Accesses] /\ t \in Nat
    BY <1>1, ThreadFacts DEF DataTypes
  <2>2. <<"body", t, Bodies(t)>> \in Accesses
    BY <1>2, <2>1 DEF Accesses
  <2>3. clock' = [clock EXCEPT ![t] = @ \cup {<<"body", t, Bodies(t)>>}]
    BY <1>2 DEF EndBody
  <2> QED
    BY <2>1, <2>2, <2>3
<1>6. \A u \in ComputeThreads : /\ Waited(u)' = Waited(u) /\ Merged(u)' = Merged(u)
                                /\ WarpSpecialized => Released(u)' = Released(u)
  BY <1>2 DEF SameCompute
<1>7. WarpSpecialized => Passed' = Passed /\ Seen' = Seen
  BY <1>2 DEF SameMemory
<1>8. /\ BarrierCounts' /\ CopiesInv' /\ InInv' /\ SmemInv' /\ InClocks' /\ CopyClocks'
      /\ ReleaseInv' /\ DataTypes'
  <2>1. groups' \in Seq(Int)
    BY <1>1, <1>4 DEF DataTypes
  <2> QED
    BY <1>2, <1>3, <1>4, <1>5, <1>6, <1>7, <2>1, QuietStep
<1>9. ReleaseClocks'
  <2>1. clock[memory_thread_idx] \subseteq clock'[memory_thread_idx]
    BY <1>1, <1>5, ThreadFacts
  <2> QED
    BY <1>1, <1>2, <1>4, <1>6, <1>7, <2>1, ReleaseClocksKept DEF GpuInv
<1>10. GroupsInv'
  <2>1. copies_out_in_loop => t = 0
    BY <1>1, <1>2, ThreadFacts
  <2>2. line'[0] = "ended" => line[0] = "ended"
    BY <1>1, <1>3, ThreadFacts DEF SameEnded, Ended
  <2> QED
    BY <1>1, <1>2, <1>4, <2>1, <2>2, GroupsKept DEF GpuInv
<1>11. ComputeClocks'
  <2>1. ComputeThreads' = ComputeThreads /\ ComputeThreads \subseteq Threads
    BY <1>1, <1>2, ThreadFacts DEF SameKernel
  <2>2. ComputeClocks
    BY DEF GpuInv
  <2>3. (\A u \in ComputeThreads, i \in Inputs, g \in Nat : g < Merged(u) => <<"copy", i, g>> \in clock[u])'
    BY <1>5, <1>6, <2>1, <2>2 DEF ComputeClocks
  <2>4. ASSUME NEW u \in ComputeThreads, NEW g \in Nat, g < Bodies(u)'
        PROVE  <<"body", u, g>> \in clock'[u]
    <3>1. CASE u = t
      <4>1. g < Bodies(t) \/ g = Bodies(t)
        BY <1>2, <2>4, <3>1
      <4> QED
        BY <1>5, <2>2, <3>1, <4>1 DEF ComputeClocks
    <3>2. CASE u # t
      <4>1. Bodies(u)' = Bodies(u)
        BY <1>2, <3>2 DEF SameCompute
      <4> QED
        BY <1>5, <2>1, <2>2, <2>4, <4>1 DEF ComputeClocks
    <3> QED
      BY <3>1, <3>2
  <2> QED
    BY <2>1, <2>3, <2>4 DEF ComputeClocks
<1> QED
  BY <1>2, <1>8, <1>9, <1>10, <1>11 DEF GpuInv

LEMMA WaitOutKeeps ==
    ASSUME GpuInv, NEW t \in Threads, wait_smem_to_gmem(t)
    PROVE  GpuInv'
<1>1. ControlInv /\ DataTypes /\ KernelFacts /\ LapFacts
  BY ControlFacts DEF GpuInv
<1>2. /\ ControlInv' /\ SameKernel /\ t \in ComputeThreads
      /\ \A u \in ComputeThreads : SameCompute(u)
      /\ SameFetched /\ SameMemory
      /\ line'[t] \in {"body", "wait_in", "deallocate"} /\ copies_out_in_loop
      /\ line'[t] = "body" => Len(groups) <= pending_groups
      /\ line'[t] = "deallocate" => Len(groups) <= 0
  BY <1>1, WaitOutEffect
<1>3. SameEnded
  <2>1. ThreadStep(t) /\ ~deallocate_barrier(t)
    BY DEF ThreadStep, wait_smem_to_gmem, deallocate_barrier
  <2> QED
    BY <1>1, <2>1, OnlyDeallocateEnds
<1>4. barrier' = barrier /\ in_smem' = in_smem /\ copies' = copies /\ groups' = groups /\ clock' = clock
  BY DEF wait_smem_to_gmem
<1>5. \A u \in ComputeThreads : /\ Waited(u)' = Waited(u) /\ Merged(u)' = Merged(u) /\ Bodies(u)' = Bodies(u)
                                /\ WarpSpecialized => Released(u)' = Released(u)
                                /\ copies_out_in_loop => Stored(u)' = Stored(u)
  BY <1>2 DEF SameCompute
<1>6. WarpSpecialized => Passed' = Passed /\ Seen' = Seen
  BY <1>2 DEF SameMemory
<1>7. /\ BarrierCounts' /\ CopiesInv' /\ InInv' /\ SmemInv' /\ InClocks' /\ CopyClocks'
      /\ ReleaseInv' /\ DataTypes'
  <2>1. groups' \in Seq(Int) /\ clock' \in [Threads -> SUBSET Accesses]
    BY <1>1, <1>4 DEF DataTypes
  <2> QED
    BY <1>2, <1>3, <1>4, <1>5, <1>6, <2>1, QuietStep
<1>8. ReleaseClocks' /\ ComputeClocks'
  BY <1>1, <1>2, <1>4, <1>5, <1>6, ReleaseClocksKept, ComputeClocksKept DEF GpuInv
<1>9. GroupsInv'
  <2>1. t = 0
    BY <1>1, <1>2, ThreadFacts
  <2>2. Len(groups) <= 0 => Len(groups) = 0
    <3>1. Len(groups) \in Nat
      BY <1>1 DEF DataTypes
    <3> QED
      BY <3>1
  <2>3. Stored(0)' = Stored(0)
    BY <1>2, <1>5, <2>1
  <2> QED
    BY <1>1, <1>2, <1>4, <2>1, <2>2, <2>3, GroupsKept DEF GpuInv
<1> QED
  BY <1>2, <1>7, <1>8, <1>9 DEF GpuInv

LEMMA MergeInKeeps ==
    ASSUME GpuInv, NEW t \in Threads, MergeClock(t), line[t] = "wait_in"
    PROVE  GpuInv'
<1>1. ControlInv /\ DataTypes /\ KernelFacts /\ LapFacts
  BY ControlFacts DEF GpuInv
<1> DEFINE G == Merged(t)
<1>2. /\ ControlInv' /\ SameKernel /\ t \in ComputeThreads
      /\ \A u \in ComputeThreads \ {t} : SameCompute(u)
      /\ Merged(t)' = G + 1 /\ Waited(t)' = Waited(t) /\ Waited(t) = G + 1
      /\ G \in Nat
      /\ Bodies(t)' = Bodies(t) /\ Stored(t)' = Stored(t) /\ Released(t)' = Released(t)
      /\ SameFetched /\ SameMemory
      /\ Slot(iteration[t]) = Slot(G)
      /\ line'[t] \in {"wait_out", "body"} /\ (line'[t] = "body" => ~copies_out_in_loop)
  BY <1>1, MergeInEffect
<1> HIDE DEF G
<1>3. SameEnded
  <2>1. ThreadStep(t) /\ ~deallocate_barrier(t)
    BY DEF ThreadStep, MergeClock, deallocate_barrier
  <2> QED
    BY <1>1, <2>1, OnlyDeallocateEnds
<1>4. barrier' = barrier /\ in_smem' = in_smem /\ copies' = copies /\ groups' = groups
  BY DEF MergeClock
<1>5. Slot(G) \in Slots
  BY <1>1, <1>2 DEF LapFacts
<1>6. /\ clock' \in [Threads -> SUBSET Accesses]
      /\ clock'[t] = clock[t] \cup In(Slot(G)).clock
      /\ \A u \in Threads : clock[u] \subseteq clock'[u]
  <2>1. clock \in [Threads -> SUBSET Accesses] /\ In(Slot(G)).clock \in SUBSET Accesses
    BY <1>1, <1>5 DEF DataTypes, In, BarrierStates
  <2>2. clock' = [clock EXCEPT ![t] = @ \cup In(Slot(G)).clock]
    BY <1>2 DEF MergeClock, Awaited, In
  <2> QED
    BY <2>1, <2>2
<1>7. \A u \in ComputeThreads : /\ Waited(u)' = Waited(u) /\ Bodies(u)' = Bodies(u)
                                /\ u # t => Merged(u)' = Merged(u)
                                /\ WarpSpecialized => Released(u)' = Released(u)
  BY <1>2 DEF SameCompute
<1>8. WarpSpecialized => Passed' = Passed /\ Seen' = Seen
  BY <1>2 DEF SameMemory
<1>9. /\ BarrierCounts' /\ CopiesInv' /\ InInv' /\ SmemInv' /\ InClocks' /\ CopyClocks'
      /\ ReleaseInv' /\ DataTypes'
  <2>1. groups' \in Seq(Int)
    BY <1>1, <1>4 DEF DataTypes
  <2> QED
    BY <1>2, <1>3, <1>4, <1>6, <1>7, <1>8, <2>1, QuietStep
<1>10. ReleaseClocks'
  <2>1. clock[memory_thread_idx] \subseteq clock'[memory_thread_idx]
    BY <1>1, <1>6, ThreadFacts
  <2> QED
    BY <1>1, <1>2, <1>4, <1>7, <1>8, <2>1, ReleaseClocksKept DEF GpuInv
<1>11. GroupsInv'
  <2>1. copies_out_in_loop => t = 0
    BY <1>1, <1>2, ThreadFacts
  <2>2. line'[0] = "ended" => line[0] = "ended"
    BY <1>1, <1>3, ThreadFacts DEF SameEnded, Ended
  <2> QED
    BY <1>1, <1>2, <1>4, <2>1, <2>2, GroupsKept DEF GpuInv
<1>12. ComputeClocks'
  <2>1. ComputeThreads' = ComputeThreads /\ ComputeThreads \subseteq Threads
    BY <1>1, <1>2, ThreadFacts DEF SameKernel
  <2>2. ComputeClocks /\ InInv /\ InClocks
    BY DEF GpuInv
  <2>3. (\A u \in ComputeThreads, g \in Nat : g < Bodies(u) => <<"body", u, g>> \in clock[u])'
    BY <1>6, <1>7, <2>1, <2>2 DEF ComputeClocks
  <2>4. ASSUME NEW u \in ComputeThreads, NEW i \in Inputs, NEW g \in Nat, g < Merged(u)'
        PROVE  <<"copy", i, g>> \in clock'[u]
    <3>1. CASE u = t /\ g = G
      <4>1. g < Waited(t)
        BY <1>2, <3>1
      <4>2. Arrived(i, g)
        BY <1>2, <2>2, <4>1 DEF InInv
      <4> QED
        BY <1>6, <2>2, <3>1, <4>2 DEF InClocks
    <3>2. CASE ~(u = t /\ g = G)
      <4>1. g < Merged(u)
        BY <1>2, <1>7, <2>4, <3>2 DEF G
      <4> QED
        BY <1>6, <2>1, <2>2, <4>1 DEF ComputeClocks
    <3> QED
      BY <3>1, <3>2
  <2> QED
    BY <2>1, <2>3, <2>4 DEF ComputeClocks
<1> QED
  BY <1>2, <1>9, <1>10, <1>11, <1>12 DEF GpuInv

LEMMA MergeConsumedKeeps ==
    ASSUME GpuInv, NEW t \in Threads, MergeClock(t), line[t] # "wait_in"
    PROVE  GpuInv'
<1>1. ControlInv /\ DataTypes /\ KernelFacts /\ LapFacts
  BY ControlFacts DEF GpuInv
<1> DEFINE G == Seen
<1>2. /\ ControlInv' /\ SameKernel /\ WarpSpecialized /\ t = memory_thread_idx
      /\ \A u \in ComputeThreads : SameCompute(u)
      /\ Seen' = G + 1 /\ Passed' = Passed /\ Passed = G + 1 /\ G \in Nat
      /\ SameFetched
      /\ Slot(iteration[t]) = Slot(G)
      /\ line'[0] = line[0]
  BY <1>1, MergeConsumedEffect
<1> HIDE DEF G
<1>3. SameEnded
  <2>1. ThreadStep(t) /\ ~deallocate_barrier(t)
    BY WhoIsWhere, <1>1 DEF ThreadStep, MergeClock, deallocate_barrier
  <2> QED
    BY <1>1, <2>1, OnlyDeallocateEnds
<1>4. barrier' = barrier /\ in_smem' = in_smem /\ copies' = copies /\ groups' = groups
  BY DEF MergeClock
<1>5. Slot(G) \in Slots
  BY <1>1, <1>2 DEF LapFacts
<1>6. /\ clock' \in [Threads -> SUBSET Accesses]
      /\ clock'[t] = clock[t] \cup Consumed(Slot(G)).clock
      /\ \A u \in Threads : clock[u] \subseteq clock'[u]
  <2>1. clock \in [Threads -> SUBSET Accesses] /\ Consumed(Slot(G)).clock \in SUBSET Accesses
    BY <1>1, <1>5 DEF DataTypes, Consumed, BarrierStates
  <2>2. clock' = [clock EXCEPT ![t] = @ \cup Consumed(Slot(G)).clock]
    BY <1>2 DEF MergeClock, Awaited, Consumed
  <2> QED
    BY <2>1, <2>2
<1>7. \A u \in ComputeThreads : /\ Waited(u)' = Waited(u) /\ Bodies(u)' = Bodies(u)
                                /\ Merged(u)' = Merged(u) /\ Released(u)' = Released(u)
                                /\ copies_out_in_loop => Stored(u)' = Stored(u)
  BY <1>2 DEF SameCompute
<1>8. /\ BarrierCounts' /\ CopiesInv' /\ InInv' /\ SmemInv' /\ InClocks' /\ CopyClocks'
      /\ ReleaseInv' /\ DataTypes'
  <2>1. groups' \in Seq(Int)
    BY <1>1, <1>4 DEF DataTypes
  <2> QED
    BY <1>2, <1>3, <1>4, <1>6, <1>7, <2>1, QuietStep
<1>9. ComputeClocks'
  <2>1. ComputeThreads \subseteq Threads
    BY <1>1, ThreadFacts
  <2> QED
    BY <1>2, <1>6, <1>7, <2>1, ComputeClocksKept DEF GpuInv
<1>10. GroupsInv'
  <2>1. copies_out_in_loop => Stored(0)' = Stored(0)
    BY <1>1, <1>7, ThreadFacts
  <2> QED
    BY <1>1, <1>2, <1>4, <2>1, GroupsKept DEF GpuInv
<1>11. ReleaseClocks'
  <2>1. /\ ComputeThreads' = ComputeThreads /\ delay_release' = delay_release
        /\ memory_thread_idx' = t /\ \A g : Slot(g)' = Slot(g)
    BY <1>2 DEF SameKernel
  <2>2. ConsumedClocks /\ ConsumedInv
    BY <1>2 DEF GpuInv, ReleaseClocks, ReleaseInv
  <2>3. (\A u \in ComputeThreads, i \in Inputs, g \in Nat :
          g < Released(u) => CountsStep(Consumed(Slot(g)).clock, i, u, g, delay_release))'
    BY <1>4, <1>7, <2>1, <2>2 DEF ConsumedClocks, Consumed, CountsStep
  <2>4. ASSUME NEW u \in ComputeThreads, NEW i \in Inputs, NEW g \in Nat, g < Seen'
        PROVE  CountsStep(clock'[t], i, u, g, delay_release)
    <3>1. CASE g = G
      <4>1. g < Passed
        BY <1>2, <3>1
      <4>2. g < Released(u)
        BY <2>2, <4>1 DEF ConsumedInv
      <4>3. CountsStep(Consumed(Slot(G)).clock, i, u, g, delay_release)
        BY <2>2, <3>1, <4>2 DEF ConsumedClocks
      <4> QED
        BY <1>6, <4>3, CountsMore
    <3>2. CASE g # G
      <4>1. g < Seen
        BY <1>2, <2>4, <3>2 DEF G
      <4>2. CountsStep(clock[t], i, u, g, delay_release)
        BY <1>2, <2>2, <4>1 DEF ConsumedClocks
      <4> QED
        BY <1>6, <4>2, CountsMore
    <3> QED
      BY <3>1, <3>2
  <2>5. (\A u \in ComputeThreads, i \in Inputs, g \in Nat :
          g < Seen => CountsStep(clock[memory_thread_idx], i, u, g, delay_release))'
    BY <2>1, <2>4 DEF CountsStep
  <2> QED
    BY <2>3, <2>5 DEF ConsumedClocks, ReleaseClocks
<1> QED
  BY <1>2, <1>8, <1>9, <1>10, <1>11 DEF GpuInv

LEMMA StoreKeeps ==
    ASSUME GpuInv, NEW t \in Threads, copy_smem_to_gmem(t)
    PROVE  GpuInv'
<1>1. ControlInv /\ DataTypes /\ KernelFacts /\ LapFacts
  BY ControlFacts DEF GpuInv
<1>2. /\ ControlInv' /\ SameKernel /\ t \in ComputeThreads /\ copies_out_in_loop
      /\ \A u \in ComputeThreads \ {t} : SameCompute(u)
      /\ Stored(t)' = Stored(t) + 1 /\ Stored(t) \in Nat
      /\ Released(t)' = Released(t) /\ Bodies(t)' = Bodies(t) /\ Merged(t)' = Merged(t)
      /\ Waited(t)' = Waited(t)
      /\ SameFetched /\ SameMemory
      /\ Slot(iteration[t]) = Slot(Stored(t))
      /\ line'[t] \notin {"body", "deallocate", "ended"}
  BY <1>1, StoreEffect
<1>3. SameEnded
  <2>1. ThreadStep(t) /\ ~deallocate_barrier(t)
    BY DEF ThreadStep, copy_smem_to_gmem, deallocate_barrier
  <2> QED
    BY <1>1, <2>1, OnlyDeallocateEnds
<1>4. barrier' = barrier /\ in_smem' = in_smem /\ copies' = copies /\ clock' = clock
  BY DEF copy_smem_to_gmem
<1>5. \A u \in ComputeThreads : /\ Waited(u)' = Waited(u) /\ Merged(u)' = Merged(u) /\ Bodies(u)' = Bodies(u)
                                /\ WarpSpecialized => Released(u)' = Released(u)
  BY <1>2 DEF SameCompute
<1>6. WarpSpecialized => Passed' = Passed /\ Seen' = Seen
  BY <1>2 DEF SameMemory
<1>7. t = 0
  BY <1>1, <1>2, ThreadFacts
<1> DEFINE S == Stored(0)
<1>8. PICK x \in {NoSlot, Slot(S)} : groups' = Append(groups, x)
  BY <1>2, <1>7 DEF copy_smem_to_gmem
<1>9. groups \in Seq(Int) /\ x \in Int /\ Len(groups) \in Nat
  <2>1. Slot(S) \in Slots /\ groups \in Seq(Int) /\ max_concurrent_steps \in Nat
    BY <1>1, <1>2, <1>7 DEF LapFacts, DataTypes, KernelFacts
  <2> QED
    BY <2>1 DEF Slots, NoSlot
<1>10. /\ groups' \in Seq(Int) /\ Len(groups') = Len(groups) + 1
       /\ \A k \in 1 .. Len(groups) : groups'[k] = groups[k]
       /\ groups'[Len(groups) + 1] = x
  BY <1>8, <1>9
<1>11. /\ BarrierCounts' /\ CopiesInv' /\ InInv' /\ SmemInv' /\ InClocks' /\ CopyClocks'
       /\ ReleaseInv' /\ DataTypes'
  <2>1. clock' \in [Threads -> SUBSET Accesses]
    BY <1>1, <1>4 DEF DataTypes
  <2> QED
    BY <1>2, <1>3, <1>4, <1>5, <1>6, <1>10, <2>1, QuietStep
<1>12. ReleaseClocks' /\ ComputeClocks'
  BY <1>1, <1>2, <1>4, <1>5, <1>6, ReleaseClocksKept, ComputeClocksKept DEF GpuInv
<1>13. GroupsInv'
  <2>1. /\ copies_out_in_loop' /\ Stored(0)' = S + 1 /\ S \in Nat
        /\ max_concurrent_steps' = max_concurrent_steps
    BY <1>2, <1>7 DEF SameKernel
  <2>2. Len(groups) <= S /\ \A k \in 1 .. Len(groups) : groups[k] \in {NoSlot, Slot(S - Len(groups) + k - 1)}
    BY <1>2 DEF GpuInv, GroupsInv
  <2> HIDE DEF S
  <2>3. ASSUME NEW k \in 1 .. Len(groups')
        PROVE  groups'[k] \in {NoSlot, Slot((S + 1) - Len(groups') + k - 1)}
    <3>1. CASE k = Len(groups) + 1
      <4>1. (S + 1) - Len(groups') + k - 1 = S
        BY <1>9, <1>10, <2>1, <3>1
      <4> QED
        BY <1>8, <1>10, <3>1, <4>1
    <3>2. CASE k # Len(groups) + 1
      <4>1. k \in 1 .. Len(groups) /\ (S + 1) - Len(groups') + k - 1 = S - Len(groups) + k - 1
        BY <1>9, <1>10, <2>1, <2>3, <3>2
      <4> QED
        BY <1>10, <2>2, <4>1
    <3> QED
      BY <3>1, <3>2
  <2>4. (\A k \in 1 .. Len(groups) : groups[k] \in {NoSlot, Slot(Stored(0) - Len(groups) + k - 1)})'
    BY <2>1, <2>3 DEF Slot
  <2>5. (Len(groups) <= Stored(0))'
    BY <1>9, <1>10, <2>1, <2>2
  <2> QED
    BY <1>2, <1>7, <2>1, <2>4, <2>5 DEF GroupsInv
<1> QED
  BY <1>2, <1>11, <1>12, <1>13 DEF GpuInv

LEMMA GroupDoneKeeps ==
    ASSUME GpuInv, GroupDone
    PROVE  GpuInv'
<1>1. ControlInv /\ DataTypes /\ KernelFacts /\ LapFacts
  BY ControlFacts DEF GpuInv
<1>2. /\ ControlInv' /\ SameKernel /\ SameFetched /\ SameMemory
      /\ \A u \in ComputeThreads : SameCompute(u)
      /\ line' = line
  BY <1>1, StayEffect DEF GroupDone
<1>3. SameEnded
  BY <1>2 DEF SameEnded, Ended
<1>4. barrier' = barrier /\ in_smem' = in_smem /\ copies' = copies /\ clock' = clock
  BY DEF GroupDone
<1>5. \A u \in ComputeThreads : /\ Waited(u)' = Waited(u) /\ Merged(u)' = Merged(u) /\ Bodies(u)' = Bodies(u)
                                /\ WarpSpecialized => Released(u)' = Released(u)
                                /\ copies_out_in_loop => Stored(u)' = Stored(u)
  BY <1>2 DEF SameCompute
<1>6. WarpSpecialized => Passed' = Passed /\ Seen' = Seen
  BY <1>2 DEF SameMemory
<1>7. /\ groups \in Seq(Int) /\ groups # << >> /\ groups' = Tail(groups)
      /\ Len(groups) \in Nat /\ Len(groups) > 0
  BY <1>1 DEF GroupDone, DataTypes
<1>8. /\ groups' \in Seq(Int) /\ Len(groups') = Len(groups) - 1
      /\ \A k \in 1 .. Len(groups') : groups'[k] = groups[k + 1]
  BY <1>7
<1>9. /\ BarrierCounts' /\ CopiesInv' /\ InInv' /\ SmemInv' /\ InClocks' /\ CopyClocks'
      /\ ReleaseInv' /\ DataTypes'
  <2>1. clock' \in [Threads -> SUBSET Accesses]
    BY <1>1, <1>4 DEF DataTypes
  <2> QED
    BY <1>2, <1>3, <1>4, <1>5, <1>6, <1>8, <2>1, QuietStep
<1>10. ReleaseClocks' /\ ComputeClocks'
  BY <1>1, <1>2, <1>4, <1>5, <1>6, ReleaseClocksKept, ComputeClocksKept DEF GpuInv
<1>11. GroupsInv'
  <2> DEFINE S == Stored(0)
  <2>1. GroupsInv /\ copies_out_in_loop /\ 0 \in ComputeThreads
    BY <1>1, <1>7, ThreadFacts DEF GpuInv, GroupsInv
  <2>2. /\ copies_out_in_loop' /\ Stored(0)' = S /\ S \in Nat /\ pending_groups' = pending_groups
        /\ pending_groups \in Int
        /\ max_concurrent_steps' = max_concurrent_steps
    <3>1. S \in Nat /\ max_concurrent_steps \in Nat
      BY <1>1, <2>1, ComputeIsCounted DEF ComputeCounts, KernelFacts
    <3> QED
      BY <1>2, <1>5, <2>1, <3>1 DEF SameKernel, pending_groups
  <2>3. /\ Len(groups) <= S
        /\ \A k \in 1 .. Len(groups) : groups[k] \in {NoSlot, Slot(S - Len(groups) + k - 1)}
        /\ line[0] = "body" => Len(groups) <= pending_groups
        /\ line[0] \in {"deallocate", "ended"} => Len(groups) = 0
    BY <2>1 DEF GroupsInv
  <2> HIDE DEF S
  <2>4. ASSUME NEW k \in 1 .. Len(groups')
        PROVE  groups'[k] \in {NoSlot, Slot(S - Len(groups') + k - 1)}
    <3>1. k + 1 \in 1 .. Len(groups) /\ S - Len(groups') + k - 1 = S - Len(groups) + (k + 1) - 1
      BY <1>7, <1>8, <2>2, <2>4
    <3> QED
      BY <1>8, <2>3, <3>1
  <2>5. (\A k \in 1 .. Len(groups) : groups[k] \in {NoSlot, Slot(Stored(0) - Len(groups) + k - 1)})'
    BY <2>2, <2>4 DEF Slot
  <2>6. (Len(groups) <= Stored(0))' /\ (line[0] = "body" => Len(groups) <= pending_groups)'
    BY <1>2, <1>7, <1>8, <2>2, <2>3
  <2>7. (line[0] \in {"deallocate", "ended"} => Len(groups) = 0)'
    BY <1>2, <1>7, <2>3
  <2> QED
    BY <2>2, <2>5, <2>6, <2>7 DEF GroupsInv
<1> QED
  BY <1>2, <1>9, <1>10, <1>11 DEF GpuInv

LEMMA DeallocateKeeps ==
    ASSUME GpuInv, NEW t \in Threads, deallocate_barrier(t)
    PROVE  GpuInv'
<1>1. ControlInv /\ DataTypes /\ KernelFacts /\ LapFacts
  BY ControlFacts DEF GpuInv
<1>2. /\ ControlInv' /\ SameKernel /\ SameFetched /\ SameMemory
      /\ \A u \in ComputeThreads : SameCompute(u)
      /\ OnlyMoves(t) /\ line'[t] = "ended"
  BY <1>1, DeallocateEffect
<1>3. /\ in_smem' = in_smem /\ copies' = copies /\ clock' = clock /\ groups' = groups
      /\ line[t] = "deallocate"
  BY DEF deallocate_barrier
<1>4. \A u \in ComputeThreads : /\ Waited(u)' = Waited(u) /\ Merged(u)' = Merged(u) /\ Bodies(u)' = Bodies(u)
                                /\ WarpSpecialized => Released(u)' = Released(u)
                                /\ copies_out_in_loop => Stored(u)' = Stored(u)
  BY <1>2 DEF SameCompute
<1>5. WarpSpecialized => Passed' = Passed /\ Seen' = Seen
  BY <1>2 DEF SameMemory
<1>6. barrier \in BarrierTypes
  BY <1>1 DEF DataTypes, BarrierTypes
<1>7. \A b \in BarrierStates :
        /\ deallocate(b) \in BarrierStates /\ deallocate(b).ref_count = b.ref_count - 1
        /\ deallocate(b).num_arrivals = b.num_arrivals
        /\ deallocate(b).arrivals_count = b.arrivals_count
        /\ deallocate(b).phase = b.phase /\ deallocate(b).clock = b.clock
        /\ deallocate(b).phase_change_observed = b.phase_change_observed
        /\ deallocate(b).next_awaited_phase = b.next_awaited_phase
  BY DEF deallocate, BarrierStates
<1>8. /\ barrier' \in BarrierTypes
      /\ \A w \in {"in", "consumed"}, s \in Slots : barrier'[w][s] = deallocate(barrier[w][s])
  <2>1. barrier' = [w \in {"in", "consumed"} |-> [s \in Slots |-> deallocate(barrier[w][s])]]
    BY <1>6 DEF deallocate_barrier, BarrierTypes
  <2>2. \A w \in {"in", "consumed"}, s \in Slots : barrier[w][s] \in BarrierStates
    BY <1>6 DEF BarrierTypes
  <2> QED
    BY <1>7, <2>1, <2>2 DEF BarrierTypes
<1>9. \A w \in {"in", "consumed"}, s \in Slots : LET b == barrier[w][s]
                                                     c == barrier'[w][s] IN
        /\ c.ref_count = b.ref_count - 1 /\ c.num_arrivals = b.num_arrivals
        /\ c.arrivals_count = b.arrivals_count /\ c.phase = b.phase /\ c.clock = b.clock
        /\ c.phase_change_observed = b.phase_change_observed
        /\ c.next_awaited_phase = b.next_awaited_phase
  <2>1. \A w \in {"in", "consumed"}, s \in Slots : barrier[w][s] \in BarrierStates
    BY <1>6 DEF BarrierTypes
  <2> QED
    BY <1>7, <1>8, <2>1
<1>10. SameRounds("in") /\ SameRounds("consumed")
  BY <1>9 DEF SameRounds
<1>11. DataTypes'
  BY <1>1, <1>2, <1>3, <1>8, TypesStay DEF DataTypes, CopyTypes
<1>12. BarrierCounts'
  <2>1. Threads' = Threads /\ Slots' = Slots /\ \A w : num_arrivals(w)' = num_arrivals(w)
    BY <1>2 DEF SameKernel
  <2>2. Running' = Running \ {t} /\ t \in Running
    BY <1>2, <1>3, <2>1 DEF Running, Ended, OnlyMoves
  <2>3. Cardinality(Running') = Cardinality(Running) - 1
    <3>1. IsFiniteSet(Threads)
      <4>1. 0 \in Int /\ kernel.num_compute_wgs \in Int
        BY <1>1 DEF KernelFacts
      <4> QED
        BY <4>1, FS_Interval DEF Threads
    <3>2. IsFiniteSet(Running)
      BY <3>1, FS_Subset DEF Running
    <3> QED
      BY <2>2, <3>2, FS_RemoveElement
  <2>4. BarrierCounts
    BY DEF GpuInv
  <2> QED
    BY <1>9, <2>1, <2>3, <2>4 DEF BarrierCounts
<1>13. SameArrived
  BY <1>2, <1>3, ArrivedKept
<1>14. CopiesInv' /\ CopyClocks'
  BY <1>1, <1>2, <1>3, CopiesKept, CopyClocksKept DEF GpuInv
<1>15. InInv' /\ SmemInv'
  BY <1>1, <1>2, <1>3, <1>4, <1>10, <1>13, InKept, SmemKept DEF GpuInv
<1>16. InClocks'
  BY <1>1, <1>2, <1>9, <1>13, InClocksKept DEF GpuInv
<1>17. ReleaseInv'
  BY <1>1, <1>2, <1>4, <1>5, <1>10, ReleaseKept DEF GpuInv
<1>18. ReleaseClocks'
  <2>1. \A s \in Slots : barrier["consumed"][s].clock \subseteq barrier'["consumed"][s].clock
    BY <1>9
  <2> QED
    BY <1>1, <1>2, <1>3, <1>4, <1>5, <2>1, ReleaseClocksKept DEF GpuInv
<1>19. ComputeClocks'
  BY <1>2, <1>3, <1>4, ComputeClocksKept DEF GpuInv
<1>20. GroupsInv'
  <2>1. 0 \in Threads /\ 0 \in ComputeThreads
    BY <1>1, ThreadFacts
  <2>2. CASE t = 0
    BY <1>1, <1>2, <1>3, <1>4, <2>1, <2>2, GroupsKept DEF GpuInv
  <2>3. CASE t # 0
    <3>1. line'[0] = line[0]
      BY <1>2, <2>1, <2>3 DEF OnlyMoves
    <3> QED
      BY <1>1, <1>2, <1>3, <1>4, <2>1, <3>1, GroupsKept DEF GpuInv
  <2> QED
    BY <2>2, <2>3
<1> QED
  BY <1>2, <1>11, <1>12, <1>14, <1>15, <1>16, <1>17, <1>18, <1>19, <1>20 DEF GpuInv

LEMMA FetchKeeps ==
    ASSUME GpuInv, NEW t \in Threads, NEW due, NEW g, Fetches(t, due, g), SameEnded,
           UNCHANGED <<barrier, clock, in_smem, groups>>
    PROVE  GpuInv'
<1>1. ControlInv /\ DataTypes /\ KernelFacts /\ LapFacts
  BY ControlFacts DEF GpuInv
<1>2. /\ ControlInv' /\ SameKernel /\ SameMemory /\ \A u \in ComputeThreads : SameCompute(u)
      /\ t = memory_thread_idx /\ due \subseteq Inputs /\ (due # {} => g \in Nat)
      /\ \A i \in Inputs : FetchedBy(i)' = FetchedBy(i) + One(i \in due)
      /\ \A i \in due : FetchedBy(i) = g
      /\ line'[0] \in {"body", "deallocate", "ended"} => line'[0] = line[0]
  BY DEF Fetches
<1> DEFINE new == {[input |-> i, slot |-> Slot(g), step |-> g, clock |-> clock[t]] : i \in due}
<1>3. copies' = copies \cup new
  BY DEF Fetches
<1>4. \A u \in ComputeThreads : /\ Waited(u)' = Waited(u) /\ Merged(u)' = Merged(u) /\ Bodies(u)' = Bodies(u)
                                /\ WarpSpecialized => Released(u)' = Released(u)
                                /\ copies_out_in_loop => Stored(u)' = Stored(u)
  BY <1>2 DEF SameCompute
<1>5. WarpSpecialized => Passed' = Passed /\ Seen' = Seen
  BY <1>2 DEF SameMemory
<1>6. \A i \in Inputs : /\ FetchedBy(i) \in Nat
                        /\ FetchedBy(i)' = (IF i \in due THEN FetchedBy(i) + 1 ELSE FetchedBy(i))
  <2>1. \A i \in Inputs : FetchedBy(i) \in Nat
    BY <1>1, FetchedIsCounted DEF FetchedCounts
  <2> QED
    BY <1>2, <2>1 DEF One
<1>7. \A c \in new : /\ c.input \in due /\ c.slot = Slot(g) /\ c.step = g /\ c.clock = clock[t]
                     /\ c = [input |-> c.input, slot |-> Slot(g), step |-> g, clock |-> clock[t]]
  OBVIOUS
<1>8. \A i \in due : \E c \in new : c.input = i /\ c.step = g
  <2> SUFFICES ASSUME NEW i \in due PROVE \E c \in new : c.input = i /\ c.step = g
    OBVIOUS
  <2> DEFINE c == [input |-> i, slot |-> Slot(g), step |-> g, clock |-> clock[t]]
  <2>1. c \in new /\ c.input = i /\ c.step = g
    OBVIOUS
  <2> QED
    BY <2>1
<1>9. new \in SUBSET CopyTypes
  <2> SUFFICES ASSUME NEW i \in due
               PROVE  [input |-> i, slot |-> Slot(g), step |-> g, clock |-> clock[t]] \in CopyTypes
    OBVIOUS
  <2>1. i \in Inputs /\ g \in Nat /\ Slot(g) \in Slots /\ clock[t] \in SUBSET Accesses
    BY <1>1, <1>2 DEF LapFacts, DataTypes
  <2> QED
    BY <2>1 DEF CopyTypes
<1> HIDE DEF new
<1>10. SameArrived
  <2> SUFFICES ASSUME NEW i \in Inputs, NEW h \in Nat PROVE Arrived(i, h)' <=> Arrived(i, h)
    BY DEF SameArrived
  <2>1. InFlight(i, h)' <=> InFlight(i, h) \/ (i \in due /\ h = g)
    BY <1>3, <1>7, <1>8 DEF InFlight
  <2>2. CASE i \in due
    <3>1. FetchedBy(i)' = g + 1 /\ FetchedBy(i) = g /\ g \in Nat
      BY <1>2, <1>6, <2>2
    <3> QED
      BY <2>1, <2>2, <3>1 DEF Arrived
  <2>3. CASE i \notin due
    BY <1>6, <2>1, <2>3 DEF Arrived
  <2> QED
    BY <2>2, <2>3
<1>11. DataTypes'
  <2>1. copies' \in SUBSET CopyTypes
    BY <1>1, <1>3, <1>9 DEF DataTypes, CopyTypes
  <2> QED
    BY <1>1, <1>2, <2>1, TypesStay DEF DataTypes, BarrierTypes
<1>12. BarrierCounts'
  BY <1>2, CountsKept DEF GpuInv
<1>13. SameRounds("in") /\ SameRounds("consumed")
  BY DEF SameRounds
<1>14. InInv' /\ SmemInv'
  BY <1>1, <1>2, <1>4, <1>10, <1>13, InKept, SmemKept DEF GpuInv
<1>15. InClocks'
  BY <1>1, <1>2, <1>10, InClocksKept DEF GpuInv
<1>16. ReleaseInv'
  BY <1>1, <1>2, <1>4, <1>5, <1>13, ReleaseKept DEF GpuInv
<1>17. ReleaseClocks' /\ ComputeClocks'
  BY <1>1, <1>2, <1>4, <1>5, ReleaseClocksKept, ComputeClocksKept DEF GpuInv
<1>18. GroupsInv'
  <2>1. 0 \in ComputeThreads
    BY <1>1, ThreadFacts
  <2> QED
    BY <1>1, <1>2, <1>4, <2>1, GroupsKept DEF GpuInv
<1>19. CopiesInv'
  <2>1. \A s : Slot(s)' = Slot(s)
    BY <1>2 DEF SameKernel
  <2>2. CopiesInv /\ (\A c \in copies : c.input \in Inputs /\ c.step \in Nat)
    BY <1>1 DEF GpuInv, DataTypes
  <2>3. ASSUME NEW c \in copies'
        PROVE  c.slot = Slot(c.step) /\ c.step < FetchedBy(c.input)'
    <3>1. CASE c \in copies
      <4>1. c.slot = Slot(c.step) /\ c.step < FetchedBy(c.input) /\ c.step \in Nat /\ c.input \in Inputs
        BY <2>2, <3>1 DEF CopiesInv
      <4> QED
        BY <1>6, <4>1
    <3>2. CASE c \in new
      <4>1. c.input \in due /\ c.slot = Slot(g) /\ c.step = g /\ g \in Nat /\ c.input \in Inputs
        BY <1>2, <1>7, <3>2
      <4> QED
        BY <1>2, <1>6, <4>1
    <3> QED
      BY <1>3, <3>1, <3>2
  <2>4. \A c \in copies, e \in new : ~(c.input = e.input /\ c.step = e.step)
    <3> SUFFICES ASSUME NEW c \in copies, NEW e \in new, c.input = e.input, c.step = e.step
                 PROVE  FALSE
      OBVIOUS
    <3>1. e.input \in due /\ e.step = g /\ FetchedBy(e.input) = g /\ g \in Nat
      BY <1>2, <1>7
    <3>2. c.step < FetchedBy(c.input)
      BY <2>2 DEF CopiesInv
    <3> QED
      BY <3>1, <3>2
  <2>5. \A c, e \in new : c.input = e.input => c = e
    BY <1>7
  <2>6. \A c, e \in copies' : c.input = e.input /\ c.step = e.step => c = e
    BY <1>3, <2>2, <2>4, <2>5 DEF CopiesInv
  <2> QED
    BY <2>1, <2>3, <2>6 DEF CopiesInv
<1>20. CopyClocks'
  <2>1. /\ ComputeThreads' = ComputeThreads /\ max_concurrent_steps' = max_concurrent_steps
        /\ kernel' = kernel
    BY <1>2 DEF SameKernel
  <2> SUFFICES ASSUME NEW c \in copies', NEW u \in ComputeThreads, NEW h \in Nat,
                      h + max_concurrent_steps = c.step
               PROVE  CountsStep(c.clock, c.input, u, h, kernel.delay_release[c.input])
    BY <2>1 DEF CopyClocks, CountsStep
  <2>2. CASE c \in copies
    BY <2>2 DEF GpuInv, CopyClocks
  <2>3. CASE c \in new
    <3> DEFINE i == c.input
    <3>1. i \in due /\ i \in Inputs /\ c.step = g /\ c.clock = clock[t]
      BY <1>2, <1>7, <2>3
    <3>2. CASE WarpSpecialized
      <4>1. h < Seen
        BY <3>1, <3>2 DEF Fetches
      <4>2. ConsumedClocks
        BY <3>2 DEF GpuInv, ReleaseClocks
      <4>3. CountsStep(clock[memory_thread_idx], i, u, h, delay_release)
        BY <3>1, <4>1, <4>2 DEF ConsumedClocks
      <4>4. kernel.delay_release[i] = delay_release
        BY <1>1, <3>1, <3>2 DEF KernelFacts
      <4> QED
        BY <1>2, <3>1, <4>3, <4>4
    <3>3. CASE ~WarpSpecialized
      <4>1. h < Merged(0) /\ h + kernel.delay_release[i] < Bodies(0)
        BY <3>1, <3>3 DEF Fetches
      <4>2. u = 0 /\ t = 0
        BY <1>1, <1>2, <3>3, ThreadFacts
      <4>3. ComputeClocks
        BY DEF GpuInv
      <4>4. kernel.delay_release[i] \in Nat /\ Bodies(0) \in Nat
        BY <1>1, <3>1, <4>2, ComputeIsCounted DEF KernelFacts, ComputeCounts
      <4>5. <<"copy", i, h>> \in clock[0]
        BY <3>1, <4>1, <4>2, <4>3 DEF ComputeClocks
      <4>6. \A s \in Nat : s <= h + kernel.delay_release[i] => <<"body", 0, s>> \in clock[0]
        <5> SUFFICES ASSUME NEW s \in Nat, s <= h + kernel.delay_release[i]
                     PROVE  <<"body", 0, s>> \in clock[0]
          OBVIOUS
        <5>1. s < Bodies(0)
          BY <4>1, <4>4
        <5> QED
          BY <4>2, <4>3, <5>1 DEF ComputeClocks
      <4> QED
        BY <3>1, <4>2, <4>5, <4>6 DEF CountsStep
    <3> QED
      BY <3>2, <3>3
  <2> QED
    BY <1>3, <2>2, <2>3
<1> QED
  BY <1>2, <1>11, <1>12, <1>14, <1>15, <1>16, <1>17, <1>18, <1>19, <1>20 DEF GpuInv

\* What barrier_wait does to the barriers.
LEMMA WaitBarriers ==
    ASSUME BarrierCounts, barrier \in BarrierTypes, NEW t \in Threads, NEW w \in {"in", "consumed"},
           NEW s \in Slots, WaitPasses(barrier[w][s], t),
           barrier' = [barrier EXCEPT ![w][s] = Observed(@, t)]
    PROVE  /\ barrier' \in BarrierTypes /\ barrier'[w][s] = Observed(barrier[w][s], t)
           /\ \A r \in Slots \ {s} : barrier'[w][r] = barrier[w][r]
           /\ \A v \in {"in", "consumed"} \ {w} : barrier'[v] = barrier[v]
           /\ OnlyAwaitedBy(t)
           /\ SameKernel /\ SameEnded => BarrierCounts'
<1> DEFINE b == barrier[w][s]
           c == Observed(b, t)
<1>1. b \in BarrierStates
  BY DEF BarrierTypes
<1>2. /\ c \in BarrierStates /\ c.num_arrivals = b.num_arrivals
      /\ c.ref_count = b.ref_count /\ c.arrivals_count = b.arrivals_count
      /\ c.phase = b.phase /\ c.clock = b.clock
      /\ c.next_awaited_phase[t] = b.next_awaited_phase[t] + 1
      /\ \A u \in Threads \ {t} : c.next_awaited_phase[u] = b.next_awaited_phase[u]
  BY <1>1, ObservedFields
<1>3. barrier' = [barrier EXCEPT ![w] = [barrier[w] EXCEPT ![s] = c]]
  BY DEF BarrierTypes
<1> HIDE DEF c
<1>4. barrier' \in BarrierTypes /\ barrier'[w][s] = c
  BY <1>2, <1>3 DEF BarrierTypes
<1>5. /\ \A r \in Slots \ {s} : barrier'[w][r] = barrier[w][r]
      /\ \A v \in {"in", "consumed"} \ {w} : barrier'[v] = barrier[v]
  BY <1>3 DEF BarrierTypes
<1>6. \A v \in {"in", "consumed"}, r \in Slots :
        ~(v = w /\ r = s) => barrier'[v][r] = barrier[v][r]
  BY <1>5
<1>7. ASSUME NEW v \in {"in", "consumed"}, NEW r \in Slots
      PROVE  /\ barrier[v][r] \in BarrierStates
             /\ barrier'[v][r].phase = barrier[v][r].phase
             /\ barrier'[v][r].arrivals_count = barrier[v][r].arrivals_count
             /\ barrier'[v][r].clock = barrier[v][r].clock
             /\ \A u \in Threads \ {t} :
                   barrier'[v][r].next_awaited_phase[u] = barrier[v][r].next_awaited_phase[u]
  <2>1. barrier[v][r] \in BarrierStates
    BY DEF BarrierTypes
  <2>2. CASE v = w /\ r = s
    BY <1>2, <1>4, <2>1, <2>2
  <2>3. CASE ~(v = w /\ r = s)
    BY <1>6, <2>1, <2>3
  <2> QED
    BY <2>2, <2>3
<1>8. ASSUME SameKernel, SameEnded
      PROVE  BarrierCounts'
  <2>1. /\ b.num_arrivals = num_arrivals(w)
        /\ b.arrivals_count < b.num_arrivals \/ b.num_arrivals = 0
        /\ \A u \in Threads : b.next_awaited_phase[u] \in 1 .. (b.phase + 1)
    BY DEF BarrierCounts
  <2>2. b.next_awaited_phase[t] = b.phase /\ b.phase \in Nat
    BY <1>1 DEF WaitPasses, BarrierStates
  <2>3. \A u \in Threads : c.next_awaited_phase[u] \in 1 .. (c.phase + 1)
    <3> SUFFICES ASSUME NEW u \in Threads
                 PROVE  c.next_awaited_phase[u] \in 1 .. (c.phase + 1)
      OBVIOUS
    <3>1. CASE u = t
      BY <1>2, <2>1, <2>2, <3>1
    <3>2. CASE u # t
      BY <1>2, <2>1, <2>2, <3>2
    <3> QED
      BY <3>1, <3>2
  <2>4. \A v \in {"in", "consumed"}, r \in Slots : barrier'[v][r] = barrier[v][r] \/
              LET e == barrier[v][r]
                  f == barrier'[v][r] IN
              /\ f.num_arrivals = e.num_arrivals /\ f.ref_count = e.ref_count
              /\ f.arrivals_count < f.num_arrivals \/ f.num_arrivals = 0
              /\ \A u \in Threads : f.next_awaited_phase[u] \in 1 .. (f.phase + 1)
    <3> SUFFICES ASSUME NEW v \in {"in", "consumed"}, NEW r \in Slots,
                        barrier'[v][r] # barrier[v][r]
                 PROVE  LET e == barrier[v][r]
                            f == barrier'[v][r] IN
                        /\ f.num_arrivals = e.num_arrivals /\ f.ref_count = e.ref_count
                        /\ f.arrivals_count < f.num_arrivals \/ f.num_arrivals = 0
                        /\ \A u \in Threads : f.next_awaited_phase[u] \in 1 .. (f.phase + 1)
      OBVIOUS
    <3>1. v = w /\ r = s
      BY <1>6
    <3>2. barrier[v][r] = b /\ barrier'[v][r] = c
      BY <1>4, <3>1
    <3>3. /\ c.num_arrivals = b.num_arrivals /\ c.ref_count = b.ref_count
          /\ c.arrivals_count < c.num_arrivals \/ c.num_arrivals = 0
      BY <1>2, <2>1
    <3> QED
      BY <2>3, <3>2, <3>3
  <2> QED
    BY <1>8, <2>4, CountsKept
<1>9. OnlyAwaitedBy(t)
  BY <1>7 DEF OnlyAwaitedBy
<1> QED
  BY <1>4, <1>5, <1>8, <1>9 DEF c

LEMMA WaitInKeeps ==
    ASSUME GpuInv, NEW t \in Threads, barrier_wait(t), line[t] = "wait_in"
    PROVE  GpuInv'
<1>1. ControlInv /\ DataTypes /\ KernelFacts /\ LapFacts /\ BarrierCounts /\ InInv
  BY ControlFacts DEF GpuInv
<1> DEFINE G == Waited(t)
<1>2. /\ ControlInv' /\ SameKernel /\ t \in ComputeThreads
      /\ \A u \in ComputeThreads \ {t} : SameCompute(u)
      /\ Waited(t)' = G + 1 /\ Merged(t)' = Merged(t) /\ Bodies(t)' = Bodies(t)
      /\ Stored(t)' = Stored(t) /\ Released(t)' = Released(t)
      /\ SameFetched /\ SameMemory
      /\ Slot(iteration[t]) = Slot(G)
  BY <1>1, WaitInEffect
<1>3. \A u \in ComputeThreads : Waited(u) \in Nat
  BY <1>1, ComputeIsCounted DEF ComputeCounts
<1>4. G \in Nat
  BY <1>2, <1>3
<1>5. \A u \in ComputeThreads : /\ u # t => Waited(u)' = Waited(u)
                                /\ Bodies(u)' = Bodies(u) /\ Merged(u)' = Merged(u)
                                /\ WarpSpecialized => Released(u)' = Released(u)
                                /\ copies_out_in_loop => Stored(u)' = Stored(u)
  BY <1>2 DEF SameCompute
<1> HIDE DEF G
<1>6. SameEnded /\ line' = line
  BY DEF barrier_wait, place, SameEnded, Ended
<1>7. /\ in_smem' = in_smem /\ copies' = copies /\ groups' = groups /\ clock' = clock
  BY DEF barrier_wait
<1>8. Slot(G) \in Slots /\ Lap(G) \in Nat
  BY <1>1, <1>4 DEF LapFacts
<1>9. /\ WaitPasses(barrier["in"][Slot(G)], t)
      /\ barrier' = [barrier EXCEPT !["in"][Slot(G)] = Observed(@, t)]
  BY <1>2 DEF barrier_wait, Awaited
<1>10. barrier \in BarrierTypes
  BY <1>1 DEF DataTypes, BarrierTypes
<1>11. /\ barrier' \in BarrierTypes /\ barrier'["in"][Slot(G)] = Observed(barrier["in"][Slot(G)], t)
       /\ \A r \in Slots \ {Slot(G)} : barrier'["in"][r] = barrier["in"][r]
       /\ \A v \in {"in", "consumed"} \ {"in"} : barrier'[v] = barrier[v]
       /\ \A v \in {"in", "consumed"}, r \in Slots :
             /\ barrier[v][r] \in BarrierStates
             /\ barrier'[v][r].phase = barrier[v][r].phase
             /\ barrier'[v][r].arrivals_count = barrier[v][r].arrivals_count
             /\ barrier'[v][r].clock = barrier[v][r].clock
             /\ \A u \in Threads \ {t} :
                   barrier'[v][r].next_awaited_phase[u] = barrier[v][r].next_awaited_phase[u]
       /\ BarrierCounts'
  <2>1. /\ barrier' \in BarrierTypes /\ barrier'["in"][Slot(G)] = Observed(barrier["in"][Slot(G)], t)
        /\ \A r \in Slots \ {Slot(G)} : barrier'["in"][r] = barrier["in"][r]
        /\ \A v \in {"in", "consumed"} \ {"in"} : barrier'[v] = barrier[v]
        /\ OnlyAwaitedBy(t) /\ BarrierCounts'
    BY <1>1, <1>2, <1>6, <1>8, <1>9, <1>10, WaitBarriers
  <2> QED
    BY <2>1 DEF OnlyAwaitedBy
<1>12. DataTypes'
  BY <1>1, <1>2, <1>7, <1>11, TypesStay DEF DataTypes, CopyTypes
<1>13. SameArrived
  BY <1>2, <1>7, ArrivedKept
<1>14. barrier["in"] \in [Slots -> BarrierStates] /\ barrier'["in"] \in [Slots -> BarrierStates]
  BY <1>10, <1>11 DEF BarrierTypes
<1>15. AwaitInv(barrier["in"], t, G)
  BY <1>1, <1>2 DEF InInv, AwaitInv, In, G
<1>16. barrier["in"][Slot(G)].next_awaited_phase[t] >= 1
  <2>1. barrier["in"][Slot(G)].next_awaited_phase[t] \in 1 .. (barrier["in"][Slot(G)].phase + 1)
    BY <1>1, <1>8 DEF BarrierCounts
  <2>2. barrier["in"][Slot(G)].phase \in Nat
    BY <1>8, <1>11 DEF BarrierStates
  <2> QED
    BY <2>1, <2>2
<1>17. barrier["in"][Slot(G)].next_awaited_phase[t] = Lap(G) + 1
  BY <1>1, <1>4, <1>14, <1>15, <1>16, NextAwaited
<1>18. \A i \in Inputs : Arrived(i, G)
  <2>1. Lap(G) < In(Slot(G)).phase
    BY <1>8, <1>9, <1>17 DEF WaitPasses, In
  <2> QED
    BY <1>1, <1>4, <2>1 DEF InInv
<1>19. barrier["in"][Slot(G)] \in BarrierStates
  BY <1>8, <1>11
<1>20. /\ barrier'["in"][Slot(G)].next_awaited_phase[t] = barrier["in"][Slot(G)].next_awaited_phase[t] + 1
       /\ barrier'["in"][Slot(G)].phase_change_observed
  BY <1>11, <1>19, ObservedFields
<1>21. AwaitInv(barrier'["in"], t, G + 1)
  BY <1>1, <1>4, <1>11, <1>14, <1>15, <1>16, <1>20, WaitCounted
<1>22. InInv'
  <2>1. /\ ComputeThreads' = ComputeThreads /\ Slots' = Slots
        /\ memory_thread_idx' = memory_thread_idx /\ (WarpSpecialized' <=> WarpSpecialized)
        /\ \A g : Slot(g)' = Slot(g) /\ Lap(g)' = Lap(g)
    BY <1>2 DEF SameKernel
  <2>2. \A g \in Nat : /\ In(Slot(g))'.phase = In(Slot(g)).phase
                       /\ In(Slot(g))'.arrivals_count = In(Slot(g)).arrivals_count
                       /\ \A u \in Threads \ {t} :
                             In(Slot(g))'.next_awaited_phase[u] = In(Slot(g)).next_awaited_phase[u]
    BY <1>1, <1>11, <2>1 DEF In, LapFacts
  <2>3. \A g \in Nat : (\A i \in Inputs : Arrived(i, g))' <=> \A i \in Inputs : Arrived(i, g)
    BY <1>13 DEF SameArrived
  <2>4. \A g \in Nat : {i \in Inputs : Arrived(i, g)}' = {i \in Inputs : Arrived(i, g)}
    BY <1>13 DEF SameArrived
  <2>5. (\A g \in Nat : Lap(g) < In(Slot(g)).phase <=> \A i \in Inputs : Arrived(i, g))'
    BY <1>1, <2>1, <2>2, <2>3 DEF InInv
  <2>6. (\A g \in Nat : Lap(g) = In(Slot(g)).phase =>
            In(Slot(g)).arrivals_count = Cardinality({i \in Inputs : Arrived(i, g)}))'
    BY <1>1, <2>1, <2>2, <2>4 DEF InInv
  <2>7. ASSUME NEW u \in ComputeThreads, NEW g \in Nat, g < Waited(u)'
        PROVE  \A i \in Inputs : Arrived(i, g)'
    <3>1. CASE u = t /\ g = G
      BY <1>18, <2>3, <3>1
    <3>2. CASE ~(u = t /\ g = G)
      <4>1. g < Waited(u)
        BY <1>2, <1>3, <1>4, <1>5, <2>7, <3>2 DEF G
      <4> QED
        BY <1>1, <2>3, <4>1 DEF InInv
    <3> QED
      BY <3>1, <3>2
  <2>8. (\A u \in ComputeThreads, g \in Nat : g < Waited(u) => \A i \in Inputs : Arrived(i, g))'
    BY <2>1, <2>7
  <2>9. ASSUME NEW u \in ComputeThreads, NEW g \in Nat
        PROVE  g < Waited(u)' <=> Lap(g) + 1 < In(Slot(g))'.next_awaited_phase[u]
    <3>1. CASE u = t
      <4>1. g < G + 1 <=> Lap(g) + 1 < barrier'["in"][Slot(g)].next_awaited_phase[t]
        BY <1>21 DEF AwaitInv
      <4> QED
        BY <1>2, <2>1, <3>1, <4>1 DEF In
    <3>2. CASE u # t
      <4>1. u \in Threads \ {t}
        BY <1>1, <3>2, ThreadFacts
      <4>2. In(Slot(g))'.next_awaited_phase[u] = In(Slot(g)).next_awaited_phase[u]
        BY <2>2, <4>1
      <4>3. g < Waited(u) <=> Lap(g) + 1 < In(Slot(g)).next_awaited_phase[u]
        BY <1>1 DEF InInv
      <4> QED
        BY <1>5, <3>2, <4>2, <4>3
    <3> QED
      BY <3>1, <3>2
  <2>10. (\A u \in ComputeThreads, g \in Nat :
            g < Waited(u) <=> Lap(g) + 1 < In(Slot(g)).next_awaited_phase[u])'
    BY <2>1, <2>9
  <2>11. (WarpSpecialized => \A s \in Slots : In(s).next_awaited_phase[memory_thread_idx] = 1)'
    <3>1. WarpSpecialized => memory_thread_idx \in Threads \ {t}
      BY <1>1, <1>2, ThreadFacts
    <3> QED
      BY <1>1, <1>11, <2>1, <3>1 DEF InInv, In
  <2>12. ASSUME NEW s \in Slots, ~In(s)'.phase_change_observed
         PROVE  /\ In(s)'.phase > 0
                /\ \A u \in ComputeThreads, g \in Nat :
                      Slot(g) = s /\ Lap(g) + 1 = In(s)'.phase => Waited(u)' <= g
    <3>1. s # Slot(G)
      BY <1>20, <2>12 DEF In
    <3>2. In(s)' = In(s)
      BY <1>11, <3>1 DEF In
    <3>3. /\ In(s).phase > 0
          /\ \A u \in ComputeThreads, g \in Nat :
                Slot(g) = s /\ Lap(g) + 1 = In(s).phase => Waited(u) <= g
      BY <1>1, <2>12, <3>2 DEF InInv
    <3>4. ASSUME NEW u \in ComputeThreads, NEW g \in Nat, Slot(g) = s, Lap(g) + 1 = In(s).phase
          PROVE  Waited(u)' <= g
      <4>1. Waited(u) <= g
        BY <3>3, <3>4
      <4>2. g # G
        BY <3>1, <3>4
      <4>3. CASE u = t
        BY <1>2, <1>4, <4>1, <4>2, <4>3 DEF G
      <4>4. CASE u # t
        BY <1>5, <4>1, <4>4
      <4> QED
        BY <4>3, <4>4
    <3> QED
      BY <3>2, <3>3, <3>4
  <2>13. (\A s \in Slots : In(s).phase_change_observed \/
            /\ In(s).phase > 0
            /\ \A u \in ComputeThreads, g \in Nat :
                  Slot(g) = s /\ Lap(g) + 1 = In(s).phase => Waited(u) <= g)'
    BY <2>1, <2>12
  <2> QED
    BY <2>5, <2>6, <2>8, <2>10, <2>11, <2>13 DEF InInv
<1>23. CopiesInv' /\ CopyClocks' /\ SmemInv'
  BY <1>1, <1>2, <1>7, <1>13, CopiesKept, CopyClocksKept, SmemKept DEF GpuInv
<1>24. InClocks'
  BY <1>1, <1>2, <1>11, <1>13, InClocksKept DEF GpuInv
<1>25. barrier'["consumed"] = barrier["consumed"]
  BY <1>11
<1>26. WarpSpecialized => Passed' = Passed /\ Seen' = Seen
  BY <1>2 DEF SameMemory
<1>27. ReleaseInv' /\ ReleaseClocks'
  <2>1. SameRounds("consumed")
    BY <1>25 DEF SameRounds
  <2> QED
    BY <1>1, <1>2, <1>5, <1>7, <1>25, <1>26, <2>1, ReleaseKept, ReleaseClocksKept DEF GpuInv
<1>28. ComputeClocks'
  BY <1>2, <1>5, <1>7, ComputeClocksKept DEF GpuInv
<1>29. GroupsInv'
  <2>1. copies_out_in_loop => Stored(0)' = Stored(0)
    BY <1>1, <1>5, ThreadFacts
  <2> QED
    BY <1>1, <1>2, <1>6, <1>7, <2>1, GroupsKept DEF GpuInv
<1> QED
  BY <1>2, <1>11, <1>12, <1>22, <1>23, <1>24, <1>27, <1>28, <1>29 DEF GpuInv

LEMMA WaitConsumedKeeps ==
    ASSUME GpuInv, NEW t \in Threads, barrier_wait(t), line[t] # "wait_in"
    PROVE  GpuInv'
<1>1. ControlInv /\ DataTypes /\ KernelFacts /\ LapFacts /\ BarrierCounts
  BY ControlFacts DEF GpuInv
<1> DEFINE G == Passed
<1>2. /\ ControlInv' /\ SameKernel /\ WarpSpecialized /\ t = memory_thread_idx
      /\ \A u \in ComputeThreads : SameCompute(u)
      /\ Passed' = G + 1 /\ Seen' = Seen /\ SameFetched
      /\ Slot(iteration[t]) = Slot(G)
  BY <1>1, WaitConsumedEffect
<1>3. G \in Nat
  BY <1>1, <1>2, MemoryIsCounted DEF MemoryCounts
<1>4. ConsumedInv
  BY <1>2 DEF GpuInv, ReleaseInv
<1>5. \A u \in ComputeThreads : /\ Waited(u)' = Waited(u)
                                /\ Bodies(u)' = Bodies(u) /\ Merged(u)' = Merged(u)
                                /\ Released(u)' = Released(u)
                                /\ copies_out_in_loop => Stored(u)' = Stored(u)
  BY <1>2 DEF SameCompute
<1> HIDE DEF G
<1>6. SameEnded /\ line' = line
  BY DEF barrier_wait, place, SameEnded, Ended
<1>7. /\ in_smem' = in_smem /\ copies' = copies /\ groups' = groups /\ clock' = clock
  BY DEF barrier_wait
<1>8. Slot(G) \in Slots /\ Lap(G) \in Nat
  BY <1>1, <1>3 DEF LapFacts
<1>9. /\ WaitPasses(barrier["consumed"][Slot(G)], t)
      /\ barrier' = [barrier EXCEPT !["consumed"][Slot(G)] = Observed(@, t)]
  BY <1>2 DEF barrier_wait, Awaited
<1>10. barrier \in BarrierTypes
  BY <1>1 DEF DataTypes, BarrierTypes
<1>11. /\ barrier' \in BarrierTypes
       /\ barrier'["consumed"][Slot(G)] = Observed(barrier["consumed"][Slot(G)], t)
       /\ \A r \in Slots \ {Slot(G)} : barrier'["consumed"][r] = barrier["consumed"][r]
       /\ \A v \in {"in", "consumed"} \ {"consumed"} : barrier'[v] = barrier[v]
       /\ OnlyAwaitedBy(t) /\ BarrierCounts'
  BY <1>1, <1>2, <1>6, <1>8, <1>9, <1>10, WaitBarriers
<1>12. DataTypes'
  BY <1>1, <1>2, <1>7, <1>11, TypesStay DEF DataTypes, CopyTypes
<1>13. SameArrived
  BY <1>2, <1>7, ArrivedKept
<1>14. barrier["consumed"] \in [Slots -> BarrierStates] /\ barrier'["consumed"] \in [Slots -> BarrierStates]
  BY <1>10, <1>11 DEF BarrierTypes
<1>15. AwaitInv(barrier["consumed"], t, G)
  BY <1>2, <1>4 DEF ConsumedInv, AwaitInv, Consumed, G
<1>16. barrier["consumed"][Slot(G)].next_awaited_phase[t] >= 1
  <2>1. barrier["consumed"][Slot(G)].next_awaited_phase[t] \in 1 .. (barrier["consumed"][Slot(G)].phase + 1)
    BY <1>1, <1>8 DEF BarrierCounts
  <2>2. barrier["consumed"][Slot(G)].phase \in Nat
    BY <1>8, <1>11 DEF BarrierStates, OnlyAwaitedBy
  <2> QED
    BY <2>1, <2>2
<1>17. barrier["consumed"][Slot(G)].next_awaited_phase[t] = Lap(G) + 1
  BY <1>1, <1>3, <1>14, <1>15, <1>16, NextAwaited
<1>18. \A u \in ComputeThreads : G < Released(u)
  <2>1. Lap(G) < Consumed(Slot(G)).phase
    BY <1>8, <1>9, <1>17 DEF WaitPasses, Consumed
  <2> QED
    BY <1>3, <1>4, <2>1 DEF ConsumedInv
<1>19. barrier["consumed"][Slot(G)] \in BarrierStates
  BY <1>8, <1>14
<1>20. /\ barrier'["consumed"][Slot(G)].next_awaited_phase[t]
            = barrier["consumed"][Slot(G)].next_awaited_phase[t] + 1
       /\ barrier'["consumed"][Slot(G)].phase_change_observed
  BY <1>11, <1>19, ObservedFields
<1>21. AwaitInv(barrier'["consumed"], t, G + 1)
  BY <1>1, <1>3, <1>11, <1>14, <1>15, <1>16, <1>20, WaitCounted
<1>22. ConsumedInv'
  <2>1. /\ ComputeThreads' = ComputeThreads /\ Slots' = Slots
        /\ memory_thread_idx' = t
        /\ \A g : Slot(g)' = Slot(g) /\ Lap(g)' = Lap(g)
    BY <1>2 DEF SameKernel
  <2>2. \A g \in Nat : /\ Consumed(Slot(g))'.phase = Consumed(Slot(g)).phase
                       /\ Consumed(Slot(g))'.arrivals_count = Consumed(Slot(g)).arrivals_count
    BY <1>1, <1>11, <2>1 DEF Consumed, LapFacts, OnlyAwaitedBy
  <2>3. \A g \in Nat : {u \in ComputeThreads : g < Released(u)}' = {u \in ComputeThreads : g < Released(u)}
    BY <1>5, <2>1
  <2>4. (\A g \in Nat : Lap(g) < Consumed(Slot(g)).phase <=> \A u \in ComputeThreads : g < Released(u))'
    BY <1>4, <1>5, <2>1, <2>2 DEF ConsumedInv
  <2>5. (\A g \in Nat : Lap(g) = Consumed(Slot(g)).phase =>
            Consumed(Slot(g)).arrivals_count = Cardinality({u \in ComputeThreads : g < Released(u)}))'
    BY <1>4, <2>1, <2>2, <2>3 DEF ConsumedInv
  <2>6. ASSUME NEW u \in ComputeThreads, NEW g \in Nat, g < Passed'
        PROVE  g < Released(u)'
    <3>1. CASE g = G
      BY <1>5, <1>18, <3>1
    <3>2. CASE g # G
      <4>1. g < Passed
        BY <1>2, <1>3, <2>6, <3>2 DEF G
      <4> QED
        BY <1>4, <1>5, <4>1 DEF ConsumedInv
    <3> QED
      BY <3>1, <3>2
  <2>7. (\A u \in ComputeThreads, g \in Nat : g < Passed => g < Released(u))'
    BY <2>1, <2>6
  <2>8. (\A g \in Nat :
            g < Passed <=> Lap(g) + 1 < Consumed(Slot(g)).next_awaited_phase[memory_thread_idx])'
    BY <1>2, <1>21, <2>1 DEF AwaitInv, Consumed
  <2>9. (\A u \in ComputeThreads, s \in Slots : Consumed(s).next_awaited_phase[u] = 1)'
    <3>1. ComputeThreads \subseteq Threads \ {t}
      BY <1>1, <1>2, ThreadFacts
    <3> QED
      BY <1>4, <1>11, <2>1, <3>1 DEF ConsumedInv, Consumed, OnlyAwaitedBy
  <2>10. ASSUME NEW s \in Slots, ~Consumed(s)'.phase_change_observed
         PROVE  /\ Consumed(s)'.phase > 0
                /\ \A g \in Nat : Slot(g) = s /\ Lap(g) + 1 = Consumed(s)'.phase => Passed' <= g
    <3>1. s # Slot(G)
      BY <1>20, <2>10 DEF Consumed
    <3>2. Consumed(s)' = Consumed(s)
      BY <1>11, <3>1 DEF Consumed
    <3>3. /\ Consumed(s).phase > 0
          /\ \A g \in Nat : Slot(g) = s /\ Lap(g) + 1 = Consumed(s).phase => Passed <= g
      BY <1>4, <2>10, <3>2 DEF ConsumedInv
    <3>4. ASSUME NEW g \in Nat, Slot(g) = s, Lap(g) + 1 = Consumed(s).phase
          PROVE  Passed' <= g
      <4>1. Passed <= g
        BY <3>3, <3>4
      <4>2. g # G
        BY <3>1, <3>4
      <4> QED
        BY <1>2, <1>3, <4>1, <4>2 DEF G
    <3> QED
      BY <3>2, <3>3, <3>4
  <2>11. (\A s \in Slots : Consumed(s).phase_change_observed \/
            /\ Consumed(s).phase > 0
            /\ \A g \in Nat : Slot(g) = s /\ Lap(g) + 1 = Consumed(s).phase => Passed <= g)'
    BY <2>1, <2>10
  <2> QED
    BY <2>4, <2>5, <2>7, <2>8, <2>9, <2>11 DEF ConsumedInv
<1>23. CopiesInv' /\ CopyClocks' /\ SmemInv'
  BY <1>1, <1>2, <1>7, <1>13, CopiesKept, CopyClocksKept, SmemKept DEF GpuInv
<1>24. barrier'["in"] = barrier["in"]
  BY <1>11
<1>25. InClocks' /\ InInv'
  <2>1. SameRounds("in")
    BY <1>24 DEF SameRounds
  <2> QED
    BY <1>1, <1>2, <1>5, <1>13, <1>24, <2>1, InKept, InClocksKept DEF GpuInv
<1>26. ReleaseInv'
  <2>1. WarpSpecialized'
    BY <1>2 DEF SameKernel
  <2> QED
    BY <1>22, <2>1 DEF ReleaseInv
<1>27. ReleaseClocks'
  <2>1. \A s \in Slots : barrier["consumed"][s].clock \subseteq barrier'["consumed"][s].clock
    BY <1>11 DEF OnlyAwaitedBy
  <2> QED
    BY <1>1, <1>2, <1>5, <1>7, <2>1, ReleaseClocksKept DEF GpuInv
<1>28. ComputeClocks'
  BY <1>2, <1>5, <1>7, ComputeClocksKept DEF GpuInv
<1>29. GroupsInv'
  <2>1. copies_out_in_loop => Stored(0)' = Stored(0)
    BY <1>1, <1>5, ThreadFacts
  <2> QED
    BY <1>1, <1>2, <1>6, <1>7, <2>1, GroupsKept DEF GpuInv
<1> QED
  BY <1>2, <1>11, <1>12, <1>23, <1>25, <1>26, <1>27, <1>28, <1>29 DEF GpuInv

\* What an arrival does to the barriers.
LEMMA ArriveBarriers ==
    ASSUME BarrierCounts, barrier \in BarrierTypes, NEW w \in {"in", "consumed"},
           NEW s \in Slots, NEW events \in SUBSET Accesses, Arrive(w, s, events)
    PROVE  /\ barrier' \in BarrierTypes /\ barrier'[w][s] = arrive(barrier[w][s], events)
           /\ \A r \in Slots \ {s} : barrier'[w][r] = barrier[w][r]
           /\ \A v \in {"in", "consumed"} \ {w} : barrier'[v] = barrier[v]
           /\ NobodyWaits
           /\ barrier'[w][s].clock = barrier[w][s].clock \cup events
           /\ barrier[w][s].num_arrivals = num_arrivals(w)
           /\ (/\ SameKernel /\ SameEnded
               /\ barrier'[w][s].arrivals_count < barrier'[w][s].num_arrivals
               /\ barrier[w][s].phase <= barrier'[w][s].phase) => BarrierCounts'
<1> DEFINE b == barrier[w][s]
           c == arrive(b, events)
<1>1. b \in BarrierStates
  BY DEF BarrierTypes
<1>2. /\ c \in BarrierStates /\ c.num_arrivals = b.num_arrivals
      /\ c.ref_count = b.ref_count /\ c.next_awaited_phase = b.next_awaited_phase
      /\ c.clock = b.clock \cup events
  BY <1>1, ArriveFields
<1>3. barrier' = [barrier EXCEPT ![w] = [barrier[w] EXCEPT ![s] = c]]
  BY DEF BarrierTypes, Arrive
<1> HIDE DEF c
<1>4. barrier' \in BarrierTypes /\ barrier'[w][s] = c
  BY <1>2, <1>3 DEF BarrierTypes
<1>5. /\ \A r \in Slots \ {s} : barrier'[w][r] = barrier[w][r]
      /\ \A v \in {"in", "consumed"} \ {w} : barrier'[v] = barrier[v]
  BY <1>3 DEF BarrierTypes
<1>6. \A v \in {"in", "consumed"}, r \in Slots :
        ~(v = w /\ r = s) => barrier'[v][r] = barrier[v][r]
  BY <1>5
<1>7. ASSUME NEW v \in {"in", "consumed"}, NEW r \in Slots
      PROVE  /\ barrier[v][r] \in BarrierStates
             /\ barrier[v][r].clock \subseteq barrier'[v][r].clock
             /\ barrier'[v][r].next_awaited_phase = barrier[v][r].next_awaited_phase
  <2>1. barrier[v][r] \in BarrierStates
    BY DEF BarrierTypes
  <2>2. CASE v = w /\ r = s
    BY <1>2, <1>4, <2>1, <2>2
  <2>3. CASE ~(v = w /\ r = s)
    BY <1>6, <2>1, <2>3
  <2> QED
    BY <2>2, <2>3
<1>8. NobodyWaits
  BY <1>7 DEF NobodyWaits
<1>9. b.num_arrivals = num_arrivals(w)
  BY DEF BarrierCounts
<1>10. ASSUME SameKernel, SameEnded, c.arrivals_count < c.num_arrivals, b.phase <= c.phase
       PROVE  BarrierCounts'
  <2>1. \A u \in Threads : b.next_awaited_phase[u] \in 1 .. (b.phase + 1)
    BY DEF BarrierCounts
  <2>2. b.phase \in Nat /\ c.phase \in Nat
    BY <1>1, <1>2 DEF BarrierStates
  <2>3. \A u \in Threads : c.next_awaited_phase[u] \in 1 .. (c.phase + 1)
    BY <1>2, <1>10, <2>1, <2>2
  <2>4. \A v \in {"in", "consumed"}, r \in Slots : barrier'[v][r] = barrier[v][r] \/
              LET e == barrier[v][r]
                  f == barrier'[v][r] IN
              /\ f.num_arrivals = e.num_arrivals /\ f.ref_count = e.ref_count
              /\ f.arrivals_count < f.num_arrivals \/ f.num_arrivals = 0
              /\ \A u \in Threads : f.next_awaited_phase[u] \in 1 .. (f.phase + 1)
    BY <1>2, <1>4, <1>6, <1>10, <2>3
  <2> QED
    BY <1>10, <2>4, CountsKept
<1> QED
  BY <1>2, <1>4, <1>5, <1>8, <1>9, <1>10 DEF c

LEMMA ComputeThreadsCounted ==
    ASSUME KernelFacts, WarpSpecialized
    PROVE  IsFiniteSet(ComputeThreads) /\ num_arrivals("consumed") = Cardinality(ComputeThreads)
<1>1. kernel.num_compute_wgs \in Nat /\ kernel.num_compute_wgs > 0
  BY DEF KernelFacts, WarpSpecialized
<1>2. ComputeThreads = 0 .. (kernel.num_compute_wgs - 1)
  BY <1>1 DEF ComputeThreads, Threads, memory_thread_idx
<1>3. 0 \in Int /\ kernel.num_compute_wgs - 1 \in Int
  BY <1>1
<1>4. /\ IsFiniteSet(0 .. (kernel.num_compute_wgs - 1))
      /\ Cardinality(0 .. (kernel.num_compute_wgs - 1)) = kernel.num_compute_wgs
  <2> DEFINE top == kernel.num_compute_wgs - 1
  <2>1. top \in Int /\ ~(0 > top) /\ (top - 0) + 1 = kernel.num_compute_wgs
    BY <1>1
  <2> HIDE DEF top
  <2>2. IsFiniteSet(0 .. top) /\ Cardinality(0 .. top) = (top - 0) + 1
    BY <1>3, <2>1, FS_Interval
  <2> QED
    BY <2>1, <2>2 DEF top
<1> QED
  BY <1>2, <1>4 DEF num_arrivals

LEMMA ArriveKeeps ==
    ASSUME GpuInv, NEW t \in Threads, barrier_arrive(t)
    PROVE  GpuInv'
<1>1. ControlInv /\ DataTypes /\ KernelFacts /\ LapFacts /\ BarrierCounts /\ InInv
  BY ControlFacts DEF GpuInv
<1> DEFINE G == Released(t)
           b == barrier["consumed"]
           c == barrier'["consumed"]
           A == [u \in ComputeThreads |-> {g \in Nat : g < Released(u)}]
           A2 == [u \in ComputeThreads |-> {g \in Nat : g < Released(u)'}]
<1>2. /\ ControlInv' /\ SameKernel /\ t \in ComputeThreads /\ WarpSpecialized
      /\ \A u \in ComputeThreads \ {t} : SameCompute(u)
      /\ Released(t)' = G + 1 /\ G \in Nat
      /\ Bodies(t)' = Bodies(t) /\ Merged(t)' = Merged(t) /\ Waited(t)' = Waited(t)
      /\ copies_out_in_loop => Stored(t)' = Stored(t)
      /\ Bodies(t) = G + delay_release + 1 /\ Merged(t) = Bodies(t)
      /\ SameFetched /\ SameMemory
      /\ Slot(iteration[t] - delay_release) = Slot(G)
      /\ line'[t] # "body"
      /\ line'[t] = "deallocate" => ~copies_out_in_loop
  BY <1>1, ArriveEffect
<1>3. ConsumedInv /\ ConsumedClocks
  BY <1>2 DEF GpuInv, ReleaseInv, ReleaseClocks
<1>4. \A u \in ComputeThreads : /\ Waited(u)' = Waited(u)
                                /\ Bodies(u)' = Bodies(u) /\ Merged(u)' = Merged(u)
                                /\ u # t => Released(u)' = Released(u)
                                /\ copies_out_in_loop => Stored(u)' = Stored(u)
  BY <1>2 DEF SameCompute
<1>5. \A u \in ComputeThreads : /\ Released(u) \in Nat /\ Bodies(u) \in Nat
                                /\ \A g \in Nat : g < Released(u) => g + delay_release < Bodies(u)
  BY <1>1, ComputeIsCounted DEF ComputeCounts
<1>6. Passed' = Passed /\ Seen' = Seen /\ Passed \in Nat
  BY <1>1, <1>2, MemoryIsCounted DEF SameMemory, MemoryCounts
<1>7. SameEnded
  <2>1. ThreadStep(t) /\ ~deallocate_barrier(t)
    BY DEF ThreadStep, barrier_arrive, deallocate_barrier
  <2> QED
    BY <1>1, <2>1, OnlyDeallocateEnds
<1>8. /\ in_smem' = in_smem /\ copies' = copies /\ groups' = groups /\ clock' = clock
      /\ Arrive("consumed", Slot(G), clock[t])
  BY <1>2 DEF barrier_arrive
<1>9. \A u \in ComputeThreads, g \in Nat : g \in A[u] <=> g < Released(u)
  OBVIOUS
<1>10. \A u \in ComputeThreads, g \in Nat : g \in A2[u] <=> g \in A[u] \/ (u = t /\ g = G)
  <2> SUFFICES ASSUME NEW u \in ComputeThreads, NEW g \in Nat
               PROVE  g < Released(u)' <=> g < Released(u) \/ (u = t /\ g = G)
    OBVIOUS
  <2>1. CASE u = t
    BY <1>2, <2>1
  <2>2. CASE u # t
    BY <1>4, <2>2
  <2> QED
    BY <2>1, <2>2
<1>11. \A u \in ComputeThreads, g \in Nat : g \in A2[u] <=> g < Released(u)'
  OBVIOUS
<1> HIDE DEF G, A, A2
<1>12. Slot(G) \in Slots /\ Lap(G) \in Nat /\ clock[t] \in SUBSET Accesses
  BY <1>1, <1>2 DEF LapFacts, DataTypes
<1>13. barrier \in BarrierTypes
  BY <1>1 DEF DataTypes, BarrierTypes
<1>14. /\ barrier' \in BarrierTypes /\ c[Slot(G)] = arrive(b[Slot(G)], clock[t])
       /\ \A r \in Slots \ {Slot(G)} : c[r] = b[r]
       /\ \A v \in {"in", "consumed"} \ {"consumed"} : barrier'[v] = barrier[v]
       /\ NobodyWaits
       /\ c[Slot(G)].clock = b[Slot(G)].clock \cup clock[t]
       /\ b[Slot(G)].num_arrivals = num_arrivals("consumed")
       /\ (/\ SameKernel /\ SameEnded
           /\ c[Slot(G)].arrivals_count < c[Slot(G)].num_arrivals
           /\ b[Slot(G)].phase <= c[Slot(G)].phase) => BarrierCounts'
  BY <1>1, <1>8, <1>12, <1>13, ArriveBarriers
<1>15. b \in [Slots -> BarrierStates] /\ c \in [Slots -> BarrierStates]
  BY <1>13, <1>14 DEF BarrierTypes
<1>16. PhaseInv(b, ComputeThreads, A)
  <2>1. \A g \in Nat : {u \in ComputeThreads : g \in A[u]} = {u \in ComputeThreads : g < Released(u)}
    BY <1>9
  <2> QED
    BY <1>3, <1>9, <2>1 DEF ConsumedInv, PhaseInv, Consumed
<1>17. max_concurrent_steps \in Nat \ {0} /\ delay_release \in Nat
  BY <1>1 DEF KernelFacts
<1>18. ASSUME NEW h \in Nat, h + max_concurrent_steps = G
       PROVE  \A u \in ComputeThreads : h \in A[u]
  <2>1. h + max_concurrent_steps < Bodies(t)
    BY <1>2, <1>17, <1>18
  <2>2. h < Passed
    BY <1>1, <1>2, <2>1, ReleaseSeen
  <2> QED
    BY <1>3, <1>9, <2>2 DEF ConsumedInv
<1>19. ASSUME NEW u \in ComputeThreads
       PROVE  (G + max_concurrent_steps) \notin A[u]
  <2> DEFINE h == G + max_concurrent_steps
  <2>1. h \in Nat
    BY <1>2, <1>17
  <2> SUFFICES ASSUME h \in A[u] PROVE FALSE
    OBVIOUS
  <2>2. h < Released(u)
    BY <1>9, <2>1
  <2>3. h + delay_release < Bodies(u) /\ Bodies(u) \in Nat
    BY <1>5, <2>1, <2>2
  <2>4. G + max_concurrent_steps < Bodies(u)
    BY <1>17, <2>1, <2>3
  <2>5. G < Passed
    BY <1>1, <1>2, <2>4, ReleaseSeen
  <2>6. G < Released(t)
    BY <1>2, <1>3, <2>5 DEF ConsumedInv
  <2> QED
    BY <1>2, <2>6 DEF G
<1>20. G \notin A[t]
  BY <1>2, <1>9 DEF G
<1>21. IsFiniteSet(ComputeThreads) /\ b[Slot(G)].num_arrivals = Cardinality(ComputeThreads)
  BY <1>1, <1>2, <1>14, ComputeThreadsCounted
<1> HIDE DEF b, c
<1>22. /\ PhaseInv(c, ComputeThreads, A2)
       /\ c[Slot(G)].arrivals_count < c[Slot(G)].num_arrivals
       /\ b[Slot(G)].phase <= c[Slot(G)].phase
       /\ c[Slot(G)].phase_change_observed \/ c[Slot(G)].phase = Lap(G) + 1
            \/ (~b[Slot(G)].phase_change_observed /\ c[Slot(G)].phase = b[Slot(G)].phase)
  <2>1. MayArrive(b, ComputeThreads, A, t, G)
    BY <1>16, <1>18, <1>19, <1>20, <1>21 DEF MayArrive
  <2>2. Arrives(b, ComputeThreads, A, t, G, clock[t], c, A2)
    BY <1>10, <1>14 DEF Arrives
  <2> QED
    BY <1>1, <1>2, <1>12, <1>15, <2>1, <2>2, ArrivalCounted
<1>23. BarrierCounts'
  BY <1>2, <1>7, <1>14, <1>22
<1>24. \A s : Consumed(s) = b[s] /\ Consumed(s)' = c[s]
  BY DEF Consumed, b, c
<1>25. /\ ComputeThreads' = ComputeThreads /\ Slots' = Slots
       /\ memory_thread_idx' = memory_thread_idx /\ delay_release' = delay_release
       /\ (WarpSpecialized' <=> WarpSpecialized)
       /\ \A g : Slot(g)' = Slot(g) /\ Lap(g)' = Lap(g)
  BY <1>2 DEF SameKernel
<1>26. \A g : Consumed(Slot(g))' = c[Slot(g)]
  BY <1>25 DEF Consumed, c
<1>27. \A s \in Slots : /\ c[s].next_awaited_phase = b[s].next_awaited_phase
                        /\ b[s].clock \subseteq c[s].clock
  BY <1>14 DEF NobodyWaits, b, c
<1>28. ConsumedInv'
  <2>1. (\A g \in Nat : Lap(g) < Consumed(Slot(g)).phase <=> \A u \in ComputeThreads : g < Released(u))'
    BY <1>11, <1>22, <1>25, <1>26 DEF PhaseInv
  <2>2. \A g \in Nat : {u \in ComputeThreads : g < Released(u)}' = {u \in ComputeThreads : g \in A2[u]}
    BY <1>11, <1>25
  <2>3. (\A g \in Nat : Lap(g) = Consumed(Slot(g)).phase =>
            Consumed(Slot(g)).arrivals_count = Cardinality({u \in ComputeThreads : g < Released(u)}))'
    BY <1>22, <1>25, <1>26, <2>2 DEF PhaseInv
  <2>4. (\A u \in ComputeThreads, g \in Nat : g < Passed => g < Released(u))'
    <3> SUFFICES ASSUME NEW u \in ComputeThreads, NEW g \in Nat, g < Passed
                 PROVE  g < Released(u)'
      BY <1>6, <1>25
    <3>1. g < Released(u)
      BY <1>3 DEF ConsumedInv
    <3> QED
      BY <1>9, <1>10, <1>11, <3>1
  <2>5. (\A g \in Nat :
            g < Passed <=> Lap(g) + 1 < Consumed(Slot(g)).next_awaited_phase[memory_thread_idx])'
    <3> SUFFICES ASSUME NEW g \in Nat
                 PROVE  g < Passed <=> Lap(g) + 1 < c[Slot(g)].next_awaited_phase[memory_thread_idx]
      BY <1>6, <1>25, <1>26
    <3>1. g < Passed <=> Lap(g) + 1 < b[Slot(g)].next_awaited_phase[memory_thread_idx]
      BY <1>3, <1>24 DEF ConsumedInv
    <3>2. Slot(g) \in Slots
      BY <1>1 DEF LapFacts
    <3> QED
      BY <1>27, <3>1, <3>2
  <2>6. (\A u \in ComputeThreads, s \in Slots : Consumed(s).next_awaited_phase[u] = 1)'
    BY <1>3, <1>24, <1>25, <1>27 DEF ConsumedInv
  <2>7. ASSUME NEW s \in Slots, ~c[s].phase_change_observed
        PROVE  /\ c[s].phase > 0
               /\ \A g \in Nat : Slot(g) = s /\ Lap(g) + 1 = c[s].phase => Passed <= g
    <3>1. ~b[s].phase_change_observed =>
             /\ b[s].phase > 0
             /\ \A g \in Nat : Slot(g) = s /\ Lap(g) + 1 = b[s].phase => Passed <= g
      BY <1>3, <1>24 DEF ConsumedInv
    <3>2. CASE s # Slot(G)
      BY <1>14, <2>7, <3>1, <3>2 DEF b, c
    <3>3. CASE s = Slot(G) /\ ~b[s].phase_change_observed /\ c[s].phase = b[s].phase
      BY <3>1, <3>3
    <3>4. CASE s = Slot(G) /\ c[s].phase = Lap(G) + 1
      <4>1. c[s].phase > 0
        BY <1>12, <3>4
      <4>2. ASSUME NEW g \in Nat, Slot(g) = s, Lap(g) + 1 = c[s].phase
            PROVE  Passed <= g
        <5>1. Lap(g) \in Nat
          BY <1>1 DEF LapFacts
        <5>2. Lap(g) = Lap(G)
          BY <1>12, <3>4, <4>2, <5>1
        <5>3. g = G
          BY <1>1, <1>2, <3>4, <4>2, <5>2, SameStep
        <5>4. ~(G < Passed)
          BY <1>2, <1>3 DEF ConsumedInv, G
        <5> QED
          BY <1>2, <1>6, <5>3, <5>4
      <4> QED
        BY <4>1, <4>2
    <3> QED
      BY <1>22, <2>7, <3>2, <3>3, <3>4
  <2>8. (\A s \in Slots : Consumed(s).phase_change_observed \/
            /\ Consumed(s).phase > 0
            /\ \A g \in Nat : Slot(g) = s /\ Lap(g) + 1 = Consumed(s).phase => Passed <= g)'
    BY <1>6, <1>24, <1>25, <2>7
  <2> QED
    BY <2>1, <2>3, <2>4, <2>5, <2>6, <2>8 DEF ConsumedInv
<1>29. ConsumedClocks'
  <2>1. (\A u \in ComputeThreads, i \in Inputs, g \in Nat :
            g < Seen => CountsStep(clock[memory_thread_idx], i, u, g, delay_release))'
    BY <1>3, <1>6, <1>8, <1>25 DEF ConsumedClocks, CountsStep
  <2>2. ASSUME NEW u \in ComputeThreads, NEW i \in Inputs, NEW g \in Nat, g < Released(u)'
        PROVE  CountsStep(c[Slot(g)].clock, i, u, g, delay_release)
    <3>1. CASE g < Released(u)
      <4>1. CountsStep(b[Slot(g)].clock, i, u, g, delay_release)
        BY <1>3, <1>24, <3>1 DEF ConsumedClocks
      <4>2. b[Slot(g)].clock \subseteq c[Slot(g)].clock
        BY <1>1, <1>27 DEF LapFacts
      <4> QED
        BY <4>1, <4>2, CountsMore
    <3>2. CASE u = t /\ g = G
      <4>1. ComputeClocks
        BY DEF GpuInv
      <4>2. <<"copy", i, g>> \in clock[t]
        <5>1. g < Merged(t)
          BY <1>2, <1>17, <3>2
        <5> QED
          BY <1>2, <4>1, <5>1 DEF ComputeClocks
      <4>3. ASSUME NEW s \in Nat, s <= g + delay_release
            PROVE  <<"body", t, s>> \in clock[t]
        <5>1. s < Bodies(t)
          BY <1>2, <1>17, <3>2, <4>3
        <5> QED
          BY <1>2, <4>1, <5>1 DEF ComputeClocks
      <4>4. CountsStep(clock[t], i, u, g, delay_release)
        BY <3>2, <4>2, <4>3 DEF CountsStep
      <4>5. clock[t] \subseteq c[Slot(g)].clock
        BY <1>14, <3>2 DEF b, c
      <4> QED
        BY <4>4, <4>5, CountsMore
    <3> QED
      BY <1>9, <1>10, <1>11, <2>2, <3>1, <3>2
  <2>3. (\A u \in ComputeThreads, i \in Inputs, g \in Nat :
          g < Released(u) => CountsStep(Consumed(Slot(g)).clock, i, u, g, delay_release))'
    BY <1>25, <1>26, <2>2 DEF CountsStep
  <2> QED
    BY <2>1, <2>3 DEF ConsumedClocks
<1>30. ReleaseInv' /\ ReleaseClocks'
  BY <1>2, <1>25, <1>28, <1>29 DEF ReleaseInv, ReleaseClocks
<1>31. SameArrived
  BY <1>2, <1>8, ArrivedKept
<1>32. CopiesInv' /\ CopyClocks' /\ SmemInv'
  BY <1>1, <1>2, <1>8, <1>31, CopiesKept, CopyClocksKept, SmemKept DEF GpuInv
<1>33. barrier'["in"] = barrier["in"]
  BY <1>14
<1>34. InClocks' /\ InInv'
  <2>1. SameRounds("in")
    BY <1>33 DEF SameRounds
  <2> QED
    BY <1>1, <1>2, <1>4, <1>31, <1>33, <2>1, InKept, InClocksKept DEF GpuInv
<1>35. ComputeClocks'
  BY <1>2, <1>4, <1>8, ComputeClocksKept DEF GpuInv
<1>36. DataTypes'
  BY <1>1, <1>2, <1>8, <1>14, TypesStay DEF DataTypes, CopyTypes
<1>37. GroupsInv'
  <2>1. copies_out_in_loop => Stored(0)' = Stored(0) /\ t = 0
    BY <1>1, <1>2, <1>4, ThreadFacts
  <2>2. line'[0] = "ended" => line[0] = "ended"
    BY <1>1, <1>7, ThreadFacts DEF SameEnded, Ended
  <2> QED
    BY <1>1, <1>2, <1>8, <2>1, <2>2, GroupsKept DEF GpuInv
<1> QED
  BY <1>2, <1>23, <1>30, <1>32, <1>34, <1>35, <1>36, <1>37 DEF GpuInv

LEMMA CopyDoneKeeps ==
    ASSUME GpuInv, NEW e \in copies, CopyDone(e)
    PROVE  GpuInv'
<1>1. /\ ControlInv /\ DataTypes /\ KernelFacts /\ LapFacts /\ BarrierCounts /\ InInv
      /\ ReleaseInv /\ CopiesInv
  BY ControlFacts DEF GpuInv
<1> DEFINE G == e.step
           x == e.input
           M == max_concurrent_steps
           events == e.clock \cup {<<"copy", e.input, e.step>>}
           b == barrier["in"]
           c == barrier'["in"]
           A == [i \in Inputs |-> {g \in Nat : Arrived(i, g)}]
           A2 == [i \in Inputs |-> {g \in Nat : Arrived(i, g)'}]
<1>2. /\ ControlInv' /\ SameKernel /\ SameFetched /\ SameMemory
      /\ \A u \in ComputeThreads : SameCompute(u)
      /\ line' = line
  BY <1>1, StayEffect DEF CopyDone
<1>3. /\ x \in Inputs /\ G \in Nat /\ e.clock \in SUBSET Accesses
      /\ e.slot = Slot(G) /\ G < FetchedBy(x)
  BY <1>1 DEF DataTypes, CopiesInv
<1>4. \A u \in ComputeThreads : /\ Waited(u)' = Waited(u)
                                /\ Bodies(u)' = Bodies(u) /\ Merged(u)' = Merged(u)
                                /\ WarpSpecialized => Released(u)' = Released(u)
                                /\ copies_out_in_loop => Stored(u)' = Stored(u)
  BY <1>2 DEF SameCompute
<1>5. WarpSpecialized => Passed' = Passed /\ Seen' = Seen
  BY <1>2 DEF SameMemory
<1>6. SameEnded
  BY <1>2 DEF SameEnded, Ended
<1>7. /\ copies' = copies \ {e} /\ groups' = groups /\ clock' = clock
      /\ in_smem' = [in_smem EXCEPT ![x][Slot(G)] = G]
      /\ Arrive("in", Slot(G), events)
  BY <1>3 DEF CopyDone
<1>8. events \in SUBSET Accesses
  <2>1. <<"copy", x, G>> \in {"copy"} \X Inputs \X Nat
    BY <1>3
  <2>2. <<"copy", x, G>> \in Accesses
    BY <2>1 DEF Accesses
  <2> QED
    BY <1>3, <2>2
<1>9. \A i \in Inputs, g \in Nat : Arrived(i, g)' <=> Arrived(i, g) \/ (i = x /\ g = G)
  <2> SUFFICES ASSUME NEW i \in Inputs, NEW g \in Nat
               PROVE  Arrived(i, g)' <=> Arrived(i, g) \/ (i = x /\ g = G)
    OBVIOUS
  <2>1. FetchedBy(i)' = FetchedBy(i)
    BY <1>2 DEF SameFetched
  <2>2. InFlight(i, g)' <=> InFlight(i, g) /\ ~(i = x /\ g = G)
    <3>1. \A f \in copies : f.input = x /\ f.step = G => f = e
      BY <1>1 DEF CopiesInv
    <3> QED
      BY <1>7, <3>1 DEF InFlight
  <2> QED
    BY <1>3, <2>1, <2>2 DEF Arrived
<1>10. ~Arrived(x, G)
  BY DEF Arrived, InFlight
<1>11. \A i \in Inputs, g \in Nat : g \in A[i] <=> Arrived(i, g)
  OBVIOUS
<1>12. \A i \in Inputs, g \in Nat : g \in A2[i] <=> g \in A[i] \/ (i = x /\ g = G)
  BY <1>9
<1>13. \A i \in Inputs, g \in Nat : g \in A2[i] <=> Arrived(i, g)'
  OBVIOUS
<1>14. M \in Nat \ {0} /\ \A g \in Nat : g + M \in Nat
  BY <1>1 DEF KernelFacts
<1>15. <<"copy", x, G>> \in events
  OBVIOUS
<1> HIDE DEF G, x, A, A2, events
<1>16. \A i \in Inputs, g \in Nat : g + M < FetchedBy(i) => \A j \in Inputs : Arrived(j, g)
  BY <1>1, OneLapAhead
<1>17. \A i \in Inputs : FetchedBy(i) \in Nat
  BY <1>1, FetchedIsCounted DEF FetchedCounts
<1>18. Slot(G) \in Slots /\ Lap(G) \in Nat
  BY <1>1, <1>3 DEF LapFacts
<1>19. barrier \in BarrierTypes
  BY <1>1 DEF DataTypes, BarrierTypes
<1>20. /\ barrier' \in BarrierTypes /\ c[Slot(G)] = arrive(b[Slot(G)], events)
       /\ \A r \in Slots \ {Slot(G)} : c[r] = b[r]
       /\ \A v \in {"in", "consumed"} \ {"in"} : barrier'[v] = barrier[v]
       /\ NobodyWaits
       /\ c[Slot(G)].clock = b[Slot(G)].clock \cup events
       /\ b[Slot(G)].num_arrivals = num_arrivals("in")
       /\ (/\ SameKernel /\ SameEnded
           /\ c[Slot(G)].arrivals_count < c[Slot(G)].num_arrivals
           /\ b[Slot(G)].phase <= c[Slot(G)].phase) => BarrierCounts'
  BY <1>1, <1>7, <1>8, <1>18, <1>19, ArriveBarriers
<1>21. b \in [Slots -> BarrierStates] /\ c \in [Slots -> BarrierStates]
  BY <1>19, <1>20 DEF BarrierTypes
<1>22. PhaseInv(b, Inputs, A)
  <2>1. \A g \in Nat : {i \in Inputs : g \in A[i]} = {i \in Inputs : Arrived(i, g)}
    BY <1>11
  <2> QED
    BY <1>1, <1>11, <2>1 DEF InInv, PhaseInv, In
<1>23. ASSUME NEW h \in Nat, h + M = G
       PROVE  \A j \in Inputs : h \in A[j]
  BY <1>3, <1>11, <1>16, <1>23
<1>24. ASSUME NEW j \in Inputs
       PROVE  (G + M) \notin A[j]
  <2> SUFFICES ASSUME (G + M) \in A[j] PROVE FALSE
    OBVIOUS
  <2>1. Arrived(j, G + M)
    BY <1>3, <1>11, <1>14
  <2>2. G + M < FetchedBy(j)
    BY <2>1 DEF Arrived
  <2> QED
    BY <1>3, <1>10, <1>16, <2>2
<1>25. IsFiniteSet(Inputs) /\ b[Slot(G)].num_arrivals = Cardinality(Inputs)
  BY <1>20, GpuPipelineAssumption DEF num_arrivals
<1> HIDE DEF b, c
<1>26. /\ PhaseInv(c, Inputs, A2)
       /\ c[Slot(G)].arrivals_count < c[Slot(G)].num_arrivals
       /\ b[Slot(G)].phase <= c[Slot(G)].phase
       /\ c[Slot(G)].phase_change_observed \/ c[Slot(G)].phase = Lap(G) + 1
            \/ (~b[Slot(G)].phase_change_observed /\ c[Slot(G)].phase = b[Slot(G)].phase)
  <2>1. MayArrive(b, Inputs, A, x, G)
    BY <1>3, <1>10, <1>11, <1>22, <1>23, <1>24, <1>25 DEF MayArrive
  <2>2. Arrives(b, Inputs, A, x, G, events, c, A2)
    BY <1>12, <1>20 DEF Arrives
  <2> QED
    BY <1>1, <1>3, <1>8, <1>21, <2>1, <2>2, ArrivalCounted
<1>27. BarrierCounts'
  BY <1>2, <1>6, <1>20, <1>26
<1>28. \A s : In(s) = b[s] /\ In(s)' = c[s]
  BY DEF In, b, c
<1>29. /\ ComputeThreads' = ComputeThreads /\ Slots' = Slots
       /\ memory_thread_idx' = memory_thread_idx
       /\ (WarpSpecialized' <=> WarpSpecialized) /\ max_concurrent_steps' = M
       /\ \A g : Slot(g)' = Slot(g) /\ Lap(g)' = Lap(g)
  BY <1>2 DEF SameKernel
<1>30. \A g : In(Slot(g))' = c[Slot(g)]
  BY <1>29 DEF In, c
<1>31. \A s \in Slots : /\ c[s].next_awaited_phase = b[s].next_awaited_phase
                        /\ b[s].clock \subseteq c[s].clock
  BY <1>20 DEF NobodyWaits, b, c
<1>32. InInv'
  <2>1. (\A g \in Nat : Lap(g) < In(Slot(g)).phase <=> \A i \in Inputs : Arrived(i, g))'
    BY <1>13, <1>26, <1>29, <1>30 DEF PhaseInv
  <2>2. \A g \in Nat : {i \in Inputs : Arrived(i, g)}' = {i \in Inputs : g \in A2[i]}
    BY <1>13
  <2>3. (\A g \in Nat : Lap(g) = In(Slot(g)).phase =>
            In(Slot(g)).arrivals_count = Cardinality({i \in Inputs : Arrived(i, g)}))'
    BY <1>26, <1>29, <1>30, <2>2 DEF PhaseInv
  <2>4. (\A u \in ComputeThreads, g \in Nat : g < Waited(u) => \A i \in Inputs : Arrived(i, g))'
    <3> SUFFICES ASSUME NEW u \in ComputeThreads, NEW g \in Nat, g < Waited(u), NEW i \in Inputs
                 PROVE  Arrived(i, g)'
      BY <1>4, <1>29
    <3>1. Arrived(i, g)
      BY <1>1 DEF InInv
    <3> QED
      BY <1>9, <3>1
  <2>5. (\A u \in ComputeThreads, g \in Nat :
            g < Waited(u) <=> Lap(g) + 1 < In(Slot(g)).next_awaited_phase[u])'
    <3> SUFFICES ASSUME NEW u \in ComputeThreads, NEW g \in Nat
                 PROVE  g < Waited(u) <=> Lap(g) + 1 < c[Slot(g)].next_awaited_phase[u]
      BY <1>4, <1>29, <1>30
    <3>1. g < Waited(u) <=> Lap(g) + 1 < b[Slot(g)].next_awaited_phase[u]
      BY <1>1, <1>28 DEF InInv
    <3>2. Slot(g) \in Slots
      BY <1>1 DEF LapFacts
    <3> QED
      BY <1>31, <3>1, <3>2
  <2>6. (WarpSpecialized => \A s \in Slots : In(s).next_awaited_phase[memory_thread_idx] = 1)'
    BY <1>1, <1>28, <1>29, <1>31 DEF InInv
  <2>7. ASSUME NEW s \in Slots, ~c[s].phase_change_observed
        PROVE  /\ c[s].phase > 0
               /\ \A u \in ComputeThreads, g \in Nat :
                     Slot(g) = s /\ Lap(g) + 1 = c[s].phase => Waited(u) <= g
    <3>1. ~b[s].phase_change_observed =>
             /\ b[s].phase > 0
             /\ \A u \in ComputeThreads, g \in Nat :
                   Slot(g) = s /\ Lap(g) + 1 = b[s].phase => Waited(u) <= g
      BY <1>1, <1>28 DEF InInv
    <3>2. CASE s # Slot(G)
      BY <1>20, <2>7, <3>1, <3>2 DEF b, c
    <3>3. CASE s = Slot(G) /\ ~b[s].phase_change_observed /\ c[s].phase = b[s].phase
      BY <3>1, <3>3
    <3>4. CASE s = Slot(G) /\ c[s].phase = Lap(G) + 1
      <4>1. c[s].phase > 0
        BY <1>18, <3>4
      <4>2. ASSUME NEW u \in ComputeThreads, NEW g \in Nat, Slot(g) = s, Lap(g) + 1 = c[s].phase
            PROVE  Waited(u) <= g
        <5>1. Lap(g) \in Nat
          BY <1>1 DEF LapFacts
        <5>2. Lap(g) = Lap(G)
          BY <1>18, <3>4, <4>2, <5>1
        <5>3. g = G
          BY <1>1, <1>3, <3>4, <4>2, <5>2, SameStep
        <5>4. ~(G < Waited(u))
          BY <1>1, <1>3, <1>10 DEF InInv
        <5>5. Waited(u) \in Nat
          BY <1>1, ComputeIsCounted DEF ComputeCounts
        <5> QED
          BY <1>3, <5>3, <5>4, <5>5
      <4> QED
        BY <4>1, <4>2
    <3> QED
      BY <1>26, <2>7, <3>2, <3>3, <3>4
  <2>8. (\A s \in Slots : In(s).phase_change_observed \/
            /\ In(s).phase > 0
            /\ \A u \in ComputeThreads, g \in Nat :
                  Slot(g) = s /\ Lap(g) + 1 = In(s).phase => Waited(u) <= g)'
    BY <1>4, <1>28, <1>29, <2>7
  <2> QED
    BY <2>1, <2>3, <2>4, <2>5, <2>6, <2>8 DEF InInv
<1>33. InClocks'
  <2> SUFFICES ASSUME NEW i \in Inputs, NEW g \in Nat, Arrived(i, g)'
               PROVE  <<"copy", i, g>> \in c[Slot(g)].clock
    BY <1>30 DEF InClocks
  <2>1. CASE Arrived(i, g)
    <3>1. <<"copy", i, g>> \in b[Slot(g)].clock
      BY <1>28, <2>1 DEF GpuInv, InClocks
    <3> QED
      BY <1>1, <1>31, <3>1 DEF LapFacts
  <2>2. CASE i = x /\ g = G
    BY <1>15, <1>20, <2>2 DEF b, c
  <2> QED
    BY <1>9, <2>1, <2>2
<1>34. /\ in_smem' \in [Inputs -> [Slots -> Nat \cup {NoStep}]]
       /\ in_smem'[x][Slot(G)] = G
       /\ \A i \in Inputs, s \in Slots : ~(i = x /\ s = Slot(G)) => in_smem'[i][s] = in_smem[i][s]
  <2>1. in_smem \in [Inputs -> [Slots -> Nat \cup {NoStep}]]
    BY <1>1 DEF DataTypes
  <2>2. in_smem' = [in_smem EXCEPT ![x] = [in_smem[x] EXCEPT ![Slot(G)] = G]]
    BY <1>7
  <2> QED
    BY <1>3, <1>18, <2>1, <2>2
<1>35. SmemInv'
  <2> SUFFICES ASSUME NEW i \in Inputs, NEW g \in Nat, Arrived(i, g)', ~Arrived(i, g + M)'
               PROVE  in_smem'[i][Slot(g)] = g
    <3>1. \A i \in Inputs, g \in Nat : Arrived(i, g + max_concurrent_steps)' <=> Arrived(i, g + M)'
      BY <1>29 DEF Arrived, InFlight
    <3> QED
      BY <1>29, <3>1 DEF SmemInv
  <2>0. PICK h \in Nat : h = g + M
    BY <1>14
  <2>1. h \in Nat /\ g < h
    BY <1>14, <2>0
  <2>2. ~Arrived(i, h) /\ ~(i = x /\ h = G)
    <3>1. ~Arrived(i, h)'
      BY <1>29, <2>0 DEF Arrived, InFlight
    <3> QED
      BY <1>9, <2>1, <3>1
  <2>3. CASE i = x /\ g = G
    BY <1>34, <2>3
  <2>4. CASE ~(i = x /\ g = G)
    <3>1. Arrived(i, g)
      BY <1>9, <2>4
    <3>2. in_smem[i][Slot(g)] = g
      BY <2>0, <2>2, <3>1 DEF GpuInv, SmemInv
    <3>3. ~(i = x /\ Slot(g) = Slot(G))
      <4> SUFFICES ASSUME i = x, Slot(g) = Slot(G) PROVE FALSE
        OBVIOUS
      <4>1. CASE G < g
        <5>1. G + M <= g
          BY <1>1, <1>3, <4>1 DEF LapFacts
        <5>2. g < FetchedBy(x)
          BY <3>1 DEF Arrived
        <5>3. G + M < FetchedBy(x)
          BY <1>3, <1>14, <1>17, <5>1, <5>2
        <5> QED
          BY <1>3, <1>10, <1>16, <5>3
      <4>2. CASE g < G
        <5>1. g + M <= G /\ Slot(g + M) = Slot(g)
          BY <1>1, <1>3, <4>2 DEF LapFacts
        <5>2. h < G /\ Slot(h) = Slot(G)
          BY <1>3, <2>0, <2>1, <2>2, <5>1
        <5>3. h + M <= G
          BY <1>1, <1>3, <2>1, <5>2 DEF LapFacts
        <5>4. h + M < FetchedBy(x)
          BY <1>3, <1>14, <1>17, <2>1, <5>3
        <5> QED
          BY <1>3, <1>16, <2>1, <2>2, <5>4
      <4> QED
        BY <1>3, <2>4, <4>1, <4>2
    <3>4. Slot(g) \in Slots
      BY <1>1 DEF LapFacts
    <3> QED
      BY <1>34, <3>2, <3>3, <3>4
  <2> QED
    BY <2>3, <2>4
<1>36. copies' \subseteq copies
  BY <1>7
<1>37. CopiesInv' /\ CopyClocks'
  BY <1>1, <1>2, <1>36, CopiesKept, CopyClocksKept DEF GpuInv
<1>38. barrier'["consumed"] = barrier["consumed"]
  BY <1>20
<1>39. ReleaseInv' /\ ReleaseClocks'
  <2>1. SameRounds("consumed")
    BY <1>38 DEF SameRounds
  <2> QED
    BY <1>1, <1>2, <1>4, <1>5, <1>7, <1>38, <2>1, ReleaseKept, ReleaseClocksKept DEF GpuInv
<1>40. ComputeClocks'
  BY <1>2, <1>4, <1>7, ComputeClocksKept DEF GpuInv
<1>41. DataTypes'
  <2>1. copies' \in SUBSET CopyTypes
    BY <1>1, <1>36 DEF DataTypes, CopyTypes
  <2> QED
    BY <1>1, <1>2, <1>7, <1>20, <1>34, <2>1, TypesStay DEF DataTypes
<1>42. GroupsInv'
  <2>1. copies_out_in_loop => Stored(0)' = Stored(0)
    BY <1>1, <1>4, ThreadFacts
  <2> QED
    BY <1>1, <1>2, <1>7, <2>1, GroupsKept DEF GpuInv
<1> QED
  BY <1>2, <1>27, <1>32, <1>33, <1>35, <1>37, <1>39, <1>40, <1>41, <1>42 DEF GpuInv

-----------------------------------------------------------------------------
(* The invariant holds at the start, and so always.                        *)

LEMMA GpuStart ==
    ASSUME GpuInit
    PROVE  GpuInv
<1>1. kernel \in Kernels /\ max_concurrent_steps = Shrunk(kernel) /\ KernelFacts /\ LapFacts
  BY KernelIsGood, LapsAreGood DEF GpuInit
<1>2. /\ 0 \in Threads /\ memory_thread_idx \in Threads /\ Threads \subseteq Nat
      /\ ComputeThreads \subseteq Threads /\ 0 \in ComputeThreads
      /\ WarpSpecialized => memory_thread_idx \notin ComputeThreads
      /\ ~WarpSpecialized => Threads = {0} /\ ComputeThreads = {0} /\ memory_thread_idx = 0
  BY <1>1, ThreadFacts
<1>3. /\ kernel.num_steps \in Nat \ {0} /\ kernel.num_pipelines \in Nat \ {0}
      /\ kernel.max_steps \in Nat \ {0} /\ init_prologue_steps \in Nat \ {0}
      /\ delay_release \in Nat /\ kernel.num_compute_wgs \in Nat
  BY <1>1 DEF KernelFacts
<1>4. \A t \in Threads :
        /\ line[t] = (IF WarpSpecialized /\ t # memory_thread_idx THEN "wait_in" ELSE "prologue")
        /\ pipeline[t] = 0 /\ iteration[t] = 0 /\ merging[t] = FALSE
        /\ clock[t] = {}
  BY DEF GpuInit
<1>5. /\ line \in [Threads -> Lines] /\ pipeline \in [Threads -> Nat]
      /\ iteration \in [Threads -> Nat] /\ merging \in [Threads -> BOOLEAN] /\ level = 0
  BY LineNames DEF GpuInit
<1>6. \A t \in ComputeThreads : ComputeAt(t)
  BY <1>2, <1>3, <1>4 DEF ComputeAt, AfterWait, AfterBody, AfterRelease, AfterStore
<1>7. WarpSpecialized => MemoryAt(memory_thread_idx)
  BY <1>2, <1>3, <1>4 DEF MemoryAt
<1>8. ControlInv
  BY <1>1, <1>3, <1>5, <1>6, <1>7 DEF ControlInv
<1>9. Product(0, kernel.num_steps) = 0
  BY <1>3, ProductFacts
<1>10. ASSUME NEW t \in ComputeThreads
       PROVE  /\ Merged(t) = 0 /\ Waited(t) = 0 /\ Bodies(t) = 0 /\ Stored(t) = 0 /\ Released(t) = 0
  <2>1. t \in Threads /\ line[t] \in {"wait_in", "prologue"} /\ merging[t] = FALSE
    BY <1>2, <1>4
  <2>2. Done(t) = 0
    BY <1>4, <1>9, <2>1 DEF Done
  <2> QED
    BY <1>3, <2>1, <2>2 DEF Merged, Waited, Bodies, Stored, Released, Monus, One,
          AfterWait, AfterBody, AfterRelease, AfterStore
<1>11. line[memory_thread_idx] = "prologue" /\ iteration[memory_thread_idx] = 0
       /\ merging[memory_thread_idx] = FALSE
  BY <1>2, <1>4
<1>12. Seen = 0 /\ Passed = 0
  BY <1>11 DEF Seen, Passed, MemoryDone, One
<1>13. \A i \in Inputs : FetchedBy(i) = 0
  BY <1>11 DEF FetchedBy
<1>14. \A i \in Inputs, g \in Nat : ~Arrived(i, g)
  BY <1>13 DEF Arrived
<1>15. IsFiniteSet(Inputs) /\ Inputs # {} /\ Cardinality(Inputs) \in Nat /\ Cardinality(Inputs) # 0
  BY GpuPipelineAssumption, FS_CardinalityType, FS_EmptySet
<1>16. IsFiniteSet(Threads) /\ Cardinality(Threads) \in Nat
  <2>1. 0 \in Int /\ kernel.num_compute_wgs \in Int
    BY <1>3
  <2> QED
    BY <2>1, FS_Interval, FS_CardinalityType DEF Threads
<1>17. num_arrivals("in") = Cardinality(Inputs) /\ num_arrivals("consumed") = kernel.num_compute_wgs
  BY DEF num_arrivals
<1>18. \A w \in {"in", "consumed"}, s \in Slots :
         LET b == barrier[w][s] IN
         /\ b \in BarrierStates /\ b.ref_count = Cardinality(Threads) /\ b.num_arrivals = num_arrivals(w)
         /\ b.arrivals_count = 0 /\ b.phase = 0 /\ b.phase_change_observed /\ b.clock = {}
         /\ \A t \in Threads : b.next_awaited_phase[t] = 1
  <2> SUFFICES ASSUME NEW w \in {"in", "consumed"}, NEW s \in Slots
               PROVE  LET b == barrier[w][s] IN
                      /\ b \in BarrierStates /\ b.ref_count = Cardinality(Threads)
                      /\ b.num_arrivals = num_arrivals(w)
                      /\ b.arrivals_count = 0 /\ b.phase = 0 /\ b.phase_change_observed /\ b.clock = {}
                      /\ \A t \in Threads : b.next_awaited_phase[t] = 1
    OBVIOUS
  <2>1. barrier[w][s] = NewBarrier(Threads, Cardinality(Threads), num_arrivals(w))
    BY DEF GpuInit
  <2>2. num_arrivals(w) \in Nat
    BY <1>3, <1>15, <1>17
  <2>3. {} \in SUBSET Accesses /\ Cardinality(Threads) \in Int
    BY <1>16
  <2> QED
    BY <2>1, <2>2, <2>3 DEF NewBarrier, BarrierStates
<1>19. DataTypes
  <2>1. barrier \in [{"in", "consumed"} -> [Slots -> BarrierStates]]
    BY <1>18 DEF GpuInit
  <2>2. groups \in Seq(Int) /\ copies = {}
    BY DEF GpuInit
  <2>3. in_smem \in [Inputs -> [Slots -> Nat \cup {NoStep}]]
    BY DEF GpuInit
  <2>4. clock \in [Threads -> SUBSET Accesses]
    BY DEF GpuInit
  <2> QED
    BY <2>1, <2>2, <2>3, <2>4 DEF DataTypes
<1>20. BarrierCounts
  <2>1. Running = Threads
    BY <1>4 DEF Running, Ended
  <2>2. num_arrivals("in") > 0 /\ (num_arrivals("consumed") > 0 \/ num_arrivals("consumed") = 0)
    BY <1>3, <1>15, <1>17
  <2> QED
    BY <1>18, <2>1, <2>2 DEF BarrierCounts
<1>21. copies = {} /\ groups = << >> /\ Len(groups) = 0
  BY DEF GpuInit
<1>22. CopiesInv /\ CopyClocks
  BY <1>21 DEF CopiesInv, CopyClocks
<1>23. \A g \in Nat : Slot(g) \in Slots /\ Lap(g) \in Nat /\ {i \in Inputs : Arrived(i, g)} = {}
  BY <1>1, <1>14 DEF LapFacts
<1>24. \A s \in Slots : /\ In(s).phase = 0 /\ In(s).arrivals_count = 0 /\ In(s).phase_change_observed
                        /\ \A t \in Threads : In(s).next_awaited_phase[t] = 1
  BY <1>18 DEF In
<1>25. InInv
  <2>1. \A g \in Nat : ~\A i \in Inputs : Arrived(i, g)
    BY <1>14, <1>15
  <2>2. \A g \in Nat : Lap(g) < In(Slot(g)).phase <=> \A i \in Inputs : Arrived(i, g)
    BY <1>23, <1>24, <2>1
  <2>3. \A g \in Nat : Lap(g) = In(Slot(g)).phase =>
          In(Slot(g)).arrivals_count = Cardinality({i \in Inputs : Arrived(i, g)})
    BY <1>23, <1>24, FS_EmptySet
  <2>4. \A t \in ComputeThreads, g \in Nat :
          ~(g < Waited(t)) /\ ~(Lap(g) + 1 < In(Slot(g)).next_awaited_phase[t])
    BY <1>2, <1>10, <1>23, <1>24
  <2> QED
    BY <1>2, <1>24, <2>2, <2>3, <2>4 DEF InInv
<1>26. \A s \in Slots :
         /\ Consumed(s).phase = 0 /\ Consumed(s).arrivals_count = 0 /\ Consumed(s).phase_change_observed
         /\ \A t \in Threads : Consumed(s).next_awaited_phase[t] = 1
  BY <1>18 DEF Consumed
<1>27. ReleaseInv
  <2>1. UnusedInv
    BY <1>26 DEF UnusedInv
  <2>2. \A g \in Nat, t \in ComputeThreads : ~(g < Released(t)) /\ ~(g < Passed)
    BY <1>10, <1>12
  <2>3. \A g \in Nat : {t \in ComputeThreads : g < Released(t)} = {}
    BY <2>2
  <2>4. \A g \in Nat : Lap(g) < Consumed(Slot(g)).phase <=> \A t \in ComputeThreads : g < Released(t)
    BY <1>2, <1>23, <1>26, <2>2
  <2>5. \A g \in Nat : Lap(g) = Consumed(Slot(g)).phase =>
          Consumed(Slot(g)).arrivals_count = Cardinality({t \in ComputeThreads : g < Released(t)})
    BY <1>23, <1>26, <2>3, FS_EmptySet
  <2>6. \A g \in Nat :
          g < Passed <=> Lap(g) + 1 < Consumed(Slot(g)).next_awaited_phase[memory_thread_idx]
    BY <1>2, <1>12, <1>23, <1>26
  <2>7. ConsumedInv
    BY <1>2, <1>26, <2>2, <2>4, <2>5, <2>6 DEF ConsumedInv
  <2> QED
    BY <2>1, <2>7 DEF ReleaseInv
<1>28. SmemInv /\ InClocks
  BY <1>14 DEF SmemInv, InClocks
<1>29. GroupsInv
  <2>1. Stored(0) = 0 /\ line[0] \in {"wait_in", "prologue"}
    BY <1>2, <1>4, <1>10
  <2> QED
    BY <1>21, <2>1 DEF GroupsInv
<1>30. ComputeClocks
  BY <1>10 DEF ComputeClocks
<1>31. ReleaseClocks
  BY <1>10, <1>12 DEF ReleaseClocks, ConsumedClocks
<1> QED
  BY <1>8, <1>19, <1>20, <1>22, <1>25, <1>27, <1>28, <1>29, <1>30, <1>31 DEF GpuInv

LEMMA GpuStep ==
    ASSUME GpuInv, [GpuNext]_gpuVars
    PROVE  GpuInv'
<1>1. ControlInv
  BY DEF GpuInv
<1>2. ASSUME NEW t \in Threads, ThreadStep(t)
      PROVE  GpuInv'
  <2>1. CASE prologue(t)
    <3>1. SameEnded
      BY <1>1, <1>2, <2>1, OnlyDeallocateEnds DEF prologue, deallocate_barrier
    <3>2. UNCHANGED <<barrier, clock, in_smem, groups>>
      BY <2>1 DEF prologue
    <3>3. PICK g \in Nat : Fetches(t, Inputs, g)
      BY <1>1, <2>1, PrologueEffect
    <3> QED
      BY <3>1, <3>2, <3>3, FetchKeeps
  <2>2. CASE FetchNext(t)
    <3>1. SameEnded
      BY <1>1, <1>2, <2>2, OnlyDeallocateEnds DEF FetchNext, deallocate_barrier
    <3>2. UNCHANGED <<barrier, clock, in_smem, groups>>
      BY <2>2 DEF FetchNext
    <3>3. PICK g \in Nat : Fetches(t, Inputs, g)
      BY <1>1, <2>2, FetchNextEffect
    <3> QED
      BY <3>1, <3>2, <3>3, FetchKeeps
  <2>3. CASE do_fetch(t)
    <3>1. SameEnded
      BY <1>1, <1>2, <2>3, OnlyDeallocateEnds DEF do_fetch, deallocate_barrier
    <3>2. UNCHANGED <<barrier, clock, in_smem, groups>>
      BY <2>3 DEF do_fetch
    <3>3. PICK due, g : Fetches(t, due, g)
      BY <1>1, <2>3, DoFetchEffect
    <3> QED
      BY <3>1, <3>2, <3>3, FetchKeeps
  <2>4. CASE barrier_wait(t)
    BY <2>4, WaitInKeeps, WaitConsumedKeeps
  <2>5. CASE MergeClock(t)
    BY <2>5, MergeInKeeps, MergeConsumedKeeps
  <2>6. CASE wait_smem_to_gmem(t)
    BY <2>6, WaitOutKeeps
  <2>7. CASE EndBody(t)
    BY <2>7, EndBodyKeeps
  <2>8. CASE barrier_arrive(t)
    BY <2>8, ArriveKeeps
  <2>9. CASE copy_smem_to_gmem(t)
    BY <2>9, StoreKeeps
  <2>10. CASE deallocate_barrier(t)
    BY <2>10, DeallocateKeeps
  <2> QED
    BY <1>2, <2>1, <2>2, <2>3, <2>4, <2>5, <2>6, <2>7, <2>8, <2>9, <2>10 DEF ThreadStep
<1>3. ASSUME NEW e \in copies, CopyDone(e)
      PROVE  GpuInv'
  BY <1>3, CopyDoneKeeps
<1>4. CASE GroupDone
  BY <1>4, GroupDoneKeeps
<1>5. CASE UNCHANGED gpuVars
  <2>1. /\ UNCHANGED <<fixed, place, level, merging>>
        /\ UNCHANGED <<barrier, clock, in_smem, copies, groups>>
    BY <1>5 DEF gpuVars
  <2>2. /\ ControlInv' /\ SameKernel /\ SameFetched /\ SameMemory
        /\ \A u \in ComputeThreads : SameCompute(u)
        /\ line' = line
    BY <1>1, <2>1, StayEffect
  <2>3. KernelFacts /\ LapFacts /\ DataTypes
    BY <1>1, ControlFacts DEF GpuInv
  <2>4. SameEnded
    BY <2>2 DEF SameEnded, Ended
  <2>5. \A u \in ComputeThreads : /\ Waited(u)' = Waited(u) /\ Merged(u)' = Merged(u) /\ Bodies(u)' = Bodies(u)
                                  /\ WarpSpecialized => Released(u)' = Released(u)
                                  /\ copies_out_in_loop => Stored(u)' = Stored(u)
    BY <2>2 DEF SameCompute
  <2>6. WarpSpecialized => Passed' = Passed /\ Seen' = Seen
    BY <2>2 DEF SameMemory
  <2>7. clock' \in [Threads -> SUBSET Accesses] /\ groups' \in Seq(Int)
    BY <2>1, <2>3 DEF DataTypes
  <2>8. /\ BarrierCounts' /\ CopiesInv' /\ InInv' /\ SmemInv' /\ InClocks' /\ CopyClocks'
        /\ ReleaseInv' /\ DataTypes'
    BY <2>1, <2>2, <2>4, <2>5, <2>6, <2>7, QuietStep
  <2>9. ReleaseClocks' /\ ComputeClocks'
    BY <2>1, <2>2, <2>3, <2>5, <2>6, ReleaseClocksKept, ComputeClocksKept DEF GpuInv
  <2>10. GroupsInv'
    <3>1. 0 \in ComputeThreads
      BY <2>3, ThreadFacts
    <3> QED
      BY <2>1, <2>2, <2>3, <2>5, <3>1, GroupsKept DEF GpuInv
  <2> QED
    BY <2>2, <2>8, <2>9, <2>10 DEF GpuInv
<1> QED
  BY <1>2, <1>3, <1>4, <1>5 DEF GpuNext

LEMMA GpuAlways == GpuSpec => []GpuInv
<1>1. GpuInit => GpuInv
  BY GpuStart
<1>2. GpuInv /\ [GpuNext]_gpuVars => GpuInv'
  BY GpuStep
<1> QED
  BY <1>1, <1>2, PTL DEF GpuSpec

-----------------------------------------------------------------------------
(* What follows from the invariant.                                        *)

\* The last step of a phase that has ended.
LEMMA LastStepOf ==
    ASSUME LapFacts, NEW s \in Slots, NEW p \in Nat, p > 0
    PROVE  \E h \in Nat : Slot(h) = s /\ Lap(h) + 1 = p /\ Lap(h) \in Nat
<1>1. PICK k \in Nat : k + 1 = p
  <2>1. p - 1 \in Nat /\ (p - 1) + 1 = p
    OBVIOUS
  <2> QED
    BY <2>1
<1>2. PICK h \in Nat : Slot(h) = s /\ Lap(h) = k
  BY DEF LapFacts
<1> QED
  BY <1>1, <1>2

\* Where a compute thread is when it waits, and when it releases a slot.
LEMMA WaitInAt ==
    ASSUME ControlInv, NEW t \in Threads, line[t] = "wait_in"
    PROVE  /\ t \in ComputeThreads /\ Merged(t) \in Nat /\ Bodies(t) = Merged(t)
           /\ Waited(t) = Merged(t) + One(merging[t])
           /\ Slot(iteration[t]) = Slot(Merged(t))
<1>1. KernelFacts /\ t \in ComputeThreads
  BY ControlFacts, WhoIsWhere
<1>2. pipeline[t] < kernel.num_pipelines /\ pipeline[t] \in Nat /\ iteration[t] \in Nat /\ Done(t) \in Nat
  BY <1>1, DoneIsNat DEF ControlInv, ComputeAt
<1>3. Done(t) = Product(pipeline[t], kernel.num_steps) + iteration[t]
  BY DEF Done
<1>4. Merged(t) = Done(t) /\ Bodies(t) = Done(t)
  BY <1>2 DEF Merged, Bodies, One, AfterWait, AfterBody, AfterRelease, AfterStore
<1>5. Slot(Done(t)) = Slot(iteration[t])
  BY <1>1, <1>2, <1>3, SlotOfIteration
<1> QED
  BY <1>1, <1>2, <1>4, <1>5 DEF Waited

LEMMA ReleaseAt ==
    ASSUME ControlInv, NEW t \in Threads, line[t] = "arrive"
    PROVE  /\ t \in ComputeThreads /\ WarpSpecialized /\ Released(t) \in Nat
           /\ Released(t) < Bodies(t) /\ Bodies(t) \in Nat
           /\ Slot(iteration[t] - delay_release) = Slot(Released(t))
<1>1. KernelFacts /\ t \in ComputeThreads
  BY ControlFacts, WhoIsWhere
<1>2. ComputeAt(t)
  BY <1>1 DEF ControlInv
<1>3. /\ pipeline[t] < kernel.num_pipelines /\ WarpSpecialized /\ iteration[t] >= delay_release
  BY <1>2 DEF ComputeAt, AfterWait, AfterBody
<1>4. /\ pipeline[t] \in Nat /\ iteration[t] \in Nat /\ delay_release \in Nat
      /\ Product(pipeline[t], kernel.num_steps) \in Nat
  BY <1>1, DoneIsNat DEF KernelFacts
<1> DEFINE P == Product(pipeline[t], kernel.num_steps)
<1>5. Done(t) = P + iteration[t]
  BY DEF Done
<1> HIDE DEF P
<1>6. P \in Nat
  BY <1>4 DEF P
<1>7. Bodies(t) = P + iteration[t] + 1 /\ Released(t) = P + (iteration[t] - delay_release)
  BY <1>3, <1>4, <1>5, <1>6 DEF Bodies, Released, Monus, One, AfterBody, AfterRelease, AfterStore
<1>8. iteration[t] - delay_release \in Nat
  BY <1>3, <1>4
<1>9. Slot(Released(t)) = Slot(iteration[t] - delay_release)
  BY <1>1, <1>3, <1>4, <1>7, <1>8, SlotOfIteration DEF P
<1> QED
  BY <1>1, <1>3, <1>4, <1>6, <1>7, <1>8, <1>9

LEMMA BarrierFacts ==
    ASSUME GpuInv
    PROVE  /\ barrier \in BarrierTypes /\ DOMAIN barrier = {"in", "consumed"}
           /\ \A w \in {"in", "consumed"}, s \in Slots :
                 /\ barrier[w] \in [Slots -> BarrierStates]
                 /\ barrier[w][s].phase \in Nat /\ barrier[w][s].phase_change_observed \in BOOLEAN
                 /\ barrier[w][s].next_awaited_phase \in [Threads -> Nat]
                 /\ \A t \in Threads : /\ barrier[w][s].next_awaited_phase[t] >= 1
                                       /\ barrier[w][s].next_awaited_phase[t] <= barrier[w][s].phase + 1
<1>1. barrier \in BarrierTypes /\ DOMAIN barrier = {"in", "consumed"}
  BY DEF GpuInv, DataTypes, BarrierTypes
<1>2. ASSUME NEW w \in {"in", "consumed"}, NEW s \in Slots
      PROVE  /\ barrier[w] \in [Slots -> BarrierStates]
             /\ barrier[w][s].phase \in Nat /\ barrier[w][s].phase_change_observed \in BOOLEAN
             /\ barrier[w][s].next_awaited_phase \in [Threads -> Nat]
             /\ \A t \in Threads : /\ barrier[w][s].next_awaited_phase[t] >= 1
                                   /\ barrier[w][s].next_awaited_phase[t] <= barrier[w][s].phase + 1
  <2>1. barrier[w] \in [Slots -> BarrierStates]
    BY <1>1 DEF BarrierTypes
  <2>2. barrier[w][s] \in BarrierStates
    BY <2>1
  <2>3. /\ barrier[w][s].phase \in Nat /\ barrier[w][s].phase_change_observed \in BOOLEAN
        /\ barrier[w][s].next_awaited_phase \in [Threads -> Nat]
    BY <2>2 DEF BarrierStates
  <2>4. \A t \in Threads : barrier[w][s].next_awaited_phase[t] \in 1 .. (barrier[w][s].phase + 1)
    BY DEF GpuInv, BarrierCounts
  <2> QED
    BY <2>1, <2>3, <2>4
<1> QED
  BY <1>1, <1>2

\* The copies of the blocks do not complete a phase that nobody has seen.
LEMMA CopiesDoNotRaise ==
    ASSUME GpuInv, NEW c \in copies
    PROVE  ~ArriveRaises(barrier["in"][c.slot])
<1>1. /\ ControlInv /\ DataTypes /\ KernelFacts /\ LapFacts /\ InInv /\ ReleaseInv /\ CopiesInv
  BY ControlFacts DEF GpuInv
<1> DEFINE G == c.step
           s == Slot(G)
           x == c.input
<1>2. /\ x \in Inputs /\ G \in Nat /\ c.slot = s /\ G < FetchedBy(x) /\ ~Arrived(x, G)
  BY <1>1 DEF DataTypes, CopiesInv, Arrived, InFlight
<1> HIDE DEF G, x
<1>3. s \in Slots /\ Lap(G) \in Nat
  BY <1>1, <1>2 DEF LapFacts
<1> SUFFICES ASSUME ~In(s).phase_change_observed PROVE FALSE
  BY <1>2 DEF ArriveRaises, In
<1>4. In(s).phase \in Nat /\ In(s).phase > 0
  BY <1>1, <1>3, BarrierFacts DEF In, InInv
<1>5. PICK h \in Nat : Slot(h) = s /\ Lap(h) + 1 = In(s).phase /\ Lap(h) \in Nat
  BY <1>1, <1>3, <1>4, LastStepOf
<1>6. 0 \in ComputeThreads /\ Waited(0) \in Nat
  BY <1>1, ThreadFacts, ComputeIsCounted DEF ComputeCounts
<1>7. Waited(0) <= h
  BY <1>1, <1>3, <1>5, <1>6 DEF InInv
<1>8. ~(Lap(G) < In(s).phase)
  BY <1>1, <1>2 DEF InInv
<1>9. h < G
  BY <1>1, <1>2, <1>3, <1>4, <1>5, <1>8, SameStep
<1>10. h + max_concurrent_steps <= G
  BY <1>1, <1>2, <1>5, <1>9 DEF LapFacts
<1>11. max_concurrent_steps \in Nat /\ FetchedBy(x) \in Nat
  BY <1>1, <1>2, FetchedIsCounted DEF KernelFacts, FetchedCounts
<1>12. h + max_concurrent_steps < FetchedBy(x)
  BY <1>2, <1>10, <1>11
<1>13. h < Waited(0)
  BY <1>1, <1>2, <1>6, <1>12, OneLapAhead
<1> QED
  BY <1>6, <1>7, <1>13

\* Neither do the releases.
LEMMA ReleasesDoNotRaise ==
    ASSUME GpuInv, NEW t \in Threads, line[t] = "arrive"
    PROVE  ~ArriveRaises(barrier["consumed"][Slot(iteration[t] - delay_release)])
<1>1. ControlInv /\ KernelFacts /\ LapFacts /\ InInv
  BY ControlFacts DEF GpuInv
<1> DEFINE G == Released(t)
           s == Slot(G)
<1>2. /\ t \in ComputeThreads /\ WarpSpecialized /\ G \in Nat /\ G < Bodies(t) /\ Bodies(t) \in Nat
      /\ Slot(iteration[t] - delay_release) = s
  BY <1>1, ReleaseAt
<1>3. ConsumedInv /\ ~(G < Released(t))
  BY <1>2 DEF GpuInv, ReleaseInv
<1> HIDE DEF G
<1>4. s \in Slots /\ Lap(G) \in Nat
  BY <1>1, <1>2 DEF LapFacts
<1> SUFFICES ASSUME ~Consumed(s).phase_change_observed PROVE FALSE
  BY <1>2 DEF ArriveRaises, Consumed
<1>5. Consumed(s).phase \in Nat /\ Consumed(s).phase > 0
  BY <1>3, <1>4, BarrierFacts DEF Consumed, ConsumedInv
<1>6. PICK h \in Nat : Slot(h) = s /\ Lap(h) + 1 = Consumed(s).phase /\ Lap(h) \in Nat
  BY <1>1, <1>4, <1>5, LastStepOf
<1>7. Passed <= h /\ Passed \in Nat
  BY <1>1, <1>2, <1>3, <1>4, <1>6, MemoryIsCounted DEF ConsumedInv, MemoryCounts
<1>8. ~(Lap(G) < Consumed(s).phase)
  BY <1>2, <1>3 DEF ConsumedInv
<1>9. h < G
  BY <1>1, <1>2, <1>4, <1>5, <1>6, <1>8, SameStep
<1>10. h + max_concurrent_steps <= G /\ max_concurrent_steps \in Nat
  BY <1>1, <1>2, <1>6, <1>9 DEF LapFacts, KernelFacts
<1>11. h + max_concurrent_steps < Bodies(t)
  BY <1>2, <1>10
<1>12. h < Passed
  BY <1>1, <1>2, <1>11, ReleaseSeen
<1> QED
  BY <1>7, <1>12

\* A slot is neither fetched nor released again while a thread is one lap behind.
LEMMA NotFetchedAgain ==
    ASSUME GpuInv, NEW t \in Threads, line[t] = "wait_in", NEW i \in Inputs
    PROVE  ~Arrived(i, Merged(t) + max_concurrent_steps)
<1>1. ControlInv /\ KernelFacts /\ InInv /\ ReleaseInv
  BY ControlFacts DEF GpuInv
<1> DEFINE G == Merged(t)
<1>2. t \in ComputeThreads /\ G \in Nat /\ Bodies(t) = G
  BY <1>1, WaitInAt
<1> HIDE DEF G
<1> SUFFICES ASSUME Arrived(i, G + max_concurrent_steps) PROVE FALSE
  BY DEF G
<1>3. G + max_concurrent_steps < FetchedBy(i)
  BY DEF Arrived
<1>4. G + kernel.delay_release[i] < Bodies(t)
  BY <1>1, <1>2, <1>3, OneLapAhead
<1>5. kernel.delay_release[i] \in Nat
  BY <1>1 DEF KernelFacts
<1> QED
  BY <1>2, <1>4, <1>5

LEMMA NotReleasedAgain ==
    ASSUME GpuInv, WarpSpecialized, NEW u \in ComputeThreads
    PROVE  ~(Seen + max_concurrent_steps < Released(u))
<1>1. ControlInv /\ KernelFacts /\ InInv /\ MemoryCounts
  BY ControlFacts, MemoryIsCounted DEF GpuInv
<1> DEFINE G == Seen
           h == G + max_concurrent_steps
<1>2. G \in Nat /\ h \in Nat /\ delay_release \in Nat
  BY <1>1 DEF MemoryCounts, KernelFacts
<1> SUFFICES ASSUME h < Released(u) PROVE FALSE
  OBVIOUS
<1>3. h + delay_release < Bodies(u) /\ Bodies(u) \in Nat
  BY <1>1, <1>2, ComputeIsCounted DEF ComputeCounts
<1>4. G + max_concurrent_steps < Bodies(u)
  BY <1>2, <1>3
<1>5. G < Seen
  BY <1>1, <1>2, <1>4, ReleaseSeen
<1> QED
  BY <1>2, <1>5

\* A wait does not miss its phase.
LEMMA WaitsDoNotRaise ==
    ASSUME GpuInv, NEW t \in Threads, Waits(t), ~merging[t]
    PROVE  ~WaitRaises(barrier[Awaited(t)][Slot(iteration[t])], t)
<1>1. ControlInv /\ KernelFacts /\ LapFacts /\ InInv /\ max_concurrent_steps \in Nat
  BY ControlFacts DEF GpuInv, KernelFacts
<1>2. CASE line[t] = "wait_in"
  <2> DEFINE G == Merged(t)
             h == G + max_concurrent_steps
             b == barrier["in"]
  <2>1. t \in ComputeThreads /\ G \in Nat /\ Waited(t) = G + One(merging[t]) /\ Slot(iteration[t]) = Slot(G)
    BY <1>1, <1>2, WaitInAt
  <2>2. Waited(t) = G
    BY <2>1 DEF One
  <2>3. Awaited(t) = "in"
    BY <1>2 DEF Awaited
  <2>4. \A i \in Inputs : ~Arrived(i, h)
    BY <1>2, NotFetchedAgain
  <2> HIDE DEF G
  <2>5. h \in Nat /\ Slot(h) = Slot(G) /\ Lap(h) = Lap(G) + 1 /\ Slot(G) \in Slots
    BY <1>1, <2>1 DEF LapFacts
  <2>6. b \in [Slots -> BarrierStates] /\ b[Slot(G)].next_awaited_phase[t] >= 1
    BY <2>5, BarrierFacts
  <2>7. AwaitInv(b, t, G)
    BY <1>1, <2>1, <2>2 DEF InInv, AwaitInv, In
  <2>8. b[Slot(G)].next_awaited_phase[t] = Lap(G) + 1
    BY <1>1, <2>1, <2>6, <2>7, NextAwaited
  <2>9. Inputs # {}
    BY GpuPipelineAssumption
  <2> HIDE DEF h
  <2>10. ~(Lap(h) < In(Slot(h)).phase)
    BY <1>1, <2>4, <2>5, <2>9 DEF InInv
  <2> QED
    BY <2>1, <2>3, <2>5, <2>8, <2>10 DEF WaitRaises, In
<1>3. CASE line[t] # "wait_in"
  <2> DEFINE G == Seen
             h == G + max_concurrent_steps
             b == barrier["consumed"]
  <2>1. line[t] \in {"wait_consumed", "quiesce"} /\ WarpSpecialized /\ t = memory_thread_idx
    BY <1>1, <1>3, WhoIsWhere DEF Waits
  <2>2. MemoryCounts /\ ConsumedInv /\ 0 \in ComputeThreads
    BY <1>1, <2>1, MemoryIsCounted, ThreadFacts DEF GpuInv, ReleaseInv
  <2>3. G \in Nat /\ Passed = G /\ Slot(iteration[t]) = Slot(G)
    BY <2>1, <2>2 DEF MemoryCounts, One
  <2>4. Awaited(t) = "consumed"
    BY <1>3 DEF Awaited
  <2>5. \A u \in ComputeThreads : ~(h < Released(u))
    BY <2>1, NotReleasedAgain
  <2> HIDE DEF G
  <2>6. h \in Nat /\ Slot(h) = Slot(G) /\ Lap(h) = Lap(G) + 1 /\ Slot(G) \in Slots
    BY <1>1, <2>3 DEF LapFacts
  <2>7. b \in [Slots -> BarrierStates] /\ b[Slot(G)].next_awaited_phase[t] >= 1
    BY <2>6, BarrierFacts
  <2>8. AwaitInv(b, t, G)
    BY <2>1, <2>2, <2>3 DEF ConsumedInv, AwaitInv, Consumed
  <2>9. b[Slot(G)].next_awaited_phase[t] = Lap(G) + 1
    BY <1>1, <2>3, <2>7, <2>8, NextAwaited
  <2> HIDE DEF h
  <2>10. ~(Lap(h) < Consumed(Slot(h)).phase)
    BY <2>2, <2>5, <2>6 DEF ConsumedInv
  <2> QED
    BY <2>3, <2>4, <2>6, <2>9, <2>10 DEF WaitRaises, Consumed
<1> QED
  BY <1>2, <1>3

\* The last thread that deallocates a barrier finds that every thread which
\* waits there has seen all phases.
LEMMA DeallocationsDoNotRaise ==
    ASSUME GpuInv, NEW t \in Threads, line[t] = "deallocate",
           NEW w \in {"in", "consumed"}, NEW s \in Slots
    PROVE  ~DeallocateRaises(barrier[w][s])
<1>1. ControlInv /\ KernelFacts /\ LapFacts /\ InInv /\ BarrierCounts
  BY ControlFacts DEF GpuInv
<1> DEFINE b == barrier[w][s]
<1>2. /\ b.phase \in Nat /\ b.next_awaited_phase \in [Threads -> Nat]
      /\ b.ref_count = Cardinality(Running)
  BY <1>1, BarrierFacts DEF BarrierCounts
<1> HIDE DEF b
<1> SUFFICES ASSUME b.ref_count = 1, NEW u \in Threads,
                    b.next_awaited_phase[u] - 1 \in 1 .. (b.phase - 1)
             PROVE  FALSE
  BY <1>2 DEF DeallocateRaises, b
<1>3. \A v \in Threads : line[v] \in {"deallocate", "ended"}
  <2>1. IsFiniteSet(Threads)
    <3>1. 0 \in Int /\ kernel.num_compute_wgs \in Int
      BY <1>1 DEF KernelFacts
    <3> QED
      BY <3>1, FS_Interval DEF Threads
  <2>2. IsFiniteSet(Running)
    BY <2>1, FS_Subset DEF Running
  <2>3. Cardinality(Running) = 1
    BY <1>2
  <2>4. PICK y : Running = {y}
    BY <2>2, <2>3, FS_Singleton
  <2>5. t \in Running
    BY DEF Running, Ended
  <2> QED
    BY <2>4, <2>5 DEF Running, Ended
<1>4. /\ b.next_awaited_phase[u] \in Nat /\ b.next_awaited_phase[u] <= b.phase
      /\ b.next_awaited_phase[u] # 1 /\ b.phase > 0
  BY <1>2
<1>5. PICK g \in Nat : Slot(g) = s /\ Lap(g) + 1 = b.phase /\ Lap(g) \in Nat
  BY <1>1, <1>2, <1>4, LastStepOf
<1>6. Lap(g) < b.phase
  BY <1>2, <1>5
<1>7. /\ 0 \in ComputeThreads /\ ComputeThreads \subseteq Threads
      /\ (WarpSpecialized => Threads = ComputeThreads \cup {memory_thread_idx})
      /\ (~WarpSpecialized => Threads = {0} /\ ComputeThreads = {0})
      /\ memory_thread_idx \in Threads
  BY <1>1, ThreadFacts
<1>8. TotalSteps \in Nat
  BY <1>1, ProductFacts DEF TotalSteps, KernelFacts
<1>9. CASE w = "in"
  <2>1. b = In(s)
    BY <1>9 DEF b, In
  <2>2. u \in ComputeThreads
    BY <1>1, <1>4, <1>7, <2>1 DEF InInv
  <2>3. PICK i \in Inputs : TRUE
    BY GpuPipelineAssumption
  <2>4. Arrived(i, g)
    BY <1>1, <1>5, <1>6, <2>1 DEF InInv
  <2>5. g < FetchedBy(i) /\ FetchedBy(i) \in Nat /\ FetchedBy(i) <= TotalSteps
    BY <1>1, <2>4, FetchedIsCounted DEF Arrived, FetchedCounts
  <2>6. Waited(u) = TotalSteps
    BY <1>1, <1>3, <2>2, ComputeIsCounted DEF ComputeCounts
  <2>7. g < Waited(u)
    BY <1>8, <2>5, <2>6
  <2>8. Lap(g) + 1 < b.next_awaited_phase[u]
    BY <1>1, <1>5, <2>1, <2>2, <2>7 DEF InInv
  <2> QED
    BY <1>2, <1>4, <1>5, <2>8
<1>10. CASE w = "consumed"
  <2>1. b = Consumed(s)
    BY <1>10 DEF b, Consumed
  <2>2. CASE WarpSpecialized
    <3>1. ConsumedInv /\ MemoryCounts
      BY <1>1, <2>2, MemoryIsCounted DEF GpuInv, ReleaseInv
    <3>2. u = memory_thread_idx
      BY <1>4, <1>7, <2>1, <2>2, <3>1 DEF ConsumedInv
    <3>3. g < Released(0)
      BY <1>5, <1>6, <1>7, <2>1, <3>1 DEF ConsumedInv
    <3>4. Passed = Monus(TotalSteps, delay_release) /\ Passed \in Nat
      BY <1>3, <1>7, <3>1 DEF MemoryCounts
    <3>5. Released(0) <= Monus(TotalSteps, delay_release) /\ Released(0) \in Nat
      BY <1>1, <1>7, ComputeIsCounted DEF ComputeCounts
    <3>6. g < Passed
      BY <3>3, <3>4, <3>5
    <3>7. Lap(g) + 1 < b.next_awaited_phase[u]
      BY <1>5, <2>1, <3>1, <3>2, <3>6 DEF ConsumedInv
    <3> QED
      BY <1>2, <1>4, <1>5, <3>7
  <2>3. CASE ~WarpSpecialized
    <3>1. UnusedInv
      BY <2>3 DEF GpuInv, ReleaseInv
    <3> QED
      BY <1>4, <2>1, <3>1 DEF UnusedInv
  <2> QED
    BY <2>2, <2>3
<1> QED
  BY <1>9, <1>10

LEMMA InvMeansNoRaise ==
    ASSUME GpuInv
    PROVE  BarriersNeverRaise
<1>1. \A c \in copies : ~ArriveRaises(barrier["in"][c.slot])
  BY CopiesDoNotRaise
<1>2. DOMAIN barrier = {"in", "consumed"}
  BY BarrierFacts
<1>3. \A t \in Threads : line[t] = "arrive" =>
        ~ArriveRaises(barrier["consumed"][Slot(iteration[t] - delay_release)])
  BY ReleasesDoNotRaise
<1>4. \A t \in Threads : Waits(t) /\ ~merging[t] =>
        ~WaitRaises(barrier[Awaited(t)][Slot(iteration[t])], t)
  BY WaitsDoNotRaise
<1>5. \A t \in Threads : line[t] = "deallocate" =>
        \A w \in DOMAIN barrier, s \in Slots : ~DeallocateRaises(barrier[w][s])
  BY <1>2, DeallocationsDoNotRaise
<1> QED
  BY <1>1, <1>3, <1>4, <1>5 DEF BarriersNeverRaise

\* The blocks that the body of step s may read are those of earlier steps that
\* are not yet released.
LEMMA InUseFacts ==
    ASSUME KernelFacts, NEW i \in Inputs, NEW s \in Nat, NEW r \in InUse(i, s)
    PROVE  r \in Nat /\ r <= s /\ s <= r + kernel.delay_release[i]
<1> DEFINE n == kernel.num_steps
           d == kernel.delay_release[i]
           q == LapOf(n, s)
           first == Product(n, q)
<1>1. n \in Nat \ {0} /\ d \in Nat
  BY DEF KernelFacts
<1>2. q \in Nat
  BY <1>1, SlotRange
<1>3. InUse(i, s) = {k \in first .. s : k >= s - d}
  BY DEF InUse, LapOf, Product
<1> HIDE DEF first, q
<1>4. first \in Nat
  BY <1>1, <1>2, ProductFacts DEF first
<1> QED
  BY <1>1, <1>3, <1>4

LEMMA InvMeansClocks ==
    ASSUME GpuInv
    PROVE  ClocksOrderAccesses
<1>1. ControlInv /\ DataTypes /\ KernelFacts
  BY ControlFacts DEF GpuInv
<1>2. ASSUME NEW t \in ComputeThreads, line[t] = "body", NEW i \in Inputs,
             NEW s \in InUse(i, StepNumber(t))
      PROVE  <<"copy", i, s>> \in clock[t]
  <2>1. /\ Bodies(t) = StepNumber(t) /\ Merged(t) = Bodies(t) + 1
        /\ Bodies(t) \in Nat /\ Merged(t) \in Nat
    BY <1>1, <1>2, ComputeIsCounted DEF ComputeCounts
  <2>2. s \in Nat /\ s <= StepNumber(t)
    BY <1>1, <1>2, <2>1, InUseFacts
  <2>3. s < Merged(t)
    BY <2>1, <2>2
  <2> QED
    BY <2>2, <2>3 DEF GpuInv, ComputeClocks
<1>3. ASSUME NEW c \in copies, c.step - max_concurrent_steps >= 0
      PROVE  /\ <<"copy", c.input, c.step - max_concurrent_steps>> \in c.clock
             /\ \A t \in ComputeThreads, s \in 0 .. (c.step - 1) :
                   (c.step - max_concurrent_steps) \in InUse(c.input, s) => <<"body", t, s>> \in c.clock
  <2> DEFINE g == c.step - max_concurrent_steps
             d == kernel.delay_release[c.input]
  <2>1. c.input \in Inputs /\ c.step \in Nat /\ max_concurrent_steps \in Nat
    BY <1>1 DEF DataTypes, KernelFacts
  <2>2. g \in Nat /\ g + max_concurrent_steps = c.step
    BY <1>3, <2>1
  <2>3. 0 \in ComputeThreads
    BY <1>1, ThreadFacts
  <2> HIDE DEF g
  <2>4. \A t \in ComputeThreads : CountsStep(c.clock, c.input, t, g, d)
    BY <2>2 DEF GpuInv, CopyClocks
  <2>5. <<"copy", c.input, g>> \in c.clock
    BY <2>3, <2>4 DEF CountsStep
  <2>6. ASSUME NEW t \in ComputeThreads, NEW s \in 0 .. (c.step - 1), g \in InUse(c.input, s)
        PROVE  <<"body", t, s>> \in c.clock
    <3>1. s \in Nat
      BY <2>1
    <3>2. s <= g + d
      BY <1>1, <2>1, <2>6, <3>1, InUseFacts
    <3> QED
      BY <2>4, <3>1, <3>2 DEF CountsStep
  <2> QED
    BY <2>5, <2>6 DEF g
<1> QED
  BY <1>2, <1>3 DEF ClocksOrderAccesses

LEMMA InvMeansOwnPhase ==
    ASSUME GpuInv
    PROVE  MergesItsOwnPhase
<1>1. ControlInv /\ KernelFacts /\ LapFacts /\ InInv /\ max_concurrent_steps \in Nat \ {0}
  BY ControlFacts DEF GpuInv, KernelFacts
<1> SUFFICES ASSUME NEW t \in Threads, merging[t]
             PROVE  LET b == barrier[Awaited(t)][Slot(iteration[t])]
                    IN b.arrivals_count = 0 /\ b.next_awaited_phase[t] = b.phase + 1
  BY DEF MergesItsOwnPhase
<1>2. CASE t \in ComputeThreads
  <2> DEFINE G == Merged(t)
             h == G + max_concurrent_steps
  <2>1. line[t] = "wait_in"
    BY <1>1, <1>2 DEF ControlInv, ComputeAt
  <2>2. G \in Nat /\ Waited(t) = G + 1 /\ Slot(iteration[t]) = Slot(G) /\ Awaited(t) = "in"
    BY <1>1, <2>1, WaitInAt DEF One, Awaited
  <2>3. \A i \in Inputs : ~Arrived(i, h)
    BY <2>1, NotFetchedAgain
  <2> HIDE DEF G
  <2>4. /\ h \in Nat /\ Slot(h) = Slot(G) /\ Lap(h) = Lap(G) + 1 /\ Slot(G) \in Slots
        /\ Lap(G) \in Nat /\ h > G
    BY <1>1, <2>2 DEF LapFacts
  <2> HIDE DEF h
  <2> DEFINE s == Slot(G)
             next == In(s).next_awaited_phase[t]
             p == In(s).phase
  <2>5. p \in Nat /\ next \in Nat /\ next <= p + 1
    <3>1. s \in Slots
      BY <2>4
    <3> QED
      BY <3>1, BarrierFacts DEF In
  <2>6. Lap(G) + 1 < next
    <3>1. G < Waited(t)
      BY <2>2
    <3> QED
      BY <1>1, <1>2, <2>2, <3>1 DEF InInv
  <2>7. ~(Lap(h) < p)
    <3>1. Inputs # {}
      BY GpuPipelineAssumption
    <3> QED
      BY <1>1, <2>3, <2>4, <3>1 DEF InInv
  <2>8. p = Lap(h) /\ next = p + 1
    BY <2>4, <2>5, <2>6, <2>7
  <2>9. {i \in Inputs : Arrived(i, h)} = {}
    BY <2>3
  <2>10. In(s).arrivals_count = 0
    BY <1>1, <2>4, <2>8, <2>9, FS_EmptySet DEF InInv
  <2> QED
    BY <2>2, <2>8, <2>10 DEF In
<1>3. CASE WarpSpecialized /\ t = memory_thread_idx
  <2> DEFINE G == Seen
             h == G + max_concurrent_steps
  <2>1. line[t] \in {"wait_consumed", "quiesce"} /\ MemoryCounts /\ ConsumedInv
    BY <1>1, <1>3, MemoryIsCounted DEF ControlInv, MemoryAt, GpuInv, ReleaseInv
  <2>2. Waits(t) /\ Awaited(t) = "consumed"
    BY <2>1 DEF Waits, Awaited
  <2>3. G \in Nat /\ Passed = G + 1 /\ Slot(iteration[t]) = Slot(G)
    BY <1>3, <2>1, <2>2 DEF MemoryCounts, One
  <2>4. \A u \in ComputeThreads : ~(h < Released(u))
    BY <1>3, NotReleasedAgain
  <2>5. 0 \in ComputeThreads
    BY <1>1, ThreadFacts
  <2> HIDE DEF G
  <2>6. /\ h \in Nat /\ Slot(h) = Slot(G) /\ Lap(h) = Lap(G) + 1 /\ Slot(G) \in Slots
        /\ Lap(G) \in Nat /\ h > G
    BY <1>1, <2>3 DEF LapFacts
  <2> HIDE DEF h
  <2> DEFINE s == Slot(G)
             next == Consumed(s).next_awaited_phase[t]
             p == Consumed(s).phase
  <2>7. p \in Nat /\ next \in Nat /\ next <= p + 1
    <3>1. s \in Slots
      BY <2>6
    <3> QED
      BY <3>1, BarrierFacts DEF Consumed
  <2>8. Lap(G) + 1 < next
    <3>1. G < Passed
      BY <2>3
    <3> QED
      BY <1>3, <2>1, <2>3, <3>1 DEF ConsumedInv
  <2>9. ~(Lap(h) < p)
    BY <2>1, <2>4, <2>5, <2>6 DEF ConsumedInv
  <2>10. p = Lap(h) /\ next = p + 1
    BY <2>6, <2>7, <2>8, <2>9
  <2>11. {u \in ComputeThreads : h < Released(u)} = {}
    BY <2>4
  <2>12. Consumed(s).arrivals_count = 0
    BY <2>1, <2>6, <2>10, <2>11, FS_EmptySet DEF ConsumedInv
  <2> QED
    BY <2>2, <2>3, <2>10, <2>12 DEF Consumed
<1> QED
  BY <1>1, <1>2, <1>3, ThreadFacts

LEMMA InvMeansTypes ==
    ASSUME GpuInv
    PROVE  GpuTypeOK
<1>1. ControlInv /\ DataTypes /\ KernelFacts /\ BarrierCounts
  BY ControlFacts DEF GpuInv
<1>2. /\ kernel.num_steps \in Nat \ {0} /\ kernel.num_pipelines \in Nat \ {0}
      /\ init_prologue_steps \in Nat \ {0} /\ init_prologue_steps <= kernel.num_steps
      /\ delay_release \in Nat
  BY <1>1 DEF KernelFacts
<1>3. ASSUME NEW t \in Threads
      PROVE  iteration[t] <= kernel.num_steps /\ pipeline[t] <= kernel.num_pipelines
  <2>1. pipeline[t] \in Nat /\ iteration[t] \in Nat
    BY <1>1, DoneIsNat
  <2>2. CASE t \in ComputeThreads
    <3>1. ComputeAt(t)
      BY <1>1, <2>2 DEF ControlInv
    <3> QED
      BY <1>2, <2>1, <3>1 DEF ComputeAt, AfterWait, AfterBody, AfterRelease, AfterStore
  <2>3. CASE WarpSpecialized /\ t = memory_thread_idx
    <3>1. MemoryAt(t)
      BY <1>1, <2>3 DEF ControlInv
    <3>2. prologue_steps(pipeline[t]) \in Nat
      BY <1>2 DEF prologue_steps
    <3>3. line[t] = "quiesce" => iteration[t] <= kernel.num_steps
      BY <1>2, <2>1, <3>1 DEF MemoryAt, Quiesce
    <3> QED
      BY <1>2, <2>1, <3>1, <3>2, <3>3 DEF MemoryAt
  <2> QED
    BY <1>1, <2>2, <2>3, ThreadFacts
<1>4. /\ iteration \in [Threads -> 0 .. kernel.num_steps]
      /\ pipeline \in [Threads -> 0 .. kernel.num_pipelines] /\ merging \in [Threads -> BOOLEAN]
  BY <1>1, <1>2, <1>3 DEF ControlInv
<1>5. /\ in_smem \in [Inputs -> [Slots -> Nat \cup {NoStep}]]
      /\ \A c \in copies : c.slot \in Slots /\ c.input \in Inputs
  BY <1>1 DEF DataTypes
<1>6. Cardinality(Running) \in 0 .. Cardinality(Threads)
  <2>1. 0 \in Int /\ kernel.num_compute_wgs \in Int
    BY <1>1 DEF KernelFacts
  <2>2. IsFiniteSet(Threads)
    BY <2>1, FS_Interval DEF Threads
  <2>3. Running \in SUBSET Threads
    BY DEF Running
  <2>4. IsFiniteSet(Running) /\ Cardinality(Running) <= Cardinality(Threads)
    BY <2>2, <2>3, FS_Subset
  <2>5. Cardinality(Running) \in Nat /\ Cardinality(Threads) \in Nat
    BY <2>2, <2>4, FS_CardinalityType
  <2> QED
    BY <2>4, <2>5
<1>7. ASSUME NEW w \in {"in", "consumed"}, NEW s \in Slots
      PROVE  LET b == barrier[w][s] IN
             /\ b.ref_count \in 0 .. Cardinality(Threads) /\ b.phase \in Nat
             /\ b.arrivals_count \in 0 .. (b.num_arrivals - 1) \/ b.num_arrivals = 0
             /\ \A t \in Threads : b.next_awaited_phase[t] \in 1 .. (b.phase + 1)
  <2> DEFINE b == barrier[w][s]
  <2>1. b \in BarrierStates
    BY <1>1 DEF DataTypes
  <2>2. b.phase \in Nat /\ b.arrivals_count \in Nat /\ b.num_arrivals \in Nat
    BY <2>1 DEF BarrierStates
  <2>3. /\ b.arrivals_count < b.num_arrivals \/ b.num_arrivals = 0
        /\ b.ref_count = Cardinality(Running)
        /\ \A t \in Threads : b.next_awaited_phase[t] \in 1 .. (b.phase + 1)
    BY <1>1 DEF BarrierCounts
  <2>4. b.arrivals_count \in 0 .. (b.num_arrivals - 1) \/ b.num_arrivals = 0
    BY <2>2, <2>3
  <2> QED
    BY <1>6, <2>2, <2>3, <2>4
<1>8. DOMAIN barrier = {"in", "consumed"}
  BY BarrierFacts
<1> QED
  BY <1>4, <1>5, <1>7, <1>8 DEF GpuTypeOK

LEMMA InvMeansBlocks ==
    ASSUME GpuInv
    PROVE  BodySeesItsBlocks
<1>1. ControlInv /\ KernelFacts /\ LapFacts /\ InInv /\ ReleaseInv
  BY ControlFacts DEF GpuInv
<1> SUFFICES ASSUME NEW t \in ComputeThreads, line[t] = "body", NEW i \in Inputs,
                    NEW s \in InUse(i, StepNumber(t))
             PROVE  in_smem[i][Slot(s % kernel.num_steps)] = s
  BY DEF BodySeesItsBlocks
<1> DEFINE M == max_concurrent_steps
           n == kernel.num_steps
           d == kernel.delay_release[i]
<1>2. M \in Nat \ {0} /\ n \in Nat \ {0} /\ d \in Nat /\ kernel.num_pipelines \in Nat \ {0}
  BY <1>1 DEF KernelFacts
<1>3. /\ Bodies(t) = StepNumber(t) /\ Merged(t) = Bodies(t) + 1 /\ Merged(t) <= Waited(t)
      /\ Bodies(t) \in Nat /\ Merged(t) \in Nat /\ Waited(t) \in Nat /\ Waited(t) <= TotalSteps
  BY <1>1, ComputeIsCounted DEF ComputeCounts
<1>4. s \in Nat /\ s <= Bodies(t) /\ Bodies(t) <= s + d
  BY <1>1, <1>3, InUseFacts
<1>5. Arrived(i, s)
  <2>1. s < Waited(t)
    BY <1>3, <1>4
  <2> QED
    BY <1>1, <1>4, <2>1 DEF InInv
<1>6. ~Arrived(i, s + M)
  <2> SUFFICES ASSUME Arrived(i, s + M) PROVE FALSE
    OBVIOUS
  <2>1. s + M < FetchedBy(i)
    BY DEF Arrived
  <2>2. s + d < Bodies(t)
    BY <1>1, <1>4, <2>1, OneLapAhead
  <2> QED
    BY <1>2, <1>3, <1>4, <2>2
<1>7. in_smem[i][Slot(s)] = s
  BY <1>4, <1>5, <1>6 DEF GpuInv, SmemInv
<1>8. Slot(s % n) = Slot(s)
  <2>1. CASE kernel.num_pipelines > 1
    <3>1. n % M = 0
      BY <1>1, <2>1 DEF KernelFacts
    <3>2. SlotOf(M, s % n) = SlotOf(M, s)
      BY <1>2, <1>4, <3>1, SlotOfRemainder
    <3> QED
      BY <3>2 DEF SlotOf, Slot
  <2>2. CASE ~(kernel.num_pipelines > 1)
    <3>1. kernel.num_pipelines = 1
      BY <1>2, <2>2
    <3>2. TotalSteps = n
      BY <1>2, <3>1, ProductFacts DEF TotalSteps
    <3>3. s < n
      BY <1>2, <1>3, <1>4, <3>2
    <3>4. s % n = s
      BY <1>2, <1>4, <3>3, FirstLap DEF SlotOf
    <3> QED
      BY <3>4
  <2> QED
    BY <2>1, <2>2
<1> QED
  BY <1>7, <1>8

LEMMA InvMeansOutputFree ==
    ASSUME GpuInv
    PROVE  OutputSlotIsFree
<1>1. ControlInv /\ KernelFacts /\ LapFacts /\ GroupsInv /\ groups \in Seq(Int)
  BY ControlFacts DEF GpuInv, DataTypes
<1> SUFFICES ASSUME NEW t \in ComputeThreads, copies_out_in_loop, line[t] = "body",
                    NEW k \in DOMAIN groups, groups[k] = Slot(iteration[t])
             PROVE  FALSE
  BY DEF OutputSlotIsFree
<1>2. t = 0
  BY <1>1, ThreadFacts
<1> DEFINE S == Stored(0)
           M == max_concurrent_steps
           j == S - Len(groups) + k - 1
<1>3. S \in Nat /\ Slot(iteration[t]) = Slot(S)
  BY <1>1, <1>2, ComputeIsCounted DEF ComputeCounts
<1>4. M \in Nat \ {0}
  BY <1>1 DEF KernelFacts
<1>5. Len(groups) \in Nat /\ k \in 1 .. Len(groups)
  BY <1>1
<1>6. Len(groups) <= S /\ Len(groups) <= M - 1
  BY <1>1, <1>2 DEF GroupsInv, pending_groups
<1>7. groups[k] \in {NoSlot, Slot(j)}
  BY <1>1, <1>5 DEF GroupsInv
<1>8. j \in Nat /\ j < S /\ S < j + M
  BY <1>3, <1>4, <1>5, <1>6
<1> HIDE DEF j, S
<1>9. Slot(S) # NoSlot
  <2>1. Slot(S) \in Slots
    BY <1>1, <1>3 DEF LapFacts
  <2> QED
    BY <1>4, <2>1 DEF Slots, NoSlot
<1>10. Slot(j) = Slot(S)
  BY <1>3, <1>7, <1>9
<1>11. j + M <= S
  BY <1>1, <1>3, <1>8, <1>10 DEF LapFacts
<1> QED
  BY <1>3, <1>4, <1>8, <1>11

LEMMA InvMeansDrained ==
    ASSUME GpuInv
    PROVE  NothingInFlightAtEnd
<1>1. ControlInv /\ KernelFacts /\ InInv /\ CopiesInv /\ GroupsInv /\ DataTypes
  BY ControlFacts DEF GpuInv
<1> SUFFICES ASSUME \A t \in Threads : Ended(t)
             PROVE  copies = {} /\ groups = << >>
  BY DEF NothingInFlightAtEnd
<1>2. 0 \in ComputeThreads /\ 0 \in Threads /\ line[0] = "ended"
  BY <1>1, ThreadFacts DEF Ended
<1>3. Waited(0) = TotalSteps /\ Waited(0) \in Nat
  BY <1>1, <1>2, ComputeIsCounted DEF ComputeCounts
<1>4. ASSUME NEW c \in copies
      PROVE  FALSE
  <2>1. c.input \in Inputs /\ c.step \in Nat /\ c.step < FetchedBy(c.input)
    BY <1>1 DEF DataTypes, CopiesInv
  <2>2. FetchedBy(c.input) \in Nat /\ FetchedBy(c.input) <= TotalSteps
    BY <1>1, <2>1, FetchedIsCounted DEF FetchedCounts
  <2>3. c.step < Waited(0)
    BY <1>3, <2>1, <2>2
  <2>4. Arrived(c.input, c.step)
    BY <1>1, <1>2, <2>1, <2>3 DEF InInv
  <2> QED
    BY <2>4 DEF Arrived, InFlight
<1>5. groups = << >>
  <2>1. Len(groups) = 0 /\ groups \in Seq(Int)
    BY <1>1, <1>2 DEF GroupsInv, DataTypes
  <2> QED
    BY <2>1
<1> QED
  BY <1>4, <1>5

\* For every kernel that the pipelines accept: no arrival, wait or deallocation
\* of emit_pipeline and emit_pipeline_warp_specialized makes the Barrier of the
\* GPU interpreter raise.
THEOREM GpuBarriersNeverRaise == GpuSpec => []BarriersNeverRaise
<1>1. GpuInv => BarriersNeverRaise
  BY InvMeansNoRaise
<1> QED
  BY <1>1, GpuAlways, PTL

\* Every body finds the blocks that it may read in their slots and its output
\* slot free, however late copies complete, and nothing is in flight when
\* run_scoped frees the memory.
THEOREM GpuSmemIsSafe == GpuSpec => []SmemIsSafe
<1>1. GpuInv => SmemIsSafe
  BY InvMeansTypes, InvMeansBlocks, InvMeansOutputFree, InvMeansDrained DEF SmemIsSafe
<1> QED
  BY <1>1, GpuAlways, PTL

\* The vector clocks order all accesses to a slot, and a thread that merges the
\* clock of a barrier without its lock gets the clock of the phase it waited for.
THEOREM GpuClocksTellTheTruth == GpuSpec => []ClocksTellTheTruth
<1>1. GpuInv => ClocksTellTheTruth
  BY InvMeansClocks, InvMeansOwnPhase DEF ClocksTellTheTruth
<1> QED
  BY <1>1, GpuAlways, PTL

=============================================================================
