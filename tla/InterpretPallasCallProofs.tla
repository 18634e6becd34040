--------------------- MODULE InterpretPallasCallProofs ----------------------
(***************************************************************************)
(* How a kernel is interpreted (interpret/interpret_pallas_call.py), first *)
(* on the cores of one device and then on all devices.                     *)
(*                                                                         *)
(* For every grid, any parallel dimensions, any permutation of them and    *)
(* any number of cores, the loops of the cores are one pass over the grid, *)
(* with the right input block in every iteration and the whole output in   *)
(* HBM at the end (GridLoop).  For any number of devices, buffers, kernels *)
(* and failures, a device meets the shared memory of its own kernel, with  *)
(* the buffers of all devices in it (KernelLifecycle).                     *)
(***************************************************************************)
EXTENDS GridLoop, KernelLifecycle, FiniteSetTheorems, TLAPS

-----------------------------------------------------------------------------
(* Induction, for sets.                                                    *)

\* Induction over the natural numbers.  With a counterexample n, x |-> x - 1
\* would map the counterexamples up to n into themselves without n, which the
\* pigeonhole principle excludes.
LEMMA SetInduction ==
    ASSUME NEW T, 0 \in T, \A n \in Nat : n \in T => n + 1 \in T
    PROVE  Nat \subseteq T
<1> SUFFICES ASSUME NEW n \in Nat, n \notin T PROVE FALSE
  OBVIOUS
<1> DEFINE S == {m \in 0 .. n : m \notin T}
           f == [m \in S |-> m - 1]
<1>1. IsFiniteSet(S) /\ n \in S
  <2>1. IsFiniteSet(0 .. n) /\ S \in SUBSET (0 .. n)
    BY FS_Interval
  <2> QED
    BY <2>1, FS_Subset
<1>2. IsFiniteSet(S \ {n}) /\ Cardinality(S \ {n}) = Cardinality(S) - 1 /\ Cardinality(S) \in Nat
  BY <1>1, FS_RemoveElement, FS_CardinalityType
<1>3. f \in [S -> S \ {n}]
  <2> SUFFICES ASSUME NEW m \in S PROVE m - 1 \in S \ {n}
    OBVIOUS
  <2>1. m # 0 /\ m \in 0 .. n
    OBVIOUS
  <2>2. m - 1 \in Nat /\ (m - 1) + 1 = m
    BY <2>1
  <2> QED
    BY <2>1, <2>2
<1>4. \A x, y \in S : x # y => f[x] # f[y]
  OBVIOUS
<1>5. Cardinality(S \ {n}) < Cardinality(S)
  BY <1>2
<1> HIDE DEF S, f
<1>6. \E x, y \in S : x # y /\ f[x] = f[y]
  BY <1>1, <1>2, <1>3, <1>5, FS_PigeonHole
<1> QED
  BY <1>4, <1>6

\* Induction from m up to n.
LEMMA Upward ==
    ASSUME NEW m \in Nat, NEW n \in Nat, NEW T, m \in T,
           \A d \in m .. (n - 1) : d \in T => d + 1 \in T
    PROVE  m .. n \subseteq T
<1> DEFINE U == {x \in Nat : m + x \in m .. n => m + x \in T}
<1>1. 0 \in U
  OBVIOUS
<1>2. \A x \in Nat : x \in U => x + 1 \in U
  <2> SUFFICES ASSUME NEW x \in Nat, x \in U, m + (x + 1) \in m .. n
               PROVE  m + (x + 1) \in T
    OBVIOUS
  <2>1. m + x \in T /\ m + x \in m .. (n - 1)
    OBVIOUS
  <2>2. (m + x) + 1 \in T
    BY <2>1
  <2> QED
    BY <2>2
<1> HIDE DEF U
<1>3. Nat \subseteq U
  BY <1>1, <1>2, SetInduction
<1>4. \A x \in m .. n : x - m \in Nat /\ m + (x - m) = x
  OBVIOUS
<1> QED
  BY <1>3, <1>4 DEF U

\* Induction from n down to 0.
LEMMA Downward ==
    ASSUME NEW n \in Nat, NEW T, n \in T, \A d \in 0 .. (n - 1) : d + 1 \in T => d \in T
    PROVE  0 .. n \subseteq T
<1> DEFINE U == {x \in 0 .. n : n - x \in T}
<1>1. 0 \in U
  OBVIOUS
<1>2. \A x \in 0 .. (n - 1) : x \in U => x + 1 \in U
  <2> SUFFICES ASSUME NEW x \in 0 .. (n - 1), x \in U PROVE n - (x + 1) \in T
    OBVIOUS
  <2>1. n - (x + 1) \in 0 .. (n - 1) /\ (n - (x + 1)) + 1 = n - x
    OBVIOUS
  <2> QED
    BY <2>1
<1> HIDE DEF U
<1>3. 0 .. n \subseteq U
  BY <1>1, <1>2, Upward
<1>4. \A x \in 0 .. n : n - x \in 0 .. n /\ n - (n - x) = x
  OBVIOUS
<1> QED
  BY <1>3, <1>4 DEF U

\* An iteration over the dimensions 1 .. n: how a value of V goes on from one to
\* the next, what f is when it begins with a at 0 and goes up, and what it is
\* when it begins at n and goes down.
Iteration(step, n, V, a) == n \in Nat /\ a \in V /\ step \in [1 .. n -> [V -> V]]

GoesUp(f, step, n, V, a) ==
    /\ f \in [0 .. n -> V] /\ f[0] = a
    /\ \A d \in 1 .. n : f[d] = step[d][f[d - 1]]

GoesDown(f, step, n, V, a) ==
    /\ f \in [0 .. n -> V] /\ f[n] = a
    /\ \A d \in 0 .. (n - 1) : f[d] = step[d + 1][f[d + 1]]

\* There is such a function, from 0 up.
LEMMA IterateUp ==
    ASSUME NEW n, NEW V, NEW a, NEW step, Iteration(step, n, V, a)
    PROVE  \E f : GoesUp(f, step, n, V, a)
<1> USE DEF Iteration
<1> DEFINE Solves(f, m) == f[0] = a /\ \A d \in 1 .. m : f[d] = step[d][f[d - 1]]
           T == {m \in 0 .. n : \E f \in [0 .. m -> V] : Solves(f, m)}
<1>1. 0 \in T
  <2> DEFINE h == [d \in 0 .. 0 |-> a]
  <2>1. h \in [0 .. 0 -> V] /\ h[0] = a
    OBVIOUS
  <2>2. \A d \in 1 .. 0 : h[d] = step[d][h[d - 1]]
    OBVIOUS
  <2> HIDE DEF h
  <2> QED
    BY <2>1, <2>2
<1>2. ASSUME NEW m \in 0 .. (n - 1), m \in T PROVE m + 1 \in T
  <2>1. PICK f \in [0 .. m -> V] : Solves(f, m)
    BY <1>2
  <2> DEFINE h == [d \in 0 .. (m + 1) |-> IF d = m + 1 THEN step[m + 1][f[m]] ELSE f[d]]
  <2>2. h \in [0 .. (m + 1) -> V]
    OBVIOUS
  <2>3. Solves(h, m + 1)
    <3>1. h[0] = a
      BY <2>1
    <3>2. ASSUME NEW d \in 1 .. (m + 1) PROVE h[d] = step[d][h[d - 1]]
      <4>1. CASE d = m + 1
        <5>1. h[d] = step[m + 1][f[m]] /\ h[d - 1] = f[m]
          BY <4>1
        <5> QED
          BY <4>1, <5>1
      <4>2. CASE d # m + 1
        <5>1. d \in 1 .. m /\ h[d] = f[d] /\ h[d - 1] = f[d - 1]
          BY <4>2
        <5> QED
          BY <2>1, <5>1
      <4> QED
        BY <4>1, <4>2
    <3> QED
      BY <3>1, <3>2
  <2> HIDE DEF h
  <2> QED
    BY <2>2, <2>3
<1> HIDE DEF T
<1>3. 0 .. n \subseteq T
  BY <1>1, <1>2, Upward
<1> QED
  BY <1>3 DEF T, GoesUp

\* There is such a function, from n down.
LEMMA IterateDown ==
    ASSUME NEW n, NEW V, NEW a, NEW step, Iteration(step, n, V, a)
    PROVE  \E f : GoesDown(f, step, n, V, a)
<1> USE DEF Iteration
<1> DEFINE up == [d \in 1 .. n |-> step[n + 1 - d]]
<1>1. up \in [1 .. n -> [V -> V]]
  OBVIOUS
<1>2. PICK h \in [0 .. n -> V] : h[0] = a /\ \A d \in 1 .. n : h[d] = up[d][h[d - 1]]
  <2>1. Iteration(up, n, V, a)
    BY <1>1
  <2> HIDE DEF up, Iteration
  <2> QED
    BY <2>1, IterateUp DEF GoesUp
<1> DEFINE f == [d \in 0 .. n |-> h[n - d]]
<1>3. f \in [0 .. n -> V] /\ f[n] = a
  BY <1>2
<1>4. ASSUME NEW d \in 0 .. (n - 1) PROVE f[d] = step[d + 1][f[d + 1]]
  <2>1. n - d \in 1 .. n /\ (n - d) - 1 = n - (d + 1) /\ n + 1 - (n - d) = d + 1
    OBVIOUS
  <2>2. h[n - d] = step[d + 1][h[n - (d + 1)]]
    BY <1>2, <2>1
  <2> QED
    BY <2>2
<1> HIDE DEF f
<1> QED
  BY <1>3, <1>4 DEF GoesDown

-----------------------------------------------------------------------------
(* What the recursive functions of the index arithmetic compute.           *)

Sizes == Nat \ {0}

\* The recursive functions of Prod, get_indices and get_next_indices.
Products(g, D) ==
    CHOOSE p : p = [d \in 0 .. Len(g) |->
                      IF d = 0 THEN 1 ELSE p[d - 1] * (IF d \in D THEN g[d] ELSE 1)]

Rests(g, i) ==
    CHOOSE r : r = [d \in 0 .. Len(g) |-> IF d = Len(g) THEN i ELSE r[d + 1] \div g[d + 1]]

Carries(g, x) ==
    CHOOSE k : k = [d \in 0 .. Len(g) |->
                      IF d = Len(g) THEN TRUE
                      ELSE g[d + 1] = (IF k[d + 1] THEN x[d + 1] + 1 ELSE x[d + 1])]

\* math.prod multiplies the sizes one after the other.
LEMMA ProductsFacts ==
    ASSUME NEW g \in Seq(Sizes), NEW D
    PROVE  /\ Products(g, D) \in [0 .. Len(g) -> Sizes] /\ Products(g, D)[0] = 1
           /\ \A d \in 1 .. Len(g) :
                 Products(g, D)[d] = Products(g, D)[d - 1] * (IF d \in D THEN g[d] ELSE 1)
           /\ Prod(g, D) = Products(g, D)[Len(g)]
<1> DEFINE n == Len(g)
           F(p) == [d \in 0 .. n |->
                      IF d = 0 THEN 1 ELSE p[d - 1] * (IF d \in D THEN g[d] ELSE 1)]
           step == [d \in 1 .. n |-> [x \in Sizes |-> x * (IF d \in D THEN g[d] ELSE 1)]]
<1>0. n \in Nat /\ 1 \in Sizes /\ \A d \in 1 .. n : (IF d \in D THEN g[d] ELSE 1) \in Sizes
  BY DEF Sizes
<1>01. \A x \in Sizes, y \in Sizes : x * y \in Sizes
  BY DEF Sizes
<1>1. step \in [1 .. n -> [Sizes -> Sizes]]
  BY <1>0, <1>01
<1>2. PICK f \in [0 .. n -> Sizes] : f[0] = 1 /\ \A d \in 1 .. n : f[d] = step[d][f[d - 1]]
  <2>1. Iteration(step, n, Sizes, 1)
    BY <1>0, <1>1 DEF Iteration
  <2> HIDE DEF step, n
  <2> QED
    BY <2>1, IterateUp DEF GoesUp
<1>3. f = F(f)
  <2>1. ASSUME NEW d \in 1 .. n PROVE f[d] = f[d - 1] * (IF d \in D THEN g[d] ELSE 1)
    <3>1. f[d - 1] \in Sizes
      BY <1>0
    <3> QED
      BY <1>2, <3>1
  <2>2. ASSUME NEW d \in 0 .. n PROVE f[d] = F(f)[d]
    BY <1>0, <1>2, <2>1
  <2> QED
    BY <2>2
<1>4. Products(g, D) = F(Products(g, D))
  <2> HIDE DEF F
  <2>1. \E p : p = F(p)
    BY <1>3
  <2>2. (CHOOSE p : p = F(p)) = F(CHOOSE p : p = F(p))
    BY <2>1
  <2> USE DEF F
  <2> QED
    BY <2>2 DEF Products
<1> DEFINE q == Products(g, D)
<1>5. /\ DOMAIN q = 0 .. n /\ q[0] = 1 /\ q = [d \in 0 .. n |-> q[d]]
      /\ \A d \in 1 .. n : q[d] = q[d - 1] * (IF d \in D THEN g[d] ELSE 1)
  <2> HIDE DEF q
  <2>1. q = F(q)
    BY <1>4 DEF q
  <2> QED
    BY <1>0, <2>1
<1>6. \A d \in 0 .. n : q[d] \in Sizes
  <2> DEFINE T == {d \in 0 .. n : q[d] \in Sizes}
  <2> HIDE DEF q
  <2>1. 0 \in T
    BY <1>0, <1>5
  <2>2. ASSUME NEW d \in 0 .. (n - 1), d \in T PROVE d + 1 \in T
    <3>1. d + 1 \in 1 .. n /\ (d + 1) - 1 = d
      BY <1>0
    <3>2. q[d + 1] = q[d] * (IF d + 1 \in D THEN g[d + 1] ELSE 1)
      BY <1>5, <3>1
    <3> QED
      BY <1>0, <1>01, <2>2, <3>1, <3>2
  <2> HIDE DEF T
  <2>3. 0 .. n \subseteq T
    BY <1>0, <2>1, <2>2, Upward
  <2> QED
    BY <2>3 DEF T
<1>7. Prod(g, D) = q[n]
  BY DEF Prod, Products
<1> HIDE DEF q
<1>8. q \in [0 .. n -> Sizes]
  BY <1>5, <1>6
<1> QED
  BY <1>5, <1>7, <1>8 DEF q

\* get_indices divides by the sizes from the last dimension to the first.
LEMMA RestsFacts ==
    ASSUME NEW g \in Seq(Sizes), NEW i \in Nat
    PROVE  /\ Rests(g, i) \in [0 .. Len(g) -> Nat] /\ Rests(g, i)[Len(g)] = i
           /\ \A d \in 0 .. (Len(g) - 1) : Rests(g, i)[d] = Rests(g, i)[d + 1] \div g[d + 1]
           /\ get_indices(g, i) = [d \in 1 .. Len(g) |-> Rests(g, i)[d] % g[d]]
<1> DEFINE n == Len(g)
           F(r) == [d \in 0 .. n |-> IF d = n THEN i ELSE r[d + 1] \div g[d + 1]]
           step == [d \in 1 .. n |-> [x \in Nat |-> x \div g[d]]]
<1>0. n \in Nat /\ \A d \in 1 .. n : g[d] \in Sizes
  BY DEF Sizes
<1>01. \A x \in Nat, y \in Sizes : x \div y \in Nat
  BY DEF Sizes
<1>1. step \in [1 .. n -> [Nat -> Nat]]
  BY <1>0, <1>01
<1>2. PICK f \in [0 .. n -> Nat] : f[n] = i /\ \A d \in 0 .. (n - 1) : f[d] = step[d + 1][f[d + 1]]
  <2>1. Iteration(step, n, Nat, i)
    BY <1>0, <1>1 DEF Iteration
  <2> HIDE DEF step, n
  <2> QED
    BY <2>1, IterateDown DEF GoesDown
<1>3. f = F(f)
  <2>1. ASSUME NEW d \in 0 .. (n - 1) PROVE f[d] = f[d + 1] \div g[d + 1]
    <3>1. f[d + 1] \in Nat /\ d + 1 \in 1 .. n
      BY <1>0
    <3> QED
      BY <1>2, <3>1
  <2>2. ASSUME NEW d \in 0 .. n PROVE f[d] = F(f)[d]
    BY <1>0, <1>2, <2>1
  <2> QED
    BY <2>2
<1>4. Rests(g, i) = F(Rests(g, i))
  <2> HIDE DEF F
  <2>1. \E r : r = F(r)
    BY <1>3
  <2>2. (CHOOSE r : r = F(r)) = F(CHOOSE r : r = F(r))
    BY <2>1
  <2> USE DEF F
  <2> QED
    BY <2>2 DEF Rests
<1> DEFINE q == Rests(g, i)
<1>5. /\ DOMAIN q = 0 .. n /\ q[n] = i /\ q = [d \in 0 .. n |-> q[d]]
      /\ \A d \in 0 .. (n - 1) : q[d] = q[d + 1] \div g[d + 1]
  <2> HIDE DEF q
  <2>1. q = F(q)
    BY <1>4 DEF q
  <2> QED
    BY <1>0, <2>1
<1>6. \A d \in 0 .. n : q[d] \in Nat
  <2> DEFINE T == {d \in 0 .. n : q[d] \in Nat}
  <2> HIDE DEF q
  <2>1. n \in T
    BY <1>0, <1>5
  <2>2. ASSUME NEW d \in 0 .. (n - 1), d + 1 \in T PROVE d \in T
    <3>1. d + 1 \in 1 .. n
      BY <1>0
    <3>2. q[d] = q[d + 1] \div g[d + 1]
      BY <1>5
    <3>3. q[d + 1] \in Nat /\ g[d + 1] \in Sizes
      BY <1>0, <2>2, <3>1
    <3>4. q[d] \in Nat
      BY <1>01, <3>2, <3>3
    <3> QED
      BY <1>0, <3>4
  <2> HIDE DEF T
  <2>3. 0 .. n \subseteq T
    BY <1>0, <2>1, <2>2, Downward
  <2> QED
    BY <2>3 DEF T
<1>7. get_indices(g, i) = [d \in 1 .. n |-> q[d] % g[d]]
  BY DEF get_indices, Rests
<1> HIDE DEF q
<1>8. q \in [0 .. n -> Nat]
  BY <1>5, <1>6
<1> QED
  BY <1>5, <1>7, <1>8 DEF q

\* get_next_indices carries from the last dimension to the first.
LEMMA CarriesFacts ==
    ASSUME NEW g \in Seq(Sizes), NEW x
    PROVE  /\ Carries(g, x) \in [0 .. Len(g) -> BOOLEAN] /\ Carries(g, x)[Len(g)] = TRUE
           /\ \A d \in 0 .. (Len(g) - 1) :
                 Carries(g, x)[d] <=>
                   g[d + 1] = (IF Carries(g, x)[d + 1] THEN x[d + 1] + 1 ELSE x[d + 1])
           /\ get_next_indices(g, x) =
                [d \in 1 .. Len(g) |->
                   IF g[d] = (IF Carries(g, x)[d] THEN x[d] + 1 ELSE x[d]) THEN 0
                   ELSE (IF Carries(g, x)[d] THEN x[d] + 1 ELSE x[d])]
<1> DEFINE n == Len(g)
           F(k) == [d \in 0 .. n |->
                      IF d = n THEN TRUE
                      ELSE g[d + 1] = (IF k[d + 1] THEN x[d + 1] + 1 ELSE x[d + 1])]
           step == [d \in 1 .. n |-> [b \in BOOLEAN |-> g[d] = (IF b THEN x[d] + 1 ELSE x[d])]]
<1>0. n \in Nat
  OBVIOUS
<1>1. step \in [1 .. n -> [BOOLEAN -> BOOLEAN]]
  OBVIOUS
<1>2. PICK f \in [0 .. n -> BOOLEAN] :
          f[n] = TRUE /\ \A d \in 0 .. (n - 1) : f[d] = step[d + 1][f[d + 1]]
  <2> DEFINE yes == TRUE
  <2>1. Iteration(step, n, BOOLEAN, yes)
    BY <1>0, <1>1 DEF Iteration
  <2> HIDE DEF step, n, yes
  <2>2. PICK f : GoesDown(f, step, n, BOOLEAN, yes)
    BY <2>1, IterateDown
  <2>3. f \in [0 .. n -> BOOLEAN] /\ f[n] = yes
    BY <2>2 DEF GoesDown
  <2>4. \A d \in 0 .. (n - 1) : f[d] = step[d + 1][f[d + 1]]
    BY <2>2 DEF GoesDown
  <2> QED
    BY <2>3, <2>4 DEF yes
<1>3. f = F(f)
  <2>1. ASSUME NEW d \in 0 .. (n - 1)
        PROVE  f[d] = (g[d + 1] = (IF f[d + 1] THEN x[d + 1] + 1 ELSE x[d + 1]))
    <3>1. f[d + 1] \in BOOLEAN /\ d + 1 \in 1 .. n
      BY <1>0
    <3> QED
      BY <1>2, <3>1
  <2>2. ASSUME NEW d \in 0 .. n PROVE f[d] = F(f)[d]
    BY <1>0, <1>2, <2>1
  <2> QED
    BY <2>2
<1>4. Carries(g, x) = F(Carries(g, x))
  <2> HIDE DEF F
  <2>1. \E k : k = F(k)
    BY <1>3
  <2>2. (CHOOSE k : k = F(k)) = F(CHOOSE k : k = F(k))
    BY <2>1
  <2> USE DEF F
  <2> QED
    BY <2>2 DEF Carries
<1> DEFINE q == Carries(g, x)
<1>5. /\ q \in [0 .. n -> BOOLEAN] /\ q[n] = TRUE
      /\ \A d \in 0 .. (n - 1) : q[d] <=> g[d + 1] = (IF q[d + 1] THEN x[d + 1] + 1 ELSE x[d + 1])
  <2> HIDE DEF q
  <2>1. q = F(q)
    BY <1>4 DEF q
  <2> QED
    BY <1>0, <2>1
<1>6. get_next_indices(g, x) =
         [d \in 1 .. n |-> IF g[d] = (IF q[d] THEN x[d] + 1 ELSE x[d]) THEN 0
                           ELSE (IF q[d] THEN x[d] + 1 ELSE x[d])]
  BY DEF get_next_indices, Carries
<1> QED
  BY <1>5, <1>6

-----------------------------------------------------------------------------
(* Multiplication and division, as the steps below use them.               *)

\* Multiplication is monotone.
LEMMA Multiply ==
    ASSUME NEW a \in Nat, NEW b \in Nat, NEW k \in Nat, a < b
    PROVE  a * k \in Nat /\ b * k \in Nat /\ a * k + k <= b * k
<1> DEFINE c == b - a - 1
<1>1. c \in Nat /\ b = a + 1 + c
  OBVIOUS
<1> HIDE DEF c
<1>2. c * k \in Nat /\ a * k \in Nat /\ (a + 1 + c) * k = a * k + k + c * k
  BY <1>1
<1> QED
  BY <1>1, <1>2

\* A number in base k has one last digit and one rest.
LEMMA DigitsUnique ==
    ASSUME NEW a \in Nat, NEW b \in Nat, NEW k \in Sizes, NEW r \in Nat, NEW q \in Nat,
           r < k, q < k
    PROVE  /\ a < b => a * k + r < b * k + q
           /\ a * k + r = b * k + q => a = b /\ r = q
<1>1. a < b => a * k + k <= b * k
  BY Multiply DEF Sizes
<1>2. b < a => b * k + k <= a * k
  BY Multiply DEF Sizes
<1>3. a * k \in Nat /\ b * k \in Nat /\ k \in Nat
  BY DEF Sizes
<1> QED
  BY <1>1, <1>2, <1>3

\* Division by k takes the last digit away.
LEMMA LastDigit ==
    ASSUME NEW a \in Nat, NEW k \in Sizes
    PROVE  /\ a \div k \in Nat /\ a % k \in Nat /\ a % k < k
           /\ (a \div k) * k + (a % k) = a
  BY DEF Sizes

\* A number below b * k has a rest below b.
LEMMA RestIsLess ==
    ASSUME NEW a \in Nat, NEW b \in Nat, NEW k \in Sizes, a < b * k
    PROVE  a \div k < b
<1>1. a \div k \in Nat /\ a % k \in Nat /\ (a \div k) * k + (a % k) = a
  BY LastDigit
<1> DEFINE c == a \div k
<1> HIDE DEF c
<1>2. c \in Nat /\ c * k <= a /\ c * k \in Nat /\ b * k \in Nat /\ k \in Nat \ {0}
  BY <1>1 DEF c, Sizes
<1>3. b < c => b * k + k <= c * k
  BY <1>2, Multiply
<1>4. b = c => b * k = c * k
  OBVIOUS
<1>5. c < b
  BY <1>2, <1>3, <1>4
<1> QED
  BY <1>5 DEF c

-----------------------------------------------------------------------------
(* The points of a grid are numbers with the sizes as bases.               *)

\* The number of point x in the dimensions up to d, for every d.
Values(g, x) ==
    CHOOSE v : /\ v \in [0 .. Len(g) -> Nat] /\ v[0] = 0
               /\ \A d \in 1 .. Len(g) : v[d] = v[d - 1] * g[d] + x[d]

Number(g, x) == Values(g, x)[Len(g)]

\* A point has an index in each dimension.
LEMMA PointsFacts ==
    ASSUME NEW g \in Seq(Sizes), NEW x
    PROVE  x \in Points(g) <=>
              /\ x \in [1 .. Len(g) -> Nat]
              /\ \A d \in 1 .. Len(g) : x[d] < g[d]
<1>0. \A d \in 1 .. Len(g) : g[d] \in Nat
  BY DEF Sizes
<1> DEFINE top == UNION {0 .. (g[d] - 1) : d \in 1 .. Len(g)}
<1>1. ASSUME x \in Points(g)
      PROVE  x \in [1 .. Len(g) -> Nat] /\ \A d \in 1 .. Len(g) : x[d] < g[d]
  <2>1. x \in [1 .. Len(g) -> top] /\ \A d \in 1 .. Len(g) : x[d] < g[d]
    BY <1>1 DEF Points
  <2>2. top \subseteq Nat
    BY <1>0
  <2> HIDE DEF top
  <2> QED
    BY <2>1, <2>2
<1>2. ASSUME x \in [1 .. Len(g) -> Nat], \A d \in 1 .. Len(g) : x[d] < g[d]
      PROVE  x \in Points(g)
  <2>1. \A d \in 1 .. Len(g) : x[d] \in top
    BY <1>0, <1>2
  <2>2. x \in [1 .. Len(g) -> top]
    <3> HIDE DEF top
    <3> QED
      BY <1>2, <2>1
  <2> QED
    BY <1>2, <2>2 DEF Points
<1> QED
  BY <1>1, <1>2

\* The values of a point follow each other, and are below the products.
LEMMA ValuesFacts ==
    ASSUME NEW g \in Seq(Sizes), NEW x \in Points(g)
    PROVE  /\ Values(g, x) \in [0 .. Len(g) -> Nat] /\ Values(g, x)[0] = 0
           /\ \A d \in 1 .. Len(g) : Values(g, x)[d] = Values(g, x)[d - 1] * g[d] + x[d]
<1> DEFINE n == Len(g)
           step == [d \in 1 .. n |-> [a \in Nat |-> a * g[d] + x[d]]]
           OK(v) == /\ v \in [0 .. n -> Nat] /\ v[0] = 0
                    /\ \A d \in 1 .. n : v[d] = v[d - 1] * g[d] + x[d]
<1>0. n \in Nat /\ \A d \in 1 .. n : g[d] \in Nat /\ x[d] \in Nat
  BY PointsFacts DEF Sizes
<1>1. step \in [1 .. n -> [Nat -> Nat]]
  BY <1>0
<1>2. PICK f : GoesUp(f, step, n, Nat, 0)
  <2>1. Iteration(step, n, Nat, 0)
    BY <1>0, <1>1 DEF Iteration
  <2> HIDE DEF step, n
  <2> QED
    BY <2>1, IterateUp
<1>3. OK(f)
  <2>0. f \in [0 .. n -> Nat] /\ f[0] = 0
    BY <1>2 DEF GoesUp
  <2>1. \A d \in 1 .. n : f[d] = step[d][f[d - 1]]
    <3> HIDE DEF step, n
    <3> QED
      BY <1>2 DEF GoesUp
  <2>2. ASSUME NEW d \in 1 .. n PROVE f[d] = f[d - 1] * g[d] + x[d]
    <3>1. f[d - 1] \in Nat
      <4> HIDE DEF n
      <4>1. n \in Nat
        BY <1>0
      <4>2. d - 1 \in 0 .. n
        BY <4>1
      <4> QED
        BY <2>0, <4>2
    <3>2. step[d][f[d - 1]] = f[d - 1] * g[d] + x[d]
      BY <3>1
    <3> QED
      BY <2>1, <3>2
  <2> QED
    BY <2>0, <2>2
<1>4. OK(CHOOSE v : OK(v))
  <2> HIDE DEF OK
  <2> QED
    BY <1>3
<1> QED
  BY <1>4 DEF Values

\* The sizes of the dimensions up to d, multiplied.
Volumes(g) == Products(g, 1 .. Len(g))

\* One more dimension, one more factor.
LEMMA VolumesFacts ==
    ASSUME NEW g \in Seq(Sizes)
    PROVE  /\ Volumes(g) \in [0 .. Len(g) -> Sizes] /\ Volumes(g)[0] = 1
           /\ \A d \in 0 .. (Len(g) - 1) : Volumes(g)[d + 1] = Volumes(g)[d] * g[d + 1]
           /\ Prod(g, 1 .. Len(g)) = Volumes(g)[Len(g)]
<1> DEFINE n == Len(g)
           D == 1 .. n
<1>0. n \in Nat
  OBVIOUS
<1> HIDE DEF D, n
<1>1. /\ Products(g, D) \in [0 .. Len(g) -> Sizes] /\ Products(g, D)[0] = 1
      /\ \A d \in 1 .. Len(g) :
            Products(g, D)[d] = Products(g, D)[d - 1] * (IF d \in D THEN g[d] ELSE 1)
      /\ Prod(g, D) = Products(g, D)[Len(g)]
  BY ProductsFacts
<1>2. ASSUME NEW d \in 0 .. (n - 1) PROVE Products(g, D)[d + 1] = Products(g, D)[d] * g[d + 1]
  <2>1. d + 1 \in D /\ (d + 1) - 1 = d
    BY <1>0 DEF D
  <2>2. Products(g, D)[d + 1] = Products(g, D)[(d + 1) - 1] * g[d + 1]
    BY <1>1, <2>1 DEF D, n
  <2> QED
    BY <2>1, <2>2
<1>3. Volumes(g) = Products(g, D)
  BY DEF Volumes, D, n
<1> QED
  BY <1>1, <1>2, <1>3 DEF n, D

\* The facts about one more dimension, in one place.
LEMMA OneMore ==
    ASSUME NEW g \in Seq(Sizes), NEW x \in Points(g), NEW d \in 0 .. (Len(g) - 1)
    PROVE  /\ Len(g) \in Nat /\ d \in 0 .. Len(g) /\ d + 1 \in 1 .. Len(g) /\ d + 1 \in 0 .. Len(g)
           /\ g[d + 1] \in Sizes /\ x[d + 1] \in Nat /\ x[d + 1] < g[d + 1]
           /\ Values(g, x)[d] \in Nat /\ Values(g, x)[d + 1] \in Nat
           /\ Values(g, x)[d + 1] = Values(g, x)[d] * g[d + 1] + x[d + 1]
           /\ Volumes(g)[d] \in Sizes /\ Volumes(g)[d + 1] \in Sizes
           /\ Volumes(g)[d + 1] = Volumes(g)[d] * g[d + 1]
<1>1. Len(g) \in Nat
  OBVIOUS
<1>2. d \in 0 .. Len(g) /\ d + 1 \in 1 .. Len(g) /\ d + 1 \in 0 .. Len(g) /\ (d + 1) - 1 = d
  BY <1>1
<1>3. g[d + 1] \in Sizes
  BY <1>2
<1>4. x[d + 1] \in Nat /\ x[d + 1] < g[d + 1]
  BY <1>2, PointsFacts
<1>5. /\ Values(g, x) \in [0 .. Len(g) -> Nat]
      /\ \A e \in 1 .. Len(g) : Values(g, x)[e] = Values(g, x)[e - 1] * g[e] + x[e]
  BY ValuesFacts
<1>6. Values(g, x)[d + 1] = Values(g, x)[d] * g[d + 1] + x[d + 1]
  BY <1>2, <1>5
<1>7. Volumes(g) \in [0 .. Len(g) -> Sizes] /\ Volumes(g)[d + 1] = Volumes(g)[d] * g[d + 1]
  BY VolumesFacts
<1>8. Values(g, x)[d] \in Nat /\ Values(g, x)[d + 1] \in Nat
  BY <1>2, <1>5
<1>9. Volumes(g)[d] \in Sizes /\ Volumes(g)[d + 1] \in Sizes
  BY <1>2, <1>7
<1> QED
  BY <1>1, <1>2, <1>3, <1>4, <1>6, <1>7, <1>8, <1>9

\* The value of a point is below the volume.
LEMMA Bounded ==
    ASSUME NEW g \in Seq(Sizes), NEW x \in Points(g)
    PROVE  \A d \in 0 .. Len(g) : Values(g, x)[d] < Volumes(g)[d]
<1> DEFINE T == {d \in 0 .. Len(g) : Values(g, x)[d] < Volumes(g)[d]}
<1>0. Len(g) \in Nat
  OBVIOUS
<1>1. 0 \in T
  <2>1. Values(g, x)[0] = 0 /\ Volumes(g)[0] = 1
    BY ValuesFacts, VolumesFacts
  <2> QED
    BY <1>0, <2>1
<1>2. ASSUME NEW d \in 0 .. (Len(g) - 1), d \in T PROVE d + 1 \in T
  <2> DEFINE a == Values(g, x)[d]
             b == Volumes(g)[d]
             k == g[d + 1]
             r == x[d + 1]
  <2>1. a < b
    BY <1>2
  <2>2. /\ a \in Nat /\ b \in Nat /\ k \in Nat /\ r \in Nat /\ r < k
        /\ Values(g, x)[d + 1] = a * k + r /\ Volumes(g)[d + 1] = b * k /\ d + 1 \in 0 .. Len(g)
    BY OneMore DEF Sizes
  <2> HIDE DEF a, b, k, r
  <2>3. a * k \in Nat /\ b * k \in Nat /\ a * k + k <= b * k
    BY <2>1, <2>2, Multiply
  <2>4. a * k + r < b * k
    BY <2>2, <2>3
  <2> QED
    BY <2>2, <2>4
<1> HIDE DEF T
<1>3. 0 .. Len(g) \subseteq T
  BY <1>0, <1>1, <1>2, Upward
<1> QED
  BY <1>3 DEF T

\* A point is determined by its number.
LEMMA NumberUnique ==
    ASSUME NEW g \in Seq(Sizes), NEW x \in Points(g), NEW y \in Points(g),
           Number(g, x) = Number(g, y)
    PROVE  x = y
<1> DEFINE T == {d \in 0 .. Len(g) : Values(g, x)[d] = Values(g, y)[d]}
<1>0. Len(g) \in Nat
  OBVIOUS
<1>1. Len(g) \in T
  BY <1>0 DEF Number
<1>2. ASSUME NEW d \in 0 .. (Len(g) - 1), Values(g, x)[d + 1] = Values(g, y)[d + 1]
      PROVE  Values(g, x)[d] = Values(g, y)[d] /\ x[d + 1] = y[d + 1]
  <2>1. /\ g[d + 1] \in Sizes /\ x[d + 1] \in Nat /\ x[d + 1] < g[d + 1]
        /\ Values(g, x)[d] \in Nat
        /\ Values(g, x)[d + 1] = Values(g, x)[d] * g[d + 1] + x[d + 1]
    BY OneMore
  <2>2. /\ y[d + 1] \in Nat /\ y[d + 1] < g[d + 1]
        /\ Values(g, y)[d] \in Nat
        /\ Values(g, y)[d + 1] = Values(g, y)[d] * g[d + 1] + y[d + 1]
    BY OneMore
  <2>3. Values(g, x)[d] * g[d + 1] + x[d + 1] = Values(g, y)[d] * g[d + 1] + y[d + 1]
    BY <1>2, <2>1, <2>2
  <2> QED
    BY <2>1, <2>2, <2>3, DigitsUnique
<1>3. ASSUME NEW d \in 0 .. (Len(g) - 1), d + 1 \in T PROVE d \in T
  BY <1>0, <1>2, <1>3
<1> HIDE DEF T
<1>4. 0 .. Len(g) \subseteq T
  BY <1>0, <1>1, <1>3, Downward
<1>5. ASSUME NEW e \in 1 .. Len(g) PROVE x[e] = y[e]
  <2>1. e - 1 \in 0 .. (Len(g) - 1) /\ (e - 1) + 1 = e /\ e \in 0 .. Len(g)
    BY <1>0
  <2>2. Values(g, x)[e] = Values(g, y)[e]
    BY <1>4, <2>1 DEF T
  <2> QED
    BY <1>2, <2>1, <2>2
<1>6. x \in [1 .. Len(g) -> Nat] /\ y \in [1 .. Len(g) -> Nat]
  BY PointsFacts
<1> QED
  BY <1>5, <1>6

\* Numbers order the points lexicographically.
LEMMA NumberOrders ==
    ASSUME NEW g \in Seq(Sizes), NEW x \in Points(g), NEW y \in Points(g),
           Number(g, x) < Number(g, y)
    PROVE  \E d \in 1 .. Len(g) : x[d] < y[d] /\ \A e \in 1 .. (d - 1) : x[e] = y[e]
<1> DEFINE Goal == \E d \in 1 .. Len(g) : x[d] < y[d] /\ \A e \in 1 .. (d - 1) : x[e] = y[e]
           Same(d) == Values(g, x)[d] = Values(g, y)[d] /\ \A e \in 1 .. d : x[e] = y[e]
           T == {d \in 0 .. Len(g) : Same(d) \/ Values(g, y)[d] < Values(g, x)[d]}
<1> SUFFICES ASSUME ~Goal PROVE FALSE
  OBVIOUS
<1>0. Len(g) \in Nat
  OBVIOUS
<1>1. 0 \in T
  <2>1. Values(g, x)[0] = 0 /\ Values(g, y)[0] = 0
    BY ValuesFacts
  <2> QED
    BY <1>0, <2>1
<1>2. ASSUME NEW d \in 0 .. (Len(g) - 1), d \in T PROVE d + 1 \in T
  <2> DEFINE a == Values(g, x)[d]
             b == Values(g, y)[d]
             k == g[d + 1]
  <2>1. /\ k \in Sizes /\ x[d + 1] \in Nat /\ x[d + 1] < k /\ a \in Nat
        /\ Values(g, x)[d + 1] = a * k + x[d + 1] /\ d + 1 \in 1 .. Len(g) /\ d + 1 \in 0 .. Len(g)
    BY OneMore
  <2>2. /\ y[d + 1] \in Nat /\ y[d + 1] < k /\ b \in Nat
        /\ Values(g, y)[d + 1] = b * k + y[d + 1]
    BY OneMore
  <2>3. CASE b < a
    <3> HIDE DEF a, b, k
    <3>1. b * k + y[d + 1] < a * k + x[d + 1]
      BY <2>1, <2>2, <2>3, DigitsUnique
    <3> QED
      BY <2>1, <2>2, <3>1
  <2>4. CASE Same(d)
    <3>1. a = b /\ \A e \in 1 .. d : x[e] = y[e]
      BY <2>4
    <3>2. \A e \in 1 .. ((d + 1) - 1) : x[e] = y[e]
      BY <3>1
    <3>3. ~(x[d + 1] < y[d + 1])
      BY <2>1, <3>2
    <3>4. CASE x[d + 1] = y[d + 1]
      <4>1. \A e \in 1 .. (d + 1) : x[e] = y[e]
        BY <3>1, <3>4
      <4>2. Values(g, x)[d + 1] = Values(g, y)[d + 1]
        BY <2>1, <2>2, <3>1, <3>4
      <4> QED
        BY <2>1, <4>1, <4>2
    <3>5. CASE y[d + 1] < x[d + 1]
      <4> HIDE DEF a, b, k
      <4>1. a * k \in Nat
        BY <2>1 DEF Sizes
      <4>2. b * k + y[d + 1] < a * k + x[d + 1]
        BY <2>1, <2>2, <3>1, <3>5, <4>1
      <4> QED
        BY <2>1, <2>2, <4>2
    <3> QED
      BY <2>1, <2>2, <3>3, <3>4, <3>5
  <2> QED
    BY <1>2, <2>3, <2>4
<1> HIDE DEF T
<1>3. 0 .. Len(g) \subseteq T
  BY <1>0, <1>1, <1>2, Upward
<1>4. Len(g) \in T
  BY <1>0, <1>3
<1>5. Number(g, x) = Number(g, y) \/ Number(g, y) < Number(g, x)
  BY <1>4 DEF T, Number
<1>6. Number(g, x) \in Nat /\ Number(g, y) \in Nat
  <2>1. Values(g, x) \in [0 .. Len(g) -> Nat] /\ Values(g, y) \in [0 .. Len(g) -> Nat]
    BY ValuesFacts
  <2> QED
    BY <1>0, <2>1 DEF Number
<1> QED
  BY <1>5, <1>6

\* get_indices gives a point of the grid, and the one with the given number if
\* there is one.
LEMMA GetIndices ==
    ASSUME NEW g \in Seq(Sizes), NEW i \in Nat
    PROVE  /\ get_indices(g, i) \in Points(g)
           /\ i < Prod(g, 1 .. Len(g)) => Number(g, get_indices(g, i)) = i
<1> DEFINE n == Len(g)
           R == Rests(g, i)
           x == get_indices(g, i)
<1>0. n \in Nat /\ \A d \in 1 .. n : g[d] \in Sizes
  OBVIOUS
<1>1. R \in [0 .. n -> Nat] /\ R[n] = i
  BY RestsFacts
<1>2. \A d \in 0 .. (n - 1) : R[d] = R[d + 1] \div g[d + 1]
  BY RestsFacts
<1>3. x = [d \in 1 .. n |-> R[d] % g[d]]
  BY RestsFacts
<1> HIDE DEF R, x, n
<1>4. ASSUME NEW d \in 1 .. n PROVE R[d] \in Nat /\ g[d] \in Sizes /\ x[d] = R[d] % g[d]
  <2>1. d \in 0 .. n
    BY <1>0
  <2> QED
    BY <1>0, <1>1, <1>3, <2>1
<1>5. ASSUME NEW d \in 1 .. n PROVE x[d] \in Nat /\ x[d] < g[d]
  BY <1>4, LastDigit
<1>6. x \in Points(g)
  <2>1. x \in [1 .. n -> Nat]
    BY <1>3, <1>5
  <2> QED
    BY <1>5, <2>1, PointsFacts DEF n
<1>7. ASSUME i < Volumes(g)[n] PROVE Number(g, x) = i
  <2> DEFINE S == {d \in 0 .. n : R[d] < Volumes(g)[d]}
  <2>1. n \in S
    BY <1>0, <1>1, <1>7
  <2>2. ASSUME NEW d \in 0 .. (n - 1), d + 1 \in S PROVE d \in S
    <3>1. /\ d + 1 \in 1 .. n /\ Volumes(g)[d] \in Nat
          /\ Volumes(g)[d + 1] = Volumes(g)[d] * g[d + 1]
      BY <1>6, OneMore DEF Sizes, n
    <3>2. R[d + 1] < Volumes(g)[d] * g[d + 1] /\ R[d + 1] \in Nat /\ g[d + 1] \in Sizes
      BY <1>4, <2>2, <3>1
    <3>3. R[d + 1] \div g[d + 1] < Volumes(g)[d]
      BY <3>1, <3>2, RestIsLess
    <3> QED
      BY <1>0, <1>2, <3>3
  <2> HIDE DEF S
  <2>3. 0 .. n \subseteq S
    BY <1>0, <2>1, <2>2, Downward
  <2>4. R[0] = 0
    <3>1. R[0] < Volumes(g)[0] /\ R[0] \in Nat
      BY <1>0, <1>1, <2>3 DEF S
    <3>2. Volumes(g)[0] = 1
      BY VolumesFacts
    <3> QED
      BY <3>1, <3>2
  <2> DEFINE T == {d \in 0 .. n : Values(g, x)[d] = R[d]}
  <2>5. 0 \in T
    <3>1. Values(g, x)[0] = 0
      BY <1>6, ValuesFacts
    <3> QED
      BY <1>0, <2>4, <3>1
  <2>6. ASSUME NEW d \in 0 .. (n - 1), d \in T PROVE d + 1 \in T
    <3>1. /\ d + 1 \in 1 .. n /\ d + 1 \in 0 .. n
          /\ Values(g, x)[d + 1] = Values(g, x)[d] * g[d + 1] + x[d + 1]
      BY <1>6, OneMore DEF n
    <3>2. R[d + 1] \in Nat /\ g[d + 1] \in Sizes /\ x[d + 1] = R[d + 1] % g[d + 1]
      BY <1>4, <3>1
    <3>3. Values(g, x)[d] = R[d + 1] \div g[d + 1]
      BY <1>2, <2>6
    <3>4. (R[d + 1] \div g[d + 1]) * g[d + 1] + (R[d + 1] % g[d + 1]) = R[d + 1]
      BY <3>2, LastDigit
    <3>5. Values(g, x)[d + 1] = R[d + 1]
      BY <3>1, <3>2, <3>3, <3>4
    <3> QED
      BY <3>1, <3>5
  <2> HIDE DEF T
  <2>7. 0 .. n \subseteq T
    BY <1>0, <2>5, <2>6, Upward
  <2>8. n \in T
    BY <1>0, <2>7
  <2> QED
    BY <1>1, <2>8 DEF T, Number, n
<1> QED
  BY <1>6, <1>7, VolumesFacts DEF x, n

\* get_next_indices stays in the grid, and goes to the next number unless the
\* point is the last one.
LEMMA GetNextIndices ==
    ASSUME NEW g \in Seq(Sizes), NEW x \in Points(g)
    PROVE  /\ get_next_indices(g, x) \in Points(g)
           /\ Number(g, x) + 1 < Prod(g, 1 .. Len(g)) =>
                 Number(g, get_next_indices(g, x)) = Number(g, x) + 1
<1> DEFINE n == Len(g)
           C == Carries(g, x)
           c(d) == IF C[d] THEN 1 ELSE 0
           y == get_next_indices(g, x)
<1>0. n \in Nat /\ \A d \in 1 .. n : g[d] \in Sizes /\ x[d] \in Nat /\ x[d] < g[d]
  BY PointsFacts
<1>1. C \in [0 .. n -> BOOLEAN] /\ C[n] = TRUE
  BY CarriesFacts
<1>2. \A d \in 0 .. (n - 1) : C[d] <=> g[d + 1] = (IF C[d + 1] THEN x[d + 1] + 1 ELSE x[d + 1])
  BY CarriesFacts
<1>3. y = [d \in 1 .. n |-> IF g[d] = (IF C[d] THEN x[d] + 1 ELSE x[d]) THEN 0
                            ELSE (IF C[d] THEN x[d] + 1 ELSE x[d])]
  BY CarriesFacts
<1> HIDE DEF C, y, n
<1>4. ASSUME NEW d \in 1 .. n PROVE y[d] \in Nat /\ y[d] < g[d]
  <2>1. y[d] = IF g[d] = (IF C[d] THEN x[d] + 1 ELSE x[d]) THEN 0
                ELSE (IF C[d] THEN x[d] + 1 ELSE x[d])
    BY <1>3
  <2>2. g[d] \in Nat /\ g[d] # 0 /\ x[d] \in Nat /\ x[d] < g[d]
    BY <1>0 DEF Sizes
  <2> QED
    BY <2>1, <2>2
<1>5. y \in Points(g)
  <2>1. y \in [1 .. n -> Nat]
    BY <1>3, <1>4
  <2> QED
    BY <1>4, <2>1, PointsFacts DEF n
<1>6. ASSUME NEW d \in 0 .. (n - 1)
      PROVE  /\ C[d] => y[d + 1] + g[d + 1] = x[d + 1] + c(d + 1)
             /\ ~C[d] => y[d + 1] = x[d + 1] + c(d + 1)
             /\ C[d] => C[d + 1] /\ x[d + 1] + 1 = g[d + 1]
  <2>1. d + 1 \in 1 .. n
    BY <1>0
  <2>2. y[d + 1] = IF g[d + 1] = (IF C[d + 1] THEN x[d + 1] + 1 ELSE x[d + 1]) THEN 0
                    ELSE (IF C[d + 1] THEN x[d + 1] + 1 ELSE x[d + 1])
    BY <1>3, <2>1
  <2>3. g[d + 1] \in Nat /\ x[d + 1] \in Nat /\ x[d + 1] < g[d + 1]
    BY <1>0, <2>1 DEF Sizes
  <2>4. C[d] <=> g[d + 1] = (IF C[d + 1] THEN x[d + 1] + 1 ELSE x[d + 1])
    BY <1>2
  <2> QED
    BY <2>2, <2>3, <2>4
<1>7. ASSUME ~C[0] PROVE Number(g, y) = Number(g, x) + 1
  <2> DEFINE T == {d \in 0 .. n : Values(g, y)[d] = Values(g, x)[d] + c(d)}
  <2>1. 0 \in T
    <3>1. Values(g, x)[0] = 0 /\ Values(g, y)[0] = 0
      BY <1>5, ValuesFacts
    <3> QED
      BY <1>0, <1>7, <3>1
  <2>2. ASSUME NEW d \in 0 .. (n - 1), d \in T PROVE d + 1 \in T
    <3> DEFINE a == Values(g, x)[d]
               b == Values(g, y)[d]
               k == g[d + 1]
               u == x[d + 1]
               v == y[d + 1]
    <3>1. a \in Nat /\ k \in Nat /\ u \in Nat /\ Values(g, x)[d + 1] = a * k + u /\ d + 1 \in 0 .. n
      BY OneMore DEF Sizes, n
    <3>2. b \in Nat /\ v \in Nat /\ Values(g, y)[d + 1] = b * k + v
      BY <1>5, OneMore DEF n
    <3>3. b = a + c(d)
      BY <2>2
    <3>4. (C[d] => v + k = u + c(d + 1)) /\ (~C[d] => v = u + c(d + 1))
      BY <1>6
    <3> HIDE DEF a, b, k, u, v
    <3>5. CASE C[d]
      <4>1. b = a + 1 /\ v + k = u + c(d + 1)
        BY <3>3, <3>4, <3>5
      <4>2. (a + 1) * k = a * k + k /\ a * k \in Nat
        BY <3>1
      <4>3. b * k + v = a * k + u + c(d + 1)
        BY <3>1, <3>2, <4>1, <4>2
      <4> QED
        BY <3>1, <3>2, <4>3
    <3>6. CASE ~C[d]
      <4>1. b = a /\ v = u + c(d + 1) /\ a * k \in Nat
        BY <3>1, <3>2, <3>3, <3>4, <3>6
      <4>2. b * k + v = a * k + u + c(d + 1)
        BY <3>1, <3>2, <4>1
      <4> QED
        BY <3>1, <3>2, <4>2
    <3> QED
      BY <3>5, <3>6
  <2> HIDE DEF T
  <2>3. 0 .. n \subseteq T
    BY <1>0, <2>1, <2>2, Upward
  <2>4. n \in T
    BY <1>0, <2>3
  <2> QED
    BY <1>1, <2>4 DEF T, Number, n
<1>8. ASSUME C[0] PROVE Number(g, x) + 1 = Volumes(g)[n]
  <2> DEFINE T == {d \in 0 .. n : C[d] /\ Values(g, x)[d] + 1 = Volumes(g)[d]}
  <2>1. 0 \in T
    <3>1. Values(g, x)[0] = 0 /\ Volumes(g)[0] = 1
      BY ValuesFacts, VolumesFacts
    <3> QED
      BY <1>0, <1>8, <3>1
  <2>2. ASSUME NEW d \in 0 .. (n - 1), d \in T PROVE d + 1 \in T
    <3> DEFINE a == Values(g, x)[d]
               b == Volumes(g)[d]
               k == g[d + 1]
               u == x[d + 1]
    <3>1. /\ a \in Nat /\ b \in Nat /\ k \in Nat /\ u \in Nat /\ d + 1 \in 0 .. n
          /\ Values(g, x)[d + 1] = a * k + u /\ Volumes(g)[d + 1] = b * k
      BY OneMore DEF Sizes, n
    <3>2. C[d] /\ b = a + 1
      BY <2>2, <3>1
    <3>3. C[d + 1] /\ u + 1 = k
      BY <1>6, <3>2
    <3> HIDE DEF a, b, k, u
    <3>4. (a + 1) * k = a * k + k /\ a * k \in Nat
      BY <3>1
    <3>5. (a * k + u) + 1 = b * k
      BY <3>1, <3>2, <3>3, <3>4
    <3> QED
      BY <3>1, <3>3, <3>5
  <2> HIDE DEF T
  <2>3. 0 .. n \subseteq T
    BY <1>0, <2>1, <2>2, Upward
  <2>4. n \in T
    BY <1>0, <2>3
  <2> QED
    BY <2>4 DEF T, Number, n
<1>9. ASSUME Number(g, x) + 1 < Volumes(g)[n] PROVE Number(g, y) = Number(g, x) + 1
  <2>1. Volumes(g)[n] \in Nat
    BY <1>0, VolumesFacts DEF Sizes, n
  <2>2. ~C[0]
    BY <1>8, <1>9, <2>1
  <2> QED
    BY <1>7, <2>2
<1> QED
  BY <1>5, <1>9, VolumesFacts DEF y, n

-----------------------------------------------------------------------------
(* The parallel dimensions come first.                                     *)

\* _get_parallel_dim_semantics leaves the first k dimensions, for some k.
LEMMA ParallelFirst ==
    ASSUME NEW par \in Seq(BOOLEAN), _get_parallel_dim_semantics(par)
    PROVE  \E k \in 0 .. Len(par) : {d \in 1 .. Len(par) : par[d]} = 1 .. k
<1> DEFINE n == Len(par)
           First(k, d) == \A e \in 1 .. d : par[e] <=> e <= k
           T == {d \in 0 .. n : \E k \in 0 .. d : First(k, d)}
<1>0. n \in Nat
  OBVIOUS
<1>01. \A d \in 2 .. n : par[d] => par[d - 1]
  BY DEF _get_parallel_dim_semantics
<1> HIDE DEF n
<1>1. 0 \in T
  BY <1>0
<1>2. ASSUME NEW d \in 0 .. (n - 1), d \in T PROVE d + 1 \in T
  <2>1. PICK k \in 0 .. d : First(k, d)
    BY <1>2
  <2>2. d + 1 \in 0 .. n
    BY <1>0
  <2>3. CASE par[d + 1]
    <3>1. k = d
      <4>1. CASE d = 0
        BY <4>1
      <4>2. CASE d # 0
        <5>1. d \in 1 .. d /\ d + 1 \in 2 .. n /\ (d + 1) - 1 = d
          BY <1>0, <4>2
        <5>2. par[d]
          BY <1>01, <2>3, <5>1
        <5>3. d <= k
          BY <2>1, <5>1, <5>2
        <5> QED
          BY <5>3
      <4> QED
        BY <4>1, <4>2
    <3>2. First(d + 1, d + 1)
      <4> SUFFICES ASSUME NEW e \in 1 .. (d + 1) PROVE par[e]
        OBVIOUS
      <4>1. CASE e = d + 1
        BY <2>3, <4>1
      <4>2. CASE e # d + 1
        <5>1. e \in 1 .. d
          BY <4>2
        <5> QED
          BY <2>1, <3>1, <5>1
      <4> QED
        BY <4>1, <4>2
    <3>3. d + 1 \in 0 .. (d + 1)
      OBVIOUS
    <3> HIDE DEF First
    <3> QED
      BY <2>2, <3>2, <3>3
  <2>4. CASE ~par[d + 1]
    <3>1. First(k, d + 1)
      <4> SUFFICES ASSUME NEW e \in 1 .. (d + 1) PROVE par[e] <=> e <= k
        OBVIOUS
      <4>1. CASE e = d + 1
        <5>1. ~(e <= k)
          BY <4>1
        <5> QED
          BY <2>4, <4>1, <5>1
      <4>2. CASE e # d + 1
        <5>1. e \in 1 .. d
          BY <4>2
        <5> QED
          BY <2>1, <5>1
      <4> QED
        BY <4>1, <4>2
    <3>2. k \in 0 .. (d + 1)
      OBVIOUS
    <3> HIDE DEF First
    <3> QED
      BY <2>2, <3>1, <3>2
  <2> QED
    BY <2>3, <2>4
<1> HIDE DEF T
<1>3. 0 .. n \subseteq T
  BY <1>0, <1>1, <1>2, Upward
<1>4. PICK k \in 0 .. n : First(k, n)
  <2>1. n \in T
    BY <1>0, <1>3
  <2> HIDE DEF First
  <2> QED
    BY <2>1 DEF T
<1>5. {d \in 1 .. n : par[d]} = 1 .. k
  <2>1. \A e \in 1 .. n : par[e] <=> e <= k
    BY <1>4
  <2>2. \A e : e \in 1 .. k <=> e \in 1 .. n /\ e <= k
    BY <1>0
  <2> QED
    BY <2>1, <2>2
<1> QED
  BY <1>5 DEF n

\* The size of the subgrid of the first k dimensions.
LEMMA SubgridSize ==
    ASSUME NEW g \in Seq(Sizes), NEW k \in 0 .. Len(g)
    PROVE  Prod(g, 1 .. k) = Volumes(g)[k]
<1> DEFINE n == Len(g)
           D == 1 .. k
           upto(d) == IF d <= k THEN d ELSE k
           T == {d \in 0 .. n : Products(g, D)[d] = Volumes(g)[upto(d)]}
<1>0. n \in Nat /\ k \in 0 .. n
  OBVIOUS
<1> HIDE DEF D, n
<1>1. /\ Products(g, D)[0] = 1 /\ Prod(g, D) = Products(g, D)[n]
      /\ \A d \in 1 .. n :
            Products(g, D)[d] = Products(g, D)[d - 1] * (IF d \in D THEN g[d] ELSE 1)
  BY ProductsFacts DEF n
<1>2. /\ Volumes(g) \in [0 .. n -> Sizes] /\ Volumes(g)[0] = 1
      /\ \A d \in 0 .. (n - 1) : Volumes(g)[d + 1] = Volumes(g)[d] * g[d + 1]
  BY VolumesFacts DEF n
<1>3. 0 \in T
  BY <1>0, <1>1, <1>2
<1>4. ASSUME NEW d \in 0 .. (n - 1), d \in T PROVE d + 1 \in T
  <2>1. d + 1 \in 1 .. n /\ (d + 1) - 1 = d /\ d + 1 \in 0 .. n /\ k \in Nat
    BY <1>0
  <2>2. Products(g, D)[d + 1] = Products(g, D)[d] * (IF d + 1 \in D THEN g[d + 1] ELSE 1)
    BY <1>1, <2>1
  <2>3. CASE d + 1 <= k
    <3>1. d + 1 \in D /\ upto(d) = d /\ upto(d + 1) = d + 1
      BY <2>1, <2>3 DEF D
    <3> QED
      BY <1>2, <1>4, <2>1, <2>2, <3>1
  <2>4. CASE ~(d + 1 <= k)
    <3>1. d + 1 \notin D /\ upto(d) = k /\ upto(d + 1) = k
      BY <2>1, <2>4 DEF D
    <3>2. Volumes(g)[k] \in Nat
      BY <1>0, <1>2 DEF Sizes
    <3>3. Volumes(g)[k] * 1 = Volumes(g)[k]
      BY <3>2
    <3> HIDE DEF upto
    <3> QED
      BY <1>4, <2>1, <2>2, <3>1, <3>3
  <2> QED
    BY <2>3, <2>4
<1> HIDE DEF T
<1>5. 0 .. n \subseteq T
  BY <1>0, <1>3, <1>4, Upward
<1>6. n \in T
  BY <1>0, <1>5
<1>7. upto(n) = k
  BY <1>0
<1> HIDE DEF upto
<1> QED
  BY <1>1, <1>6, <1>7 DEF T, D

\* The points with the same first k indices are consecutive: the grid falls into
\* chunks of a points.
LEMMA Chunks ==
    ASSUME NEW g \in Seq(Sizes), NEW k \in 0 .. Len(g)
    PROVE  \E a \in Sizes :
              /\ Volumes(g)[Len(g)] = Volumes(g)[k] * a
              /\ \A x \in Points(g) :
                    \E r \in Nat : r < a /\ Number(g, x) = Values(g, x)[k] * a + r
<1> DEFINE n == Len(g)
           Chunk(a, d) ==
              /\ Volumes(g)[d] = Volumes(g)[k] * a
              /\ \A x \in Points(g) :
                    \E r \in Nat : r < a /\ Values(g, x)[d] = Values(g, x)[k] * a + r
           T == {d \in k .. n : \E a \in Sizes : Chunk(a, d)}
<1>0. n \in Nat /\ k \in Nat /\ k \in k .. n /\ n \in k .. n /\ k .. n \subseteq 0 .. n
  OBVIOUS
<1>01. Volumes(g)[k] \in Nat /\ \A x \in Points(g) : Values(g, x)[k] \in Nat
  BY VolumesFacts, ValuesFacts DEF Sizes
<1> HIDE DEF n
<1>1. k \in T
  <2>1. Volumes(g)[k] = Volumes(g)[k] * 1
    BY <1>01
  <2>2. ASSUME NEW x \in Points(g)
        PROVE  \E r \in Nat : r < 1 /\ Values(g, x)[k] = Values(g, x)[k] * 1 + r
    <3>1. Values(g, x)[k] = Values(g, x)[k] * 1 + 0
      BY <1>01
    <3> QED
      BY <3>1
  <2>3. Chunk(1, k)
    BY <2>1, <2>2
  <2> HIDE DEF Chunk
  <2> QED
    BY <1>0, <2>3 DEF Sizes
<1>2. ASSUME NEW d \in k .. (n - 1), d \in T PROVE d + 1 \in T
  <2>0. d \in 0 .. (n - 1) /\ d + 1 \in k .. n
    BY <1>0
  <2>1. PICK a \in Sizes : Chunk(a, d)
    BY <1>2
  <2> DEFINE s == g[d + 1]
  <2>2. s \in Sizes
    BY <2>0 DEF n
  <2>3. Volumes(g)[d + 1] = Volumes(g)[d] * s
    BY <2>0, VolumesFacts DEF n
  <2> HIDE DEF s
  <2>4. a * s \in Sizes
    BY <2>2 DEF Sizes
  <2>5. Volumes(g)[d + 1] = Volumes(g)[k] * (a * s)
    <3>1. \A u, v, w \in Nat : (u * v) * w = u * (v * w)
      OBVIOUS
    <3>2. Volumes(g)[d] = Volumes(g)[k] * a
      BY <2>1
    <3> QED
      BY <1>01, <2>2, <2>3, <3>1, <3>2 DEF Sizes
  <2>6. ASSUME NEW x \in Points(g)
        PROVE  \E r \in Nat : r < a * s /\ Values(g, x)[d + 1] = Values(g, x)[k] * (a * s) + r
    <3>1. PICK r \in Nat : r < a /\ Values(g, x)[d] = Values(g, x)[k] * a + r
      BY <2>1
    <3> DEFINE v == Values(g, x)[k]
               u == x[d + 1]
    <3>2. u \in Nat /\ u < s /\ Values(g, x)[d + 1] = Values(g, x)[d] * s + u
      BY <2>0, OneMore DEF n, s
    <3>3. v \in Nat /\ a \in Nat /\ s \in Nat
      BY <1>01, <2>2 DEF Sizes
    <3>4. Values(g, x)[d + 1] = (v * a + r) * s + u
      BY <3>1, <3>2
    <3> HIDE DEF u, v
    <3>5. (v * a + r) * s + u = v * (a * s) + (r * s + u)
      BY <3>2, <3>3
    <3>6. r * s + s <= a * s /\ r * s \in Nat /\ a * s \in Nat
      BY <3>1, <3>3, Multiply
    <3>7. r * s + u \in Nat /\ r * s + u < a * s
      BY <3>2, <3>3, <3>6
    <3> QED
      BY <3>4, <3>5, <3>7 DEF v
  <2>7. Chunk(a * s, d + 1)
    BY <2>5, <2>6
  <2> HIDE DEF Chunk
  <2> QED
    BY <2>0, <2>4, <2>7
<1> HIDE DEF T
<1>3. k .. n \subseteq T
  BY <1>0, <1>1, <1>2, Upward
<1>4. PICK a \in Sizes : Chunk(a, n)
  BY <1>0, <1>3 DEF T
<1> QED
  BY <1>4 DEF Number, n

\* The value in dimension k depends on the first k indices only.
LEMMA SamePrefix ==
    ASSUME NEW g \in Seq(Sizes), NEW k \in 0 .. Len(g), NEW x \in Points(g), NEW y \in Points(g),
           \A d \in 1 .. k : x[d] = y[d]
    PROVE  Values(g, x)[k] = Values(g, y)[k]
<1> DEFINE T == {d \in 0 .. k : Values(g, x)[d] = Values(g, y)[d]}
<1>0. Len(g) \in Nat /\ k \in Nat
  OBVIOUS
<1>1. 0 \in T
  BY <1>0, ValuesFacts
<1>2. ASSUME NEW d \in 0 .. (k - 1), d \in T PROVE d + 1 \in T
  <2>1. d \in 0 .. (Len(g) - 1) /\ d + 1 \in 0 .. k /\ d + 1 \in 1 .. k
    BY <1>0
  <2>2. Values(g, x)[d + 1] = Values(g, x)[d] * g[d + 1] + x[d + 1]
    BY <2>1, OneMore
  <2>3. Values(g, y)[d + 1] = Values(g, y)[d] * g[d + 1] + y[d + 1]
    BY <2>1, OneMore
  <2>4. x[d + 1] = y[d + 1] /\ Values(g, x)[d] = Values(g, y)[d]
    BY <1>2, <2>1
  <2> QED
    BY <2>1, <2>2, <2>3, <2>4
<1> HIDE DEF T
<1>3. 0 .. k \subseteq T
  BY <1>0, <1>1, <1>2, Upward
<1> QED
  BY <1>0, <1>3 DEF T

-----------------------------------------------------------------------------
(* The random permutations of the parallel dimensions.                     *)

\* The kernel's configuration does not change.
ConfigOK ==
    /\ grid \in Seq(Sizes)
    /\ parallel \in Seq(BOOLEAN) /\ Len(parallel) = Len(grid)
    /\ _get_parallel_dim_semantics(parallel)
    /\ coordinates \in _get_randomized_grid_coordinates(grid, parallel)
    /\ block \in [Points(grid) -> Blocks]

\* A permutation takes every value.
LEMMA PermutationOnto ==
    ASSUME NEW n \in Sizes, NEW s \in Permutation(n), NEW v \in 0 .. (n - 1)
    PROVE  \E a \in 1 .. n : s[a] = v
<1> SUFFICES ASSUME \A a \in 1 .. n : s[a] # v PROVE FALSE
  OBVIOUS
<1> DEFINE S == 1 .. n
           W == 0 .. (n - 1)
<1>0. n \in Nat /\ 0 \in Int /\ n - 1 \in Int /\ 1 \in Int
  BY DEF Sizes
<1>1. s \in [S -> W] /\ \A a, b \in S : s[a] = s[b] => a = b
  BY DEF Permutation
<1>2. IsFiniteSet(S) /\ Cardinality(S) = n
  BY <1>0, FS_Interval DEF Sizes
<1>3. IsFiniteSet(W) /\ Cardinality(W) = n
  BY <1>0, FS_Interval DEF Sizes
<1>4. v \in W
  OBVIOUS
<1>5. s \in [S -> W \ {v}]
  BY <1>1
<1> HIDE DEF S, W
<1>6. IsFiniteSet(W \ {v}) /\ Cardinality(W \ {v}) = n - 1
  BY <1>3, <1>4, FS_RemoveElement
<1>7. Cardinality(W \ {v}) < Cardinality(S)
  BY <1>0, <1>2, <1>6
<1>8. \E x, y \in S : x # y /\ s[x] = s[y]
  BY <1>2, <1>5, <1>6, <1>7, FS_PigeonHole
<1> QED
  BY <1>1, <1>8

\* The coordinates of one dimension: a permutation if it is parallel, none if not.
LEMMA Coordinates ==
    ASSUME ConfigOK, NEW d \in 1 .. Len(grid)
    PROVE  /\ grid[d] \in Sizes /\ parallel[d] \in BOOLEAN
           /\ parallel[d] => coordinates[d] \in Permutation(grid[d]) /\ coordinates[d] # << >>
           /\ ~parallel[d] => coordinates[d] = << >>
<1>1. grid[d] \in Sizes
  BY DEF ConfigOK
<1>2. parallel[d] \in BOOLEAN
  BY DEF ConfigOK
<1>3. coordinates[d] \in (IF parallel[d] THEN Permutation(grid[d]) ELSE {<< >>})
  BY DEF ConfigOK, _get_randomized_grid_coordinates
<1>4. ASSUME parallel[d] PROVE coordinates[d] # << >>
  <2>1. DOMAIN coordinates[d] = 1 .. grid[d]
    BY <1>3, <1>4 DEF Permutation
  <2>2. 1 \in 1 .. grid[d]
    BY <1>1 DEF Sizes
  <2>3. DOMAIN << >> = {}
    OBVIOUS
  <2> QED
    BY <2>1, <2>2, <2>3
<1> QED
  BY <1>1, <1>2, <1>3, <1>4

\* _get_grid_point permutes the points of the grid, every dimension by itself.
LEMMA GridPoint ==
    ASSUME ConfigOK, NEW x \in Points(grid)
    PROVE  /\ _get_grid_point(x) \in Points(grid)
           /\ \A d \in 1 .. Len(grid) : ~parallel[d] => _get_grid_point(x)[d] = x[d]
           /\ \A y \in Points(grid) : \A d \in 1 .. Len(grid) :
                 _get_grid_point(x)[d] = _get_grid_point(y)[d] => x[d] = y[d]
<1>0. grid \in Seq(Sizes) /\ Len(grid) \in Nat
  BY DEF ConfigOK
<1>1. ASSUME NEW y \in Points(grid), NEW d \in 1 .. Len(grid)
      PROVE  y[d] \in Nat /\ y[d] < grid[d] /\ y[d] + 1 \in 1 .. grid[d]
  <2>1. y[d] \in Nat /\ y[d] < grid[d] /\ grid[d] \in Nat
    BY <1>0, PointsFacts DEF Sizes
  <2> QED
    BY <2>1
<1>2. ASSUME NEW y \in Points(grid), NEW d \in 1 .. Len(grid)
      PROVE  /\ ~parallel[d] => _get_grid_point(y)[d] = y[d]
             /\ parallel[d] => _get_grid_point(y)[d] = coordinates[d][y[d] + 1]
  BY Coordinates DEF _get_grid_point
<1>3. ASSUME NEW d \in 1 .. Len(grid)
      PROVE  _get_grid_point(x)[d] \in Nat /\ _get_grid_point(x)[d] < grid[d]
  <2>1. CASE ~parallel[d]
    BY <1>1, <1>2, <2>1
  <2>2. CASE parallel[d]
    <3>1. coordinates[d] \in [1 .. grid[d] -> 0 .. (grid[d] - 1)] /\ grid[d] \in Nat
      BY <2>2, Coordinates DEF Permutation, Sizes
    <3>2. coordinates[d][x[d] + 1] \in 0 .. (grid[d] - 1)
      BY <1>1, <3>1
    <3> QED
      BY <1>2, <2>2, <3>1, <3>2
  <2> QED
    BY <2>1, <2>2
<1>4. _get_grid_point(x) \in Points(grid)
  <2>1. _get_grid_point(x) = [d \in 1 .. Len(grid) |-> _get_grid_point(x)[d]]
    BY DEF _get_grid_point
  <2>2. _get_grid_point(x) \in [1 .. Len(grid) -> Nat]
    BY <1>3, <2>1
  <2> QED
    BY <1>0, <1>3, <2>2, PointsFacts
<1>5. ASSUME NEW y \in Points(grid), NEW d \in 1 .. Len(grid),
             _get_grid_point(x)[d] = _get_grid_point(y)[d]
      PROVE  x[d] = y[d]
  <2>1. CASE ~parallel[d]
    BY <1>2, <1>5, <2>1
  <2>2. CASE parallel[d]
    <3>1. \A a, b \in 1 .. grid[d] : coordinates[d][a] = coordinates[d][b] => a = b
      BY <2>2, Coordinates DEF Permutation
    <3>2. x[d] + 1 = y[d] + 1
      <4>1. coordinates[d][x[d] + 1] = coordinates[d][y[d] + 1]
        BY <1>2, <1>5, <2>2
      <4>2. x[d] + 1 \in 1 .. grid[d] /\ y[d] + 1 \in 1 .. grid[d]
        BY <1>1
      <4> QED
        BY <3>1, <4>1, <4>2
    <3>3. x[d] \in Nat /\ y[d] \in Nat
      BY <1>1
    <3> QED
      BY <3>2, <3>3
  <2> QED
    BY <2>1, <2>2
<1> QED
  BY <1>2, <1>4, <1>5

\* Every point of the grid is the grid point of a loop index.
LEMMA GridPointOnto ==
    ASSUME ConfigOK, NEW p \in Points(grid)
    PROVE  \E x \in Points(grid) : _get_grid_point(x) = p
<1>0. grid \in Seq(Sizes) /\ Len(grid) \in Nat
  BY DEF ConfigOK
<1>1. /\ p \in [1 .. Len(grid) -> Nat]
      /\ \A d \in 1 .. Len(grid) : p[d] \in Nat /\ p[d] < grid[d]
  BY <1>0, PointsFacts
<1> DEFINE Good(d, v) == /\ v \in Nat /\ v < grid[d]
                         /\ (IF parallel[d] THEN coordinates[d][v + 1] ELSE v) = p[d]
           x == [d \in 1 .. Len(grid) |-> CHOOSE v : Good(d, v)]
<1>2. ASSUME NEW d \in 1 .. Len(grid) PROVE \E v : Good(d, v)
  <2>1. CASE ~parallel[d]
    <3>1. Good(d, p[d])
      BY <1>1, <2>1
    <3> QED
      BY <3>1
  <2>2. CASE parallel[d]
    <3>1. grid[d] \in Sizes /\ grid[d] \in Nat /\ coordinates[d] \in Permutation(grid[d])
      BY <2>2, Coordinates DEF Sizes
    <3>2. p[d] \in 0 .. (grid[d] - 1)
      BY <1>1, <3>1
    <3>3. PICK a \in 1 .. grid[d] : coordinates[d][a] = p[d]
      BY <3>1, <3>2, PermutationOnto
    <3>4. a - 1 \in Nat /\ a - 1 < grid[d] /\ (a - 1) + 1 = a
      BY <3>1
    <3>5. Good(d, a - 1)
      BY <2>2, <3>3, <3>4
    <3> QED
      BY <3>5
  <2> QED
    BY <2>1, <2>2
<1>3. ASSUME NEW d \in 1 .. Len(grid) PROVE Good(d, x[d])
  <2> HIDE DEF Good
  <2>1. x[d] = CHOOSE v : Good(d, v)
    OBVIOUS
  <2> QED
    BY <1>2, <2>1
<1>4. x \in [1 .. Len(grid) -> Nat]
  <2>1. \A d \in 1 .. Len(grid) : x[d] \in Nat
    BY <1>3
  <2>2. x = [d \in 1 .. Len(grid) |-> x[d]]
    <3> HIDE DEF Good
    <3> QED
      OBVIOUS
  <2> HIDE DEF x
  <2> QED
    BY <2>1, <2>2
<1> HIDE DEF x
<1>5. x \in Points(grid)
  BY <1>0, <1>3, <1>4, PointsFacts
<1>6. ASSUME NEW d \in 1 .. Len(grid) PROVE _get_grid_point(x)[d] = p[d]
  BY <1>3, Coordinates DEF _get_grid_point
<1>7. _get_grid_point(x) = p
  <2>1. _get_grid_point(x) \in [1 .. Len(grid) -> Nat]
    BY <1>0, <1>5, GridPoint, PointsFacts
  <2> QED
    BY <1>1, <1>6, <2>1
<1> QED
  BY <1>5, <1>7

-----------------------------------------------------------------------------
(* The ranges of the cores.                                                *)

\* Rounded up, the shares of n cores cover s points.
LEMMA RoundedUp ==
    ASSUME NEW s \in Sizes, NEW n \in Sizes
    PROVE  (s + n - 1) \div n \in Sizes /\ s <= n * ((s + n - 1) \div n)
<1> DEFINE t == s + n - 1
           m == t \div n
           r == t % n
<1>1. t \in Nat /\ s \in Nat /\ n \in Nat /\ s # 0 /\ n # 0
  BY DEF Sizes
<1>2. m \in Nat /\ r \in Nat /\ r < n /\ m * n + r = t
  <2> HIDE DEF t
  <2> QED
    BY <1>1, LastDigit
<1>3. t = s + n - 1
  OBVIOUS
<1> HIDE DEF t, m, r
<1>4. m * n \in Nat /\ m * n = n * m
  BY <1>1, <1>2
<1>5. s <= n * m
  BY <1>1, <1>2, <1>3, <1>4
<1>6. m # 0
  <2>1. m = 0 => n * m = 0
    BY <1>1
  <2> QED
    BY <1>1, <1>5, <2>1
<1> QED
  BY <1>2, <1>5, <1>6 DEF m, t, Sizes

\* The quotient of a product.
LEMMA Quotient ==
    ASSUME NEW s \in Sizes, NEW a \in Nat
    PROVE  (s * a) \div s = a
<1> DEFINE t == s * a
           q == t \div s
           r == t % s
<1>1. t \in Nat /\ s \in Nat /\ s # 0 /\ t = a * s
  BY DEF Sizes
<1> HIDE DEF t
<1>2. q \in Nat /\ r \in Nat /\ r < s /\ q * s + r = t
  BY <1>1, LastDigit
<1> HIDE DEF q, r
<1>3. a * s \in Nat /\ a * s = a * s + 0 /\ 0 < s
  BY <1>1
<1>4. q * s + r = a * s + 0
  BY <1>1, <1>2, <1>3
<1>5. q = a
  BY <1>1, <1>2, <1>3, <1>4, DigitsUnique
<1> QED
  BY <1>5 DEF q, t

\* Iteration i is one of core c.
InRange(c, i) == initial_iteration_idx(c) <= i /\ i < loop_bound(c)

\* What num_iterations and num_iterations_per_core are.
LEMMA PerCore ==
    ASSUME ConfigOK
    PROVE  \E k \in 0 .. Len(grid), a \in Sizes, m \in Sizes :
              /\ {d \in 1 .. Len(grid) : parallel[d]} = 1 .. k
              /\ num_iterations \in Sizes /\ num_iterations = Volumes(grid)[k] * a
              /\ num_iterations_per_core = m * a
              /\ Volumes(grid)[k] \in Sizes /\ num_cores_per_device \in Sizes
              /\ Volumes(grid)[k] <= num_cores_per_device * m
              /\ \A x \in Points(grid) :
                    \E r \in Nat : r < a /\ Number(grid, x) = Values(grid, x)[k] * a + r
<1>0. grid \in Seq(Sizes) /\ Len(grid) \in Nat /\ num_cores_per_device \in Sizes
  BY GridAssumption DEF ConfigOK, Sizes
<1>1. PICK k \in 0 .. Len(grid) : {d \in 1 .. Len(grid) : parallel[d]} = 1 .. k
  <2>1. \E k \in 0 .. Len(parallel) : {d \in 1 .. Len(parallel) : parallel[d]} = 1 .. k
    BY ParallelFirst DEF ConfigOK
  <2> QED
    BY <2>1 DEF ConfigOK
<1>2. PICK a \in Sizes :
              /\ Volumes(grid)[Len(grid)] = Volumes(grid)[k] * a
              /\ \A x \in Points(grid) :
                    \E r \in Nat : r < a /\ Number(grid, x) = Values(grid, x)[k] * a + r
  BY <1>0, Chunks
<1>3. num_iterations = Volumes(grid)[Len(grid)]
  BY <1>0, VolumesFacts DEF num_iterations
<1>4. _get_parallel_subgrid_size = Volumes(grid)[k]
  BY <1>0, <1>1, SubgridSize DEF _get_parallel_subgrid_size
<1>5. Volumes(grid)[k] \in Sizes /\ Volumes(grid)[Len(grid)] \in Sizes
  BY <1>0, VolumesFacts
<1> DEFINE s == Volumes(grid)[k]
           m == (s + num_cores_per_device - 1) \div num_cores_per_device
<1> HIDE DEF s
<1>6. s \in Sizes /\ s = _get_parallel_subgrid_size /\ num_iterations = s * a
  BY <1>2, <1>3, <1>4, <1>5 DEF s
<1>7. m \in Sizes /\ s <= num_cores_per_device * m
  BY <1>0, <1>6, RoundedUp
<1>8. num_iterations \div s = a
  BY <1>6, Quotient DEF Sizes
<1>9. num_iterations_per_core = m * a
  BY <1>6, <1>8 DEF num_iterations_per_core
<1> HIDE DEF m
<1> QED
  BY <1>0, <1>1, <1>2, <1>3, <1>5, <1>6, <1>7, <1>9 DEF s

\* The bounds of a core's loop are numbers.
LEMMA Bounds ==
    ASSUME ConfigOK, NEW c \in Cores
    PROVE  /\ num_iterations \in Sizes /\ num_iterations_per_core \in Sizes
           /\ c \in Nat /\ initial_iteration_idx(c) \in Nat /\ loop_bound(c) \in Nat
           /\ loop_bound(c) <= num_iterations
           /\ loop_bound(c) <= (c + 1) * num_iterations_per_core
           /\ (c + 1) * num_iterations_per_core \in Nat
           /\ \A i \in Nat : i < num_iterations /\ i < (c + 1) * num_iterations_per_core
                                 => i < loop_bound(c)
<1>1. num_iterations \in Nat /\ num_iterations # 0
  BY PerCore DEF Sizes
<1>2. num_iterations_per_core \in Nat /\ num_iterations_per_core # 0
  <2>1. \A m, a \in Sizes : m * a \in Sizes
    BY DEF Sizes
  <2>2. \E m, a \in Sizes : num_iterations_per_core = m * a
    BY PerCore
  <2> QED
    BY <2>1, <2>2 DEF Sizes
<1>3. c \in Nat
  BY GridAssumption DEF Cores
<1> DEFINE p == num_iterations_per_core
<1> HIDE DEF p
<1>4. c * p \in Nat /\ (c + 1) * p \in Nat
  BY <1>2, <1>3 DEF p
<1> QED
  BY <1>1, <1>2, <1>3, <1>4 DEF p, initial_iteration_idx, loop_bound, Sizes

\* Every iteration is one of some core.
LEMMA SomeCore ==
    ASSUME ConfigOK, NEW i \in Nat, i < num_iterations
    PROVE  \E c \in Cores : InRange(c, i)
<1> DEFINE n == num_cores_per_device
           p == num_iterations_per_core
           c == i \div p
<1>0. n \in Sizes /\ p \in Sizes
  <2>1. n \in Sizes /\ 0 \in Cores
    BY GridAssumption DEF Sizes, Cores
  <2> QED
    BY <2>1, Bounds
<1>1. num_iterations <= n * p
  <2>1. PICK s \in Sizes, a \in Sizes, m \in Sizes :
             num_iterations = s * a /\ p = m * a /\ s <= n * m
    BY PerCore
  <2>2. n * m \in Nat /\ s \in Nat /\ a \in Nat /\ m \in Nat /\ n \in Nat
    BY <1>0 DEF Sizes
  <2>3. s * a <= (n * m) * a
    <3> DEFINE u == n * m
    <3>1. u \in Nat /\ s <= u
      BY <2>1, <2>2
    <3> HIDE DEF u
    <3>2. s < u => s * a + a <= u * a
      BY <2>2, <3>1, Multiply
    <3>3. s * a \in Nat /\ u * a \in Nat /\ (s = u => s * a = u * a)
      BY <2>2, <3>1
    <3> QED
      BY <2>2, <3>1, <3>2, <3>3 DEF u
  <2>4. (n * m) * a = n * (m * a)
    BY <2>2
  <2> QED
    BY <2>1, <2>3, <2>4
<1>2. i < n * p
  <2>1. n * p \in Nat /\ num_iterations \in Nat
    <3>1. num_iterations \in Sizes
      BY PerCore
    <3> QED
      BY <1>0, <3>1 DEF Sizes
  <2> QED
    BY <1>1, <2>1
<1> HIDE DEF p, n
<1>3. c < n
  BY <1>0, <1>2, RestIsLess DEF Sizes
<1>4. c \in Nat /\ i % p \in Nat /\ i % p < p /\ c * p + (i % p) = i
  BY <1>0, LastDigit
<1>5. c \in Cores
  BY <1>0, <1>3, <1>4 DEF Cores, n, Sizes
<1> DEFINE r == i % p
<1> HIDE DEF c, r
<1>6. c * p <= i /\ i < (c + 1) * p
  <2>1. c \in Nat /\ r \in Nat /\ r < p /\ c * p + r = i /\ p \in Nat
    BY <1>0, <1>4 DEF r, Sizes
  <2>2. c * p \in Nat /\ (c + 1) * p = c * p + p
    BY <2>1
  <2> QED
    BY <2>1, <2>2
<1>7. i < loop_bound(c)
  BY <1>5, <1>6, Bounds DEF p
<1> QED
  BY <1>5, <1>6, <1>7 DEF InRange, initial_iteration_idx, p

\* An iteration of a core is before all iterations of a later core.
LEMMA CoresApart ==
    ASSUME ConfigOK, NEW c \in Cores, NEW e \in Cores, c < e, NEW i \in Nat, NEW j \in Nat,
           InRange(c, i), InRange(e, j)
    PROVE  i < (c + 1) * num_iterations_per_core /\ (c + 1) * num_iterations_per_core <= j
<1> DEFINE p == num_iterations_per_core
<1>1. c \in Nat /\ e \in Nat /\ p \in Nat
  BY Bounds DEF Sizes
<1>2. i < loop_bound(c) /\ loop_bound(c) \in Nat /\ loop_bound(c) <= (c + 1) * p
  BY Bounds DEF InRange
<1>3. e * p <= j
  BY DEF InRange, initial_iteration_idx
<1> HIDE DEF p
<1>4. (c + 1) * p \in Nat /\ e * p \in Nat
  BY <1>1
<1>5. (c + 1) * p <= e * p
  <2>1. c + 1 < e => (c + 1) * p + p <= e * p
    BY <1>1, Multiply
  <2>2. c + 1 = e => (c + 1) * p = e * p
    OBVIOUS
  <2> QED
    BY <1>1, <1>4, <2>1, <2>2
<1>6. i < (c + 1) * p /\ (c + 1) * p <= j
  BY <1>2, <1>3, <1>4, <1>5
<1> QED
  BY <1>6 DEF p

\* Two points with the same parallel indices are not on two sides of the border
\* between two cores.
LEMMA NoBorder ==
    ASSUME ConfigOK, NEW x \in Points(grid), NEW y \in Points(grid), NEW c \in Nat,
           \A d \in 1 .. Len(grid) : parallel[d] => x[d] = y[d],
           Number(grid, x) < c * num_iterations_per_core,
           c * num_iterations_per_core <= Number(grid, y)
    PROVE  FALSE
<1>0. grid \in Seq(Sizes)
  BY DEF ConfigOK
<1>1. PICK k \in 0 .. Len(grid), a \in Sizes, m \in Sizes :
              /\ {d \in 1 .. Len(grid) : parallel[d]} = 1 .. k
              /\ num_iterations_per_core = m * a
              /\ \A z \in Points(grid) :
                    \E r \in Nat : r < a /\ Number(grid, z) = Values(grid, z)[k] * a + r
  BY PerCore
<1>2. \A d \in 1 .. k : x[d] = y[d]
  BY <1>1
<1>3. Values(grid, x)[k] = Values(grid, y)[k]
  BY <1>0, <1>2, SamePrefix
<1> DEFINE v == Values(grid, x)[k]
           b == c * m
<1>4. v \in Nat
  BY <1>0, ValuesFacts
<1>5. PICK r \in Nat : r < a /\ Number(grid, x) = v * a + r
  BY <1>1
<1>6. PICK q \in Nat : q < a /\ Number(grid, y) = v * a + q
  BY <1>1, <1>3
<1>7. c * num_iterations_per_core = b * a /\ b \in Nat /\ a \in Nat
  BY <1>1 DEF Sizes
<1> HIDE DEF v, b
<1>8. v * a \in Nat /\ b * a \in Nat
  BY <1>4, <1>7
<1>9. v * a + r < b * a /\ b * a <= v * a + q
  BY <1>5, <1>6, <1>7
<1>10. v < b => v * a + a <= b * a
  BY <1>4, <1>7, Multiply
<1>11. b < v => b * a + a <= v * a
  BY <1>4, <1>7, Multiply
<1>12. b = v => b * a = v * a
  OBVIOUS
<1> QED
  BY <1>4, <1>5, <1>6, <1>7, <1>8, <1>9, <1>10, <1>11, <1>12

-----------------------------------------------------------------------------
(* The grid point of an iteration.                                         *)

At(i) == _get_grid_point(get_indices(grid, i))

\* The loop index of an iteration and its number.
LEMMA LoopIndex ==
    ASSUME ConfigOK, NEW i \in Nat
    PROVE  /\ get_indices(grid, i) \in Points(grid) /\ At(i) \in Points(grid)
           /\ get_next_indices(grid, get_indices(grid, i)) \in Points(grid)
           /\ i < num_iterations => Number(grid, get_indices(grid, i)) = i
<1>0. grid \in Seq(Sizes)
  BY DEF ConfigOK
<1>1. get_indices(grid, i) \in Points(grid)
  BY <1>0, GetIndices
<1>2. At(i) \in Points(grid)
  BY <1>1, GridPoint DEF At
<1>3. get_next_indices(grid, get_indices(grid, i)) \in Points(grid)
  BY <1>0, <1>1, GetNextIndices
<1> QED
  BY <1>0, <1>1, <1>2, <1>3, GetIndices DEF num_iterations

\* get_next_indices goes to the loop index of the next iteration.
LEMMA NextLoopIndex ==
    ASSUME ConfigOK, NEW i \in Nat, i + 1 < num_iterations
    PROVE  get_next_indices(grid, get_indices(grid, i)) = get_indices(grid, i + 1)
<1>0. grid \in Seq(Sizes) /\ num_iterations \in Nat
  BY PerCore DEF ConfigOK, Sizes
<1> DEFINE x == get_indices(grid, i)
           y == get_indices(grid, i + 1)
           z == get_next_indices(grid, x)
<1>1. x \in Points(grid) /\ z \in Points(grid) /\ Number(grid, x) = i
  BY <1>0, LoopIndex
<1>2. y \in Points(grid) /\ Number(grid, y) = i + 1
  BY <1>0, LoopIndex
<1> HIDE DEF x, y
<1>3. Number(grid, z) = i + 1
  BY <1>0, <1>1, GetNextIndices DEF num_iterations
<1> HIDE DEF z
<1>4. z = y
  BY <1>0, <1>1, <1>2, <1>3, NumberUnique
<1> QED
  BY <1>4 DEF x, y, z

\* No two iterations have the same grid point.
LEMMA AtUnique ==
    ASSUME ConfigOK, NEW i \in Nat, NEW j \in Nat, i < num_iterations, j < num_iterations,
           At(i) = At(j)
    PROVE  i = j
<1>0. grid \in Seq(Sizes)
  BY DEF ConfigOK
<1> DEFINE x == get_indices(grid, i)
           y == get_indices(grid, j)
<1>1. x \in Points(grid) /\ Number(grid, x) = i
  BY LoopIndex
<1>2. y \in Points(grid) /\ Number(grid, y) = j
  BY LoopIndex
<1>3. _get_grid_point(x) = _get_grid_point(y)
  BY DEF At
<1> HIDE DEF x, y
<1>4. \A d \in 1 .. Len(grid) : x[d] = y[d]
  BY <1>1, <1>2, <1>3, GridPoint
<1>5. x \in [1 .. Len(grid) -> Nat] /\ y \in [1 .. Len(grid) -> Nat]
  BY <1>0, <1>1, <1>2, PointsFacts
<1>6. x = y
  BY <1>4, <1>5
<1> QED
  BY <1>1, <1>2, <1>6

\* Every point is the grid point of an iteration.
LEMMA AtOnto ==
    ASSUME ConfigOK, NEW p \in Points(grid)
    PROVE  \E i \in Nat : i < num_iterations /\ At(i) = p
<1>0. grid \in Seq(Sizes)
  BY DEF ConfigOK
<1>1. PICK x \in Points(grid) : _get_grid_point(x) = p
  BY GridPointOnto
<1> DEFINE i == Number(grid, x)
           y == get_indices(grid, i)
<1>2. i \in Nat /\ i < num_iterations
  <2>1. Values(grid, x) \in [0 .. Len(grid) -> Nat] /\ Len(grid) \in 0 .. Len(grid)
    BY <1>0, ValuesFacts
  <2>2. Values(grid, x)[Len(grid)] < Volumes(grid)[Len(grid)]
    BY <1>0, <2>1, Bounded
  <2> QED
    BY <1>0, <2>1, <2>2, VolumesFacts DEF Number, num_iterations
<1>3. y \in Points(grid) /\ Number(grid, y) = Number(grid, x)
  <2> HIDE DEF i
  <2>1. y \in Points(grid) /\ Number(grid, y) = i
    BY <1>2, LoopIndex
  <2> QED
    BY <2>1 DEF i
<1> HIDE DEF y
<1>4. y = x
  BY <1>0, <1>3, NumberUnique
<1> QED
  BY <1>1, <1>2, <1>4 DEF At, y

\* A parallel index of the grid point is the same when that of the loop index is.
LEMMA SameIndices ==
    ASSUME ConfigOK, NEW i \in Nat, NEW j \in Nat, SameParallelPoint(At(i), At(j))
    PROVE  \A d \in 1 .. Len(grid) :
              parallel[d] => get_indices(grid, i)[d] = get_indices(grid, j)[d]
<1> DEFINE x == get_indices(grid, i)
           y == get_indices(grid, j)
<1>1. x \in Points(grid) /\ y \in Points(grid)
  BY LoopIndex
<1>2. \A d \in 1 .. Len(grid) : parallel[d] => _get_grid_point(x)[d] = _get_grid_point(y)[d]
  BY DEF SameParallelPoint, At
<1> HIDE DEF x, y
<1>3. \A d \in 1 .. Len(grid) : parallel[d] => x[d] = y[d]
  BY <1>1, <1>2, GridPoint
<1> QED
  BY <1>3 DEF x, y

\* The other dimensions are run in order.
LEMMA AtInOrder ==
    ASSUME ConfigOK, NEW i \in Nat, NEW j \in Nat, i < j, j < num_iterations,
           SameParallelPoint(At(i), At(j))
    PROVE  Before(At(i), At(j))
<1>0. grid \in Seq(Sizes) /\ Len(grid) \in Nat /\ num_iterations \in Nat
  BY PerCore DEF ConfigOK, Sizes
<1> DEFINE x == get_indices(grid, i)
           y == get_indices(grid, j)
<1>1. x \in Points(grid) /\ Number(grid, x) = i
  BY <1>0, LoopIndex
<1>2. y \in Points(grid) /\ Number(grid, y) = j
  BY LoopIndex
<1>3. \A d \in 1 .. Len(grid) : parallel[d] => x[d] = y[d]
  BY SameIndices
<1> HIDE DEF x, y
<1>4. PICK d \in 1 .. Len(grid) : x[d] < y[d] /\ \A e \in 1 .. (d - 1) : x[e] = y[e]
  BY <1>0, <1>1, <1>2, NumberOrders
<1>5. ~parallel[d]
  <2>1. x[d] \in Nat /\ y[d] \in Nat
    BY <1>0, <1>1, <1>2, PointsFacts
  <2> QED
    BY <1>3, <1>4, <2>1
<1>6. At(i)[d] < At(j)[d]
  BY <1>1, <1>2, <1>4, <1>5, GridPoint DEF At, x, y
<1>7. ASSUME NEW e \in 1 .. (d - 1) PROVE At(i)[e] = At(j)[e]
  <2>1. e \in 1 .. Len(grid)
    BY <1>0
  <2>2. x[e] = y[e]
    BY <1>4
  <2> QED
    BY <2>1, <2>2 DEF At, _get_grid_point, x, y
<1> QED
  BY <1>6, <1>7 DEF Before

\* Grid points with the same parallel indices are those of one core.
LEMMA AtOneCore ==
    ASSUME ConfigOK, NEW c \in Cores, NEW e \in Cores, NEW i \in Nat, NEW j \in Nat,
           InRange(c, i), InRange(e, j), SameParallelPoint(At(i), At(j))
    PROVE  c = e
<1> DEFINE x == get_indices(grid, i)
           y == get_indices(grid, j)
<1>0. i < num_iterations /\ j < num_iterations
  <2>1. /\ loop_bound(c) \in Nat /\ loop_bound(c) <= num_iterations
        /\ loop_bound(e) \in Nat /\ loop_bound(e) <= num_iterations /\ num_iterations \in Nat
    BY Bounds DEF Sizes
  <2> QED
    BY <2>1 DEF InRange
<1>1. x \in Points(grid) /\ Number(grid, x) = i
  BY <1>0, LoopIndex
<1>2. y \in Points(grid) /\ Number(grid, y) = j
  BY <1>0, LoopIndex
<1>3. \A d \in 1 .. Len(grid) : parallel[d] => x[d] = y[d]
  BY SameIndices
<1>4. c \in Nat /\ e \in Nat /\ c + 1 \in Nat /\ e + 1 \in Nat
  BY GridAssumption DEF Cores
<1> HIDE DEF x, y
<1>5. ~(c < e)
  <2> SUFFICES ASSUME c < e PROVE FALSE
    OBVIOUS
  <2>1. /\ i < (c + 1) * num_iterations_per_core
        /\ (c + 1) * num_iterations_per_core <= j
    BY CoresApart
  <2> QED
    BY <1>1, <1>2, <1>3, <1>4, <2>1, NoBorder
<1>6. ~(e < c)
  <2> SUFFICES ASSUME e < c PROVE FALSE
    OBVIOUS
  <2>1. /\ j < (e + 1) * num_iterations_per_core
        /\ (e + 1) * num_iterations_per_core <= i
    BY CoresApart
  <2>2. \A d \in 1 .. Len(grid) : parallel[d] => y[d] = x[d]
    BY <1>3
  <2> QED
    BY <1>1, <1>2, <1>4, <2>1, <2>2, NoBorder
<1> QED
  BY <1>4, <1>5, <1>6

\* An iteration is one of one core only.
LEMMA OneCore ==
    ASSUME ConfigOK, NEW c \in Cores, NEW e \in Cores, NEW i \in Nat, InRange(c, i), InRange(e, i)
    PROVE  c = e
<1>1. SameParallelPoint(At(i), At(i))
  BY DEF SameParallelPoint
<1> QED
  BY <1>1, AtOneCore

-----------------------------------------------------------------------------
(* The inductive invariant.                                                *)

\* Core c has come to its iteration iteration_idx[c], and ran the body for the
\* ones before it, in the order of the iterations.
LoopOK(c) ==
    /\ initial_iteration_idx(c) <= iteration_idx[c]
    /\ iteration_idx[c] < num_iterations => loop_idx[c] = get_indices(grid, iteration_idx[c])
    /\ pc[c] # "copy_in" => InLoop(c)
    /\ Len(body[c]) = (iteration_idx[c] - initial_iteration_idx(c))
                        + (IF pc[c] \in {"copy_in", "body"} THEN 0 ELSE 1)
    /\ \A j \in 1 .. Len(body[c]) :
          /\ InRange(c, initial_iteration_idx(c) + j - 1)
          /\ body[c][j] = At(initial_iteration_idx(c) + j - 1)

\* prev_in says which block is in the kernel input buffer, and it is the one of
\* the grid point from the copy on.
InputOK(c) ==
    /\ pc[c] = "copy_in" => iteration_idx[c] = initial_iteration_idx(c) \/ kernelIn[c] = prev_in[c]
    /\ pc[c] \in {"body", "copy_out", "check"} => kernelIn[c] = block[grid_point(c)]

\* output_ranges has the blocks of the completed iterations.
RangesOK(c) ==
    /\ Len(output_ranges[c]) = iteration_idx[c] - initial_iteration_idx(c)
    /\ \A j \in 1 .. Len(output_ranges[c]) : output_ranges[c][j] = block[body[c][j]]

\* The iteration of core c is about to be reported as a revisit.
Revisit(c) == pc[c] \in {"copy_out", "check"} /\ VisitedBefore(c)

\* The kernel output buffer has all that was computed for its block.
KernelOutOK(c) ==
    /\ pc[c] \in {"copy_in", "body"} /\ output_ranges[c] # << >> =>
          kernelOut[c] = Visits(c, output_ranges[c][Len(output_ranges[c])])
    /\ pc[c] \in {"copy_out", "check"} /\ ~VisitedBefore(c) =>
          kernelOut[c] = Visits(c, block[grid_point(c)])

\* Core c has copied b to HBM since it last computed for it.
Closed(c, b) ==
    /\ pc[c] \in {"copy_in", "body"} /\ output_ranges[c] # << >>
          /\ b = output_ranges[c][Len(output_ranges[c])] =>
             ~InLoop(c) \/ block[grid_point(c)] # b
    /\ pc[c] = "copy_out" => b # block[grid_point(c)]
    /\ pc[c] = "check" => b # block[grid_point(c)] \/ MustCopyOut(c)

\* No other core has computed for b.
Alone(c, b) == \A e \in Cores \ {c} : Visits(e, b) = {}

\* HBM has all that was computed for a block that was copied.
HbmOK(c) ==
    pc[c] # "RuntimeError" /\ ~Revisit(c) =>
        \A b \in Blocks :
            Visits(c, b) # {} /\ Alone(c, b) /\ Closed(c, b) => hbmOut[b] = Visits(c, b)

OutputOK(c) == RangesOK(c) /\ KernelOutOK(c) /\ HbmOK(c)

LoopInv == ConfigOK /\ TypeOK /\ \A c \in Cores : LoopOK(c)
GridInv == LoopInv /\ \A c \in Cores : InputOK(c) /\ OutputOK(c)

\* The grid of a kernel is one of Grids, so the configuration is well-formed.
LEMMA InitConfig ==
    ASSUME Init
    PROVE  ConfigOK
<1>1. PICK g \in Grids :
          /\ grid = g[1] /\ parallel = g[2]
          /\ coordinates \in _get_randomized_grid_coordinates(g[1], g[2])
          /\ block \in [Points(g[1]) -> Blocks]
  BY DEF Init
<1>2. /\ g[1] \in Seq(Nat \ {0})
      /\ g[2] \in Seq(BOOLEAN) /\ Len(g[2]) = Len(g[1])
      /\ _get_parallel_dim_semantics(g[2])
  BY GridAssumption
<1> QED
  BY <1>1, <1>2 DEF ConfigOK, Sizes

\* Operators on the configuration keep their values.
LEMMA SameConfig ==
    ASSUME UNCHANGED config
    PROVE  /\ ConfigOK => ConfigOK'
           /\ Points(grid)' = Points(grid) /\ num_iterations' = num_iterations /\ block' = block
           /\ \A c : initial_iteration_idx(c)' = initial_iteration_idx(c)
           /\ \A c : loop_bound(c)' = loop_bound(c)
           /\ \A c, i : InRange(c, i)' <=> InRange(c, i)
           /\ \A x : _get_grid_point(x)' = _get_grid_point(x)
           /\ \A i : At(i)' = At(i)
<1>0. grid' = grid /\ parallel' = parallel /\ coordinates' = coordinates /\ block' = block
  BY DEF config
<1>1. ConfigOK => ConfigOK'
  BY <1>0 DEF ConfigOK
<1>2. Points(grid)' = Points(grid) /\ num_iterations' = num_iterations
  BY <1>0 DEF num_iterations
<1>3. num_iterations_per_core' = num_iterations_per_core
  BY <1>0, <1>2 DEF num_iterations_per_core, _get_parallel_subgrid_size
<1>4. /\ \A c : initial_iteration_idx(c)' = initial_iteration_idx(c)
      /\ \A c : loop_bound(c)' = loop_bound(c)
  BY <1>2, <1>3 DEF initial_iteration_idx, loop_bound
<1>5. \A c, i : InRange(c, i)' <=> InRange(c, i)
  BY <1>4 DEF InRange
<1>6. \A x : _get_grid_point(x)' = _get_grid_point(x)
  BY <1>0 DEF _get_grid_point
<1>7. \A i : At(i)' = At(i)
  BY <1>0 DEF At, _get_grid_point
<1> QED
  BY <1>0, <1>1, <1>2, <1>4, <1>5, <1>6, <1>7

\* The variables of core e that a step of another core leaves alone.
Same(e) ==
    /\ pc'[e] = pc[e] /\ iteration_idx'[e] = iteration_idx[e] /\ loop_idx'[e] = loop_idx[e]
    /\ prev_in'[e] = prev_in[e] /\ kernelIn'[e] = kernelIn[e] /\ kernelOut'[e] = kernelOut[e]
    /\ output_ranges'[e] = output_ranges[e] /\ body'[e] = body[e]

\* What the core's types are, in the form the steps need.
LEMMA CoreTypes ==
    ASSUME ConfigOK, TypeOK, NEW c \in Cores
    PROVE  /\ iteration_idx[c] \in Nat /\ loop_idx[c] \in Points(grid)
           /\ grid_point(c) \in Points(grid) /\ block[grid_point(c)] \in Blocks
           /\ next_grid_point(c) \in Points(grid)
           /\ get_next_indices(grid, loop_idx[c]) \in Points(grid)
           /\ body[c] \in Seq(Points(grid)) /\ output_ranges[c] \in Seq(Blocks)
           /\ kernelOut[c] \in SUBSET Points(grid)
<1>1. /\ iteration_idx[c] \in Nat /\ loop_idx[c] \in Points(grid)
      /\ body[c] \in Seq(Points(grid)) /\ output_ranges[c] \in Seq(Blocks)
      /\ kernelOut[c] \in SUBSET Points(grid)
  BY DEF TypeOK
<1>2. grid_point(c) \in Points(grid)
  BY <1>1, GridPoint DEF grid_point
<1>3. block[grid_point(c)] \in Blocks
  BY <1>2 DEF ConfigOK
<1>4. get_next_indices(grid, loop_idx[c]) \in Points(grid)
  BY <1>1, GetNextIndices DEF ConfigOK
<1>5. next_grid_point(c) \in Points(grid)
  BY <1>4, GridPoint DEF next_grid_point
<1> QED
  BY <1>1, <1>2, <1>3, <1>4, <1>5

\* Initially the types are right: get_indices stays in the grid even for a core
\* that has nothing to do.
LEMMA InitTypes ==
    ASSUME Init
    PROVE  LoopInv
<1>0. ConfigOK
  BY InitConfig
<1>1. ASSUME NEW c \in Cores
      PROVE  /\ initial_iteration_idx(c) \in Nat
             /\ get_indices(grid, initial_iteration_idx(c)) \in Points(grid)
             /\ block[_get_grid_point(get_indices(grid, initial_iteration_idx(c)))] \in Blocks
  <2>1. initial_iteration_idx(c) \in Nat
    BY <1>0, Bounds
  <2>2. At(initial_iteration_idx(c)) \in Points(grid)
    BY <1>0, <2>1, LoopIndex
  <2> QED
    BY <1>0, <2>1, <2>2, LoopIndex DEF At, ConfigOK
<1>2. TypeOK
  <2>1. iteration_idx \in [Cores -> Nat]
    BY <1>1 DEF Init
  <2>2. loop_idx \in [Cores -> Points(grid)]
    BY <1>1 DEF Init
  <2>3. prev_in \in [Cores -> Blocks]
    <3>1. prev_in = [c \in Cores |-> block[_get_grid_point(loop_idx[c])]]
      BY DEF Init
    <3>2. \A c \in Cores : loop_idx[c] = get_indices(grid, initial_iteration_idx(c))
      BY DEF Init
    <3> QED
      BY <1>1, <3>1, <3>2
  <2>4. /\ pc \in [Cores -> {"copy_in", "body", "copy_out", "check", "RuntimeError"}]
        /\ kernelIn \in [Cores -> Blocks \cup {NoBlock}]
        /\ kernelOut \in [Cores -> SUBSET Points(grid)]
        /\ hbmOut \in [Blocks -> SUBSET Points(grid)]
    BY DEF Init
  <2>5. output_ranges \in [Cores -> Seq(Blocks)] /\ body \in [Cores -> Seq(Points(grid))]
    <3>1. << >> \in Seq(Blocks) /\ << >> \in Seq(Points(grid))
      OBVIOUS
    <3> QED
      BY <3>1 DEF Init
  <2> QED
    BY <1>0, <2>1, <2>2, <2>3, <2>4, <2>5 DEF TypeOK, ConfigOK
<1>3. ASSUME NEW c \in Cores PROVE LoopOK(c)
  <2>1. /\ iteration_idx[c] = initial_iteration_idx(c) /\ pc[c] = "copy_in" /\ body[c] = << >>
        /\ loop_idx[c] = get_indices(grid, initial_iteration_idx(c))
    BY DEF Init
  <2>2. Len(<< >>) = 0 /\ 1 .. 0 = {}
    OBVIOUS
  <2> QED
    BY <1>1, <2>1, <2>2 DEF LoopOK
<1> QED
  BY <1>0, <1>2, <1>3 DEF LoopInv

\* Every step keeps the types.
LEMMA NextTypes ==
    ASSUME LoopInv, NEW c \in Cores, CopyIn(c) \/ Body(c) \/ CopyOut(c) \/ CheckForRevisiting(c)
    PROVE  TypeOK' /\ UNCHANGED config
<1>0. ConfigOK /\ TypeOK
  BY DEF LoopInv
<1>1. /\ loop_idx[c] \in Points(grid)
      /\ grid_point(c) \in Points(grid) /\ block[grid_point(c)] \in Blocks
      /\ get_next_indices(grid, loop_idx[c]) \in Points(grid)
      /\ body[c] \in Seq(Points(grid)) /\ output_ranges[c] \in Seq(Blocks)
      /\ kernelOut[c] \in SUBSET Points(grid) /\ iteration_idx[c] \in Nat
  BY <1>0, CoreTypes
<1>2. CASE CopyIn(c)
  <2>1. kernelIn' \in [Cores -> Blocks \cup {NoBlock}]
    BY <1>0, <1>1, <1>2 DEF CopyIn, TypeOK
  <2>2. pc' \in [Cores -> {"copy_in", "body", "copy_out", "check", "RuntimeError"}]
    BY <1>0, <1>2 DEF CopyIn, TypeOK
  <2> QED
    BY <1>0, <1>2, <2>1, <2>2 DEF CopyIn, TypeOK, config
<1>3. CASE Body(c)
  <2>1. kernelOut' \in [Cores -> SUBSET Points(grid)]
    BY <1>0, <1>1, <1>3 DEF Body, TypeOK
  <2>2. pc' \in [Cores -> {"copy_in", "body", "copy_out", "check", "RuntimeError"}]
    BY <1>0, <1>3 DEF Body, TypeOK
  <2>3. body' \in [Cores -> Seq(Points(grid))]
    <3>1. Append(body[c], grid_point(c)) \in Seq(Points(grid))
      BY <1>1
    <3> QED
      BY <1>0, <1>3, <3>1 DEF Body, TypeOK
  <2> QED
    BY <1>0, <1>3, <2>1, <2>2, <2>3 DEF Body, TypeOK, config
<1>4. CASE CopyOut(c)
  <2>1. hbmOut' \in [Blocks -> SUBSET Points(grid)]
    BY <1>0, <1>1, <1>4 DEF CopyOut, TypeOK
  <2>2. pc' \in [Cores -> {"copy_in", "body", "copy_out", "check", "RuntimeError"}]
    BY <1>0, <1>4 DEF CopyOut, TypeOK
  <2> QED
    BY <1>0, <1>4, <2>1, <2>2 DEF CopyOut, TypeOK, config
<1>5. CASE CheckForRevisiting(c)
  <2>1. pc' \in [Cores -> {"copy_in", "body", "copy_out", "check", "RuntimeError"}]
    BY <1>0, <1>5 DEF CheckForRevisiting, TypeOK
  <2>2. output_ranges' \in [Cores -> Seq(Blocks)]
    <3>1. Append(output_ranges[c], block[grid_point(c)]) \in Seq(Blocks)
      BY <1>1
    <3>2. \/ output_ranges' = output_ranges
          \/ output_ranges' = [output_ranges EXCEPT
                                ![c] = Append(output_ranges[c], block[grid_point(c)])]
      BY <1>5 DEF CheckForRevisiting
    <3>3. output_ranges \in [Cores -> Seq(Blocks)]
      BY <1>0 DEF TypeOK
    <3> QED
      BY <3>1, <3>2, <3>3
  <2>3. iteration_idx' \in [Cores -> Nat] /\ loop_idx' \in [Cores -> Points(grid)]
    <3>1. iteration_idx' \in [Cores -> Nat]
      <4>1. \/ iteration_idx' = iteration_idx
            \/ iteration_idx' = [iteration_idx EXCEPT ![c] = iteration_idx[c] + 1]
        BY <1>5 DEF CheckForRevisiting
      <4>2. iteration_idx \in [Cores -> Nat] /\ iteration_idx[c] + 1 \in Nat
        BY <1>0, <1>1 DEF TypeOK
      <4> QED
        BY <4>1, <4>2
    <3>2. loop_idx' \in [Cores -> Points(grid)]
      BY <1>0, <1>1, <1>5 DEF CheckForRevisiting, TypeOK
    <3> QED
      BY <3>1, <3>2
  <2>4. prev_in' \in [Cores -> Blocks]
    BY <1>0, <1>1, <1>5 DEF CheckForRevisiting, TypeOK
  <2> QED
    BY <1>0, <1>5, <2>1, <2>2, <2>3, <2>4 DEF CheckForRevisiting, TypeOK, config
<1> QED
  BY <1>2, <1>3, <1>4, <1>5

\* A step of core c leaves the variables of the other cores alone.
LEMMA OthersSame ==
    ASSUME TypeOK, NEW c \in Cores, CopyIn(c) \/ Body(c) \/ CopyOut(c) \/ CheckForRevisiting(c),
           NEW e \in Cores, e # c
    PROVE  Same(e)
<1>1. CASE CopyIn(c)
  BY <1>1 DEF CopyIn, TypeOK, Same
<1>2. CASE Body(c)
  BY <1>2 DEF Body, TypeOK, Same
<1>3. CASE CopyOut(c)
  BY <1>3 DEF CopyOut, TypeOK, Same
<1>4. CASE CheckForRevisiting(c)
  BY <1>4 DEF CheckForRevisiting, TypeOK, Same
<1> QED
  BY <1>1, <1>2, <1>3, <1>4

\* The loop of a core whose variables do not change.
LEMMA SameLoop ==
    ASSUME UNCHANGED config, NEW e \in Cores, LoopOK(e),
           iteration_idx'[e] = iteration_idx[e], loop_idx'[e] = loop_idx[e], body'[e] = body[e],
           \/ pc'[e] = pc[e]
           \/ pc[e] = "copy_in" /\ pc'[e] = "body" /\ InLoop(e)
           \/ pc[e] = "copy_out" /\ pc'[e] = "check"
           \/ pc[e] = "check" /\ pc'[e] = "RuntimeError"
    PROVE  LoopOK(e)'
<1>1. /\ initial_iteration_idx(e)' = initial_iteration_idx(e) /\ loop_bound(e)' = loop_bound(e)
      /\ num_iterations' = num_iterations /\ grid' = grid
      /\ \A i : InRange(e, i)' <=> InRange(e, i)
      /\ \A i : At(i)' = At(i)
  BY SameConfig DEF config
<1>2. InLoop(e)' <=> InLoop(e)
  BY <1>1 DEF InLoop
<1>3. pc'[e] # "copy_in" => InLoop(e)
  BY DEF LoopOK
<1>4. pc'[e] \in {"copy_in", "body"} <=> pc[e] \in {"copy_in", "body"}
  OBVIOUS
<1>5. ASSUME NEW j \in 1 .. Len(body[e])
      PROVE  /\ InRange(e, initial_iteration_idx(e) + j - 1)
             /\ body[e][j] = At(initial_iteration_idx(e) + j - 1)
  BY DEF LoopOK
<1>6. \A j \in 1 .. Len(body'[e]) :
          /\ InRange(e, initial_iteration_idx(e) + j - 1)'
          /\ body'[e][j] = At(initial_iteration_idx(e) + j - 1)'
  <2> SUFFICES ASSUME NEW j \in 1 .. Len(body[e])
               PROVE  /\ InRange(e, initial_iteration_idx(e) + j - 1)'
                      /\ body[e][j] = At(initial_iteration_idx(e) + j - 1)'
    OBVIOUS
  <2>1. InRange(e, initial_iteration_idx(e) + j - 1)'
          <=> InRange(e, initial_iteration_idx(e) + j - 1)
    BY <1>1 DEF InRange
  <2>2. At(initial_iteration_idx(e) + j - 1)' = At(initial_iteration_idx(e) + j - 1)
    BY <1>1 DEF At, _get_grid_point, config
  <2> QED
    BY <1>5, <2>1, <2>2
<1> QED
  BY <1>1, <1>2, <1>3, <1>4, <1>6 DEF LoopOK

\* The body runs for the iteration of the core.
LEMMA BodyLoop ==
    ASSUME LoopInv, UNCHANGED config, NEW c \in Cores, Body(c)
    PROVE  /\ LoopOK(c)' /\ InRange(c, iteration_idx[c]) /\ grid_point(c) = At(iteration_idx[c])
           /\ Len(body[c]) + 1 \in 1 .. num_iterations
<1>0. ConfigOK /\ TypeOK /\ LoopOK(c)
  BY DEF LoopInv
<1> DEFINE o == initial_iteration_idx(c)
           i == iteration_idx[c]
           n == Len(body[c])
<1>1. /\ o \in Nat /\ loop_bound(c) \in Nat /\ loop_bound(c) <= num_iterations
      /\ num_iterations \in Nat
  BY <1>0, Bounds DEF Sizes
<1>2. i \in Nat /\ body[c] \in Seq(Points(grid)) /\ n \in Nat
  BY <1>0, CoreTypes
<1>3. pc[c] = "body" /\ pc'[c] = "copy_out" /\ body'[c] = Append(body[c], grid_point(c))
      /\ iteration_idx'[c] = i /\ loop_idx'[c] = loop_idx[c]
  BY <1>0 DEF Body, TypeOK
<1>4. o <= i /\ i < loop_bound(c) /\ n = i - o
  BY <1>0, <1>1, <1>2, <1>3 DEF LoopOK, InLoop
<1>5. InRange(c, i) /\ i < num_iterations
  BY <1>1, <1>2, <1>4 DEF InRange
<1>6. grid_point(c) = At(i)
  BY <1>0, <1>5 DEF LoopOK, grid_point, At
<1>7. /\ Len(body'[c]) = n + 1 /\ body'[c][n + 1] = At(i) /\ n + 1 \in 1 .. num_iterations
      /\ \A j \in 1 .. n : body'[c][j] = body[c][j]
  <2>1. grid_point(c) \in Points(grid)
    BY <1>0, CoreTypes
  <2> QED
    BY <1>1, <1>2, <1>3, <1>4, <1>5, <1>6, <2>1
<1>8. ASSUME NEW j \in 1 .. (n + 1)
      PROVE  InRange(c, o + j - 1) /\ body'[c][j] = At(o + j - 1)
  <2>1. CASE j = n + 1
    <3>1. o + j - 1 = i
      BY <1>1, <1>2, <1>4, <2>1
    <3> QED
      BY <1>5, <1>7, <2>1, <3>1
  <2>2. CASE j # n + 1
    <3>1. j \in 1 .. n
      BY <1>2, <2>2
    <3> QED
      BY <1>0, <1>7, <3>1 DEF LoopOK
  <2> QED
    BY <2>1, <2>2
<1>9. /\ o' = o /\ loop_bound(c)' = loop_bound(c)
      /\ num_iterations' = num_iterations /\ grid' = grid
  BY SameConfig DEF config
<1>10. ASSUME NEW j \in 1 .. Len(body'[c])
       PROVE  /\ InRange(c, initial_iteration_idx(c) + j - 1)'
              /\ body'[c][j] = At(initial_iteration_idx(c) + j - 1)'
  <2>1. InRange(c, o + j - 1)' <=> InRange(c, o + j - 1)
    BY <1>9 DEF InRange
  <2>2. At(o + j - 1)' = At(o + j - 1)
    BY <1>9 DEF At, _get_grid_point, config
  <2> QED
    BY <1>7, <1>8, <2>1, <2>2
<1>11. LoopOK(c)'
  <2>1. InLoop(c)'
    BY <1>3, <1>4, <1>9 DEF InLoop
  <2>2. (initial_iteration_idx(c) <= iteration_idx[c])'
    BY <1>3, <1>4, <1>9
  <2>3. (iteration_idx[c] < num_iterations => loop_idx[c] = get_indices(grid, iteration_idx[c]))'
    BY <1>0, <1>3, <1>9 DEF LoopOK
  <2>4. Len(body'[c]) = (iteration_idx'[c] - o') + 1
    BY <1>3, <1>4, <1>7, <1>9
  <2> QED
    BY <1>3, <1>10, <2>1, <2>2, <2>3, <2>4 DEF LoopOK
<1> QED
  BY <1>5, <1>6, <1>7, <1>11

\* The loop goes on with the next iteration.
LEMMA CheckLoop ==
    ASSUME LoopInv, UNCHANGED config, NEW c \in Cores, CheckForRevisiting(c), ~VisitedBefore(c)
    PROVE  LoopOK(c)'
<1>0. ConfigOK /\ TypeOK /\ LoopOK(c)
  BY DEF LoopInv
<1> DEFINE o == initial_iteration_idx(c)
           i == iteration_idx[c]
<1>1. /\ o \in Nat /\ loop_bound(c) \in Nat /\ loop_bound(c) <= num_iterations
      /\ num_iterations \in Nat
  BY <1>0, Bounds DEF Sizes
<1>2. i \in Nat
  BY <1>0, CoreTypes
<1>3. /\ pc[c] = "check" /\ pc'[c] = "copy_in" /\ body'[c] = body[c] /\ iteration_idx'[c] = i + 1
      /\ loop_idx'[c] = get_next_indices(grid, loop_idx[c])
  BY <1>0 DEF CheckForRevisiting, TypeOK
<1>4. o <= i /\ i < loop_bound(c) /\ Len(body[c]) = (i - o) + 1
  BY <1>0, <1>3 DEF LoopOK, InLoop
<1>5. i + 1 < num_iterations => loop_idx'[c] = get_indices(grid, i + 1)
  <2> SUFFICES ASSUME i + 1 < num_iterations PROVE loop_idx'[c] = get_indices(grid, i + 1)
    OBVIOUS
  <2>1. loop_idx[c] = get_indices(grid, i)
    BY <1>0, <1>1, <1>2 DEF LoopOK
  <2> HIDE DEF i
  <2> QED
    BY <1>0, <1>2, <1>3, <2>1, NextLoopIndex
<1>6. /\ o' = o /\ num_iterations' = num_iterations /\ grid' = grid
      /\ loop_bound(c)' = loop_bound(c)
  BY SameConfig DEF config
<1>7. ASSUME NEW j \in 1 .. Len(body'[c])
      PROVE  /\ InRange(c, initial_iteration_idx(c) + j - 1)'
             /\ body'[c][j] = At(initial_iteration_idx(c) + j - 1)'
  <2>1. InRange(c, o + j - 1)' <=> InRange(c, o + j - 1)
    BY <1>6 DEF InRange
  <2>2. At(o + j - 1)' = At(o + j - 1)
    BY <1>6 DEF At, _get_grid_point, config
  <2>3. InRange(c, o + j - 1) /\ body[c][j] = At(o + j - 1)
    BY <1>0, <1>3 DEF LoopOK
  <2> QED
    BY <1>3, <2>1, <2>2, <2>3
<1>8. (initial_iteration_idx(c) <= iteration_idx[c])'
  BY <1>1, <1>2, <1>3, <1>4, <1>6
<1>9. (iteration_idx[c] < num_iterations => loop_idx[c] = get_indices(grid, iteration_idx[c]))'
  BY <1>3, <1>5, <1>6
<1>10. Len(body'[c]) = (iteration_idx'[c] - o') + 0
  BY <1>1, <1>2, <1>3, <1>4, <1>6
<1> QED
  BY <1>3, <1>7, <1>8, <1>9, <1>10 DEF LoopOK

\* Every step keeps the loops of the cores in order.
LEMMA NextLoop ==
    ASSUME LoopInv, NEW c \in Cores, CopyIn(c) \/ Body(c) \/ CopyOut(c) \/ CheckForRevisiting(c)
    PROVE  LoopInv'
<1>0. ConfigOK /\ TypeOK /\ LoopOK(c)
  BY DEF LoopInv
<1>1. TypeOK' /\ UNCHANGED config
  BY NextTypes
<1>2. ConfigOK'
  BY <1>0, <1>1, SameConfig
<1>3. ASSUME NEW e \in Cores, e # c PROVE LoopOK(e)'
  <2>1. Same(e) /\ LoopOK(e)
    BY <1>0, <1>3, OthersSame DEF LoopInv
  <2> QED
    BY <1>1, <2>1, SameLoop DEF Same
<1>4. LoopOK(c)'
  <2>1. CASE CopyIn(c)
    <3>1. /\ pc[c] = "copy_in" /\ pc'[c] = "body" /\ InLoop(c) /\ body'[c] = body[c]
          /\ iteration_idx'[c] = iteration_idx[c] /\ loop_idx'[c] = loop_idx[c]
      BY <1>0, <2>1 DEF CopyIn, TypeOK
    <3> QED
      BY <1>0, <1>1, <3>1, SameLoop
  <2>2. CASE Body(c)
    BY <1>1, <2>2, BodyLoop
  <2>3. CASE CopyOut(c)
    <3>1. /\ pc[c] = "copy_out" /\ pc'[c] = "check" /\ body'[c] = body[c]
          /\ iteration_idx'[c] = iteration_idx[c] /\ loop_idx'[c] = loop_idx[c]
      BY <1>0, <2>3 DEF CopyOut, TypeOK
    <3> QED
      BY <1>0, <1>1, <3>1, SameLoop
  <2>4. CASE CheckForRevisiting(c) /\ VisitedBefore(c)
    <3>1. /\ pc[c] = "check" /\ pc'[c] = "RuntimeError" /\ body'[c] = body[c]
          /\ iteration_idx'[c] = iteration_idx[c] /\ loop_idx'[c] = loop_idx[c]
      BY <1>0, <2>4 DEF CheckForRevisiting, TypeOK
    <3> QED
      BY <1>0, <1>1, <3>1, SameLoop
  <2>5. CASE CheckForRevisiting(c) /\ ~VisitedBefore(c)
    BY <1>1, <2>5, CheckLoop
  <2> QED
    BY <2>1, <2>2, <2>3, <2>4, <2>5
<1> QED
  BY <1>1, <1>2, <1>3, <1>4 DEF LoopInv

-----------------------------------------------------------------------------
(* One pass over the grid.                                                 *)

\* What ran as the j-th iteration of a core.
LEMMA BodyAt ==
    ASSUME LoopInv, NEW c \in Cores, NEW j \in DOMAIN body[c]
    PROVE  /\ initial_iteration_idx(c) \in Nat /\ j \in Nat
           /\ initial_iteration_idx(c) + j - 1 \in Nat
           /\ initial_iteration_idx(c) + j - 1 < num_iterations
           /\ InRange(c, initial_iteration_idx(c) + j - 1)
           /\ body[c][j] = At(initial_iteration_idx(c) + j - 1)
<1>0. ConfigOK /\ TypeOK /\ LoopOK(c)
  BY DEF LoopInv
<1>1. body[c] \in Seq(Points(grid))
  BY <1>0, CoreTypes
<1>2. j \in 1 .. Len(body[c]) /\ Len(body[c]) \in Nat
  BY <1>1
<1>3. /\ InRange(c, initial_iteration_idx(c) + j - 1)
      /\ body[c][j] = At(initial_iteration_idx(c) + j - 1)
  BY <1>0, <1>2 DEF LoopOK
<1>4. /\ initial_iteration_idx(c) \in Nat /\ loop_bound(c) \in Nat
      /\ loop_bound(c) <= num_iterations /\ num_iterations \in Nat
  BY <1>0, Bounds DEF Sizes
<1> QED
  BY <1>2, <1>3, <1>4 DEF InRange

\* When all cores have ended, every point was visited exactly once.
LEMMA Everywhere ==
    ASSUME LoopInv, \A c \in Cores : Ended(c), NEW p \in Points(grid)
    PROVE  Cardinality({x \in Cores \X (1 .. num_iterations) :
                            x[2] \in DOMAIN body[x[1]] /\ body[x[1]][x[2]] = p}) = 1
<1>0. ConfigOK /\ TypeOK
  BY DEF LoopInv
<1>1. PICK i \in Nat : i < num_iterations /\ At(i) = p
  BY <1>0, AtOnto
<1>2. PICK c \in Cores : InRange(c, i)
  BY <1>0, <1>1, SomeCore
<1> DEFINE o == initial_iteration_idx(c)
           j == (i - o) + 1
           S == {x \in Cores \X (1 .. num_iterations) :
                     x[2] \in DOMAIN body[x[1]] /\ body[x[1]][x[2]] = p}
<1>3. o \in Nat /\ loop_bound(c) \in Nat /\ num_iterations \in Nat
  BY <1>0, Bounds DEF Sizes
<1>4. o <= i /\ i < loop_bound(c)
  BY <1>2 DEF InRange
<1>5. j \in DOMAIN body[c]
  <2>1. LoopOK(c) /\ pc[c] = "copy_in" /\ ~(iteration_idx[c] < loop_bound(c))
    BY DEF LoopInv, Ended, InLoop
  <2>2. iteration_idx[c] \in Nat /\ body[c] \in Seq(Points(grid))
    BY <1>0, CoreTypes
  <2>3. Len(body[c]) = (iteration_idx[c] - o) + 0
    BY <2>1 DEF LoopOK
  <2>4. j \in 1 .. Len(body[c])
    BY <1>3, <1>4, <2>1, <2>2, <2>3
  <2> QED
    BY <2>2, <2>4
<1>6. body[c][j] = p
  <2>1. body[c][j] = At(o + j - 1)
    BY <1>5, BodyAt
  <2>2. o + j - 1 = i
    BY <1>3
  <2> QED
    BY <1>1, <2>1, <2>2
<1>7. j \in 1 .. num_iterations
  BY <1>1, <1>3, <1>4
<1>8. ASSUME NEW e \in Cores, NEW l \in DOMAIN body[e], body[e][l] = p
      PROVE  e = c /\ l = j
  <2> DEFINE q == initial_iteration_idx(e)
             k == q + l - 1
  <2>1. /\ q \in Nat /\ l \in Nat /\ k \in Nat /\ k < num_iterations /\ InRange(e, k)
        /\ body[e][l] = At(k)
    BY BodyAt
  <2>2. k = i
    <3> HIDE DEF k
    <3> QED
      BY <1>0, <1>1, <1>8, <2>1, AtUnique
  <2>3. e = c
    BY <1>0, <1>2, <2>1, <2>2, OneCore
  <2>4. q = o
    BY <2>3
  <2>5. l = (k - q) + 1
    <3> HIDE DEF q
    <3> QED
      BY <2>1
  <2> QED
    BY <2>2, <2>3, <2>4, <2>5
<1> HIDE DEF j
<1>9. S = {<<c, j>>}
  <2>1. <<c, j>> \in S
    BY <1>5, <1>6, <1>7
  <2>2. ASSUME NEW x \in S PROVE x = <<c, j>>
    <3>1. PICK e \in Cores, l \in 1 .. num_iterations : x = <<e, l>>
      OBVIOUS
    <3>2. l \in DOMAIN body[e] /\ body[e][l] = p
      BY <3>1
    <3>3. e = c /\ l = j
      BY <1>8, <3>2
    <3> QED
      BY <3>1, <3>3
  <2> QED
    BY <2>1, <2>2
<1> QED
  BY <1>9, FS_Singleton

\* The invariant is one pass over the grid.
LEMMA LoopInvIsOnePass ==
    ASSUME LoopInv
    PROVE  OnePassOverGrid
<1>0. ConfigOK /\ TypeOK
  BY DEF LoopInv
<1>1. EveryPointOnce
  BY Everywhere DEF EveryPointOnce
<1>2. ASSUME NEW c \in Cores, NEW e \in Cores, NEW i \in DOMAIN body[c], NEW j \in DOMAIN body[e],
             SameParallelPoint(body[c][i], body[e][j])
      PROVE  c = e /\ (i < j => Before(body[c][i], body[e][j]))
  <2> DEFINE a == initial_iteration_idx(c) + i - 1
             b == initial_iteration_idx(e) + j - 1
  <2>1. /\ a \in Nat /\ InRange(c, a) /\ body[c][i] = At(a)
        /\ i \in Nat /\ initial_iteration_idx(c) \in Nat
    BY BodyAt
  <2>2. b \in Nat /\ InRange(e, b) /\ body[e][j] = At(b) /\ b < num_iterations /\ j \in Nat
    BY BodyAt
  <2>3. c = e
    <3> HIDE DEF a, b
    <3> QED
      BY <1>0, <1>2, <2>1, <2>2, AtOneCore
  <2>4. ASSUME i < j PROVE Before(body[c][i], body[e][j])
    <3>1. a < b
      BY <2>1, <2>2, <2>3, <2>4
    <3> HIDE DEF a, b
    <3> QED
      BY <1>0, <1>2, <2>1, <2>2, <3>1, AtInOrder
  <2> QED
    BY <2>3, <2>4
<1>3. ArbitraryDimensionsInOrder
  BY <1>2 DEF ArbitraryDimensionsInOrder
<1> QED
  BY <1>0, <1>1, <1>3 DEF OnePassOverGrid

\* No step changes anything of the invariant when the variables stay.
LEMMA StutterLoop ==
    ASSUME LoopInv, UNCHANGED vars
    PROVE  LoopInv'
<1>1. UNCHANGED config
  BY DEF vars
<1>2. ConfigOK'
  BY <1>1, SameConfig DEF LoopInv
<1>3. TypeOK'
  BY DEF LoopInv, TypeOK, vars, config
<1>4. ASSUME NEW e \in Cores PROVE LoopOK(e)'
  BY <1>1, SameLoop DEF LoopInv, vars
<1> QED
  BY <1>2, <1>3, <1>4 DEF LoopInv

\* The loops of the cores together are one pass over the grid, for every grid,
\* all permutations of its parallel dimensions and any number of cores
\* (get_indices, get_next_indices, _get_grid_point, _execute_grid_for_core).
THEOREM OnePass == Spec => []OnePassOverGrid
<1>1. Init => LoopInv
  BY InitTypes
<1>2. LoopInv /\ [Next]_vars => LoopInv'
  BY NextLoop, StutterLoop DEF Next
<1>3. LoopInv => OnePassOverGrid
  BY LoopInvIsOnePass
<1> QED
  BY <1>1, <1>2, <1>3, PTL DEF Spec

-----------------------------------------------------------------------------
(* The input and the output blocks.                                        *)

\* What does not change while a core is in one iteration.
LEMMA InIteration ==
    ASSUME UNCHANGED config, NEW e \in Cores, loop_idx'[e] = loop_idx[e],
           iteration_idx'[e] = iteration_idx[e], output_ranges'[e] = output_ranges[e]
    PROVE  /\ grid_point(e)' = grid_point(e) /\ next_grid_point(e)' = next_grid_point(e)
           /\ block' = block /\ initial_iteration_idx(e)' = initial_iteration_idx(e)
           /\ InLoop(e)' <=> InLoop(e)
           /\ VisitedBefore(e)' <=> VisitedBefore(e)
           /\ MustCopyOut(e)' <=> MustCopyOut(e)
<1>1. grid' = grid /\ coordinates' = coordinates /\ block' = block
  BY DEF config
<1>2. grid_point(e)' = grid_point(e) /\ next_grid_point(e)' = next_grid_point(e)
  BY <1>1 DEF grid_point, next_grid_point, _get_grid_point
<1>3. initial_iteration_idx(e)' = initial_iteration_idx(e) /\ loop_bound(e)' = loop_bound(e)
  BY SameConfig
<1>4. InLoop(e)' <=> InLoop(e)
  BY <1>3 DEF InLoop
<1>5. VisitedBefore(e)' <=> VisitedBefore(e)
  BY <1>1, <1>2 DEF VisitedBefore, FirstVisit
<1>6. MustCopyOut(e)' <=> MustCopyOut(e)
  BY <1>1, <1>2, <1>3 DEF MustCopyOut
<1> QED
  BY <1>1, <1>2, <1>3, <1>4, <1>5, <1>6

\* Blocks are copied in when they must be.
LEMMA NextInput ==
    ASSUME LoopInv, \A e \in Cores : InputOK(e),
           NEW c \in Cores, CopyIn(c) \/ Body(c) \/ CopyOut(c) \/ CheckForRevisiting(c)
    PROVE  \A e \in Cores : InputOK(e)'
<1>0. ConfigOK /\ TypeOK /\ InputOK(c)
  BY DEF LoopInv
<1>1. UNCHANGED config /\ block' = block
  BY NextTypes, SameConfig
<1>2. ASSUME NEW e \in Cores, e # c PROVE InputOK(e)'
  <2>1. Same(e)
    BY <1>0, <1>2, OthersSame
  <2>2. grid_point(e)' = grid_point(e) /\ initial_iteration_idx(e)' = initial_iteration_idx(e)
    BY <1>1, <2>1, InIteration DEF Same
  <2>3. InputOK(e)
    OBVIOUS
  <2> QED
    BY <1>1, <2>1, <2>2, <2>3 DEF InputOK, Same
<1>3. InputOK(c)'
  <2>1. CASE CopyIn(c)
    <3>1. /\ pc[c] = "copy_in" /\ pc'[c] = "body"
          /\ kernelIn'[c] = IF MustCopyIn(c) THEN block[grid_point(c)] ELSE kernelIn[c]
          /\ iteration_idx'[c] = iteration_idx[c] /\ loop_idx'[c] = loop_idx[c]
          /\ output_ranges'[c] = output_ranges[c]
      BY <1>0, <2>1 DEF CopyIn, TypeOK
    <3>2. grid_point(c)' = grid_point(c)
      BY <1>1, <3>1, InIteration
    <3>3. kernelIn'[c] = block[grid_point(c)]
      BY <1>0, <3>1 DEF MustCopyIn, InputOK
    <3> QED
      BY <1>1, <3>1, <3>2, <3>3 DEF InputOK
  <2>2. CASE Body(c) \/ CopyOut(c)
    <3>1. /\ pc[c] \in {"body", "copy_out"} /\ pc'[c] \in {"copy_out", "check"}
          /\ kernelIn'[c] = kernelIn[c]
          /\ iteration_idx'[c] = iteration_idx[c] /\ loop_idx'[c] = loop_idx[c]
          /\ output_ranges'[c] = output_ranges[c]
      BY <1>0, <2>2 DEF Body, CopyOut, TypeOK
    <3>2. grid_point(c)' = grid_point(c)
      BY <1>1, <3>1, InIteration
    <3>3. kernelIn[c] = block[grid_point(c)]
      BY <1>0, <3>1 DEF InputOK
    <3> QED
      BY <1>1, <3>1, <3>2, <3>3 DEF InputOK
  <2>3. CASE CheckForRevisiting(c)
    <3>1. /\ pc[c] = "check" /\ kernelIn'[c] = kernelIn[c]
          /\ \/ pc'[c] = "RuntimeError"
             \/ pc'[c] = "copy_in" /\ prev_in'[c] = block[grid_point(c)]
      BY <1>0, <2>3 DEF CheckForRevisiting, TypeOK
    <3>2. kernelIn[c] = block[grid_point(c)]
      BY <1>0, <3>1 DEF InputOK
    <3> QED
      BY <3>1, <3>2 DEF InputOK
  <2> QED
    BY <2>1, <2>2, <2>3
<1> QED
  BY <1>2, <1>3

\* The points of a block stay when the body does not run.
LEMMA VisitsSame ==
    ASSUME block' = block, NEW e, body'[e] = body[e]
    PROVE  \A b : Visits(e, b)' = Visits(e, b)
  BY DEF Visits

\* The body adds a point to its block.
LEMMA VisitsGrow ==
    ASSUME block' = block, NEW e, NEW S, body[e] \in Seq(S), NEW p \in S,
           body'[e] = Append(body[e], p)
    PROVE  \A b : Visits(e, b)' = IF block[p] = b THEN Visits(e, b) \cup {p} ELSE Visits(e, b)
<1> DEFINE s == body[e]
           t == body'[e]
<1>1. /\ DOMAIN s = 1 .. Len(s) /\ Len(s) \in Nat
      /\ DOMAIN t = 1 .. (Len(s) + 1) /\ t[Len(s) + 1] = p
      /\ \A j \in DOMAIN s : t[j] = s[j]
  OBVIOUS
<1>2. DOMAIN t = DOMAIN s \cup {Len(s) + 1}
  BY <1>1
<1> SUFFICES ASSUME NEW b
             PROVE  Visits(e, b)' = IF block[p] = b THEN Visits(e, b) \cup {p} ELSE Visits(e, b)
  OBVIOUS
<1>3. Visits(e, b)' = {t[i] : i \in {k \in DOMAIN t : block[t[k]] = b}}
  BY DEF Visits
<1>4. Visits(e, b) = {s[i] : i \in {k \in DOMAIN s : block[s[k]] = b}}
  BY DEF Visits
<1> HIDE DEF s, t
<1> QED
  BY <1>1, <1>2, <1>3, <1>4

\* A step of another core spoils nothing: it only writes a block it has visited.
LEMMA SameOutput ==
    ASSUME UNCHANGED config, NEW e \in Cores, Same(e), OutputOK(e),
           \A b \in Blocks : hbmOut'[b] = hbmOut[b] \/ ~Alone(e, b)',
           \A f \in Cores : \A b \in Blocks : Visits(f, b) \subseteq Visits(f, b)'
    PROVE  OutputOK(e)'
<1>1. /\ grid_point(e)' = grid_point(e) /\ block' = block
      /\ initial_iteration_idx(e)' = initial_iteration_idx(e)
      /\ InLoop(e)' <=> InLoop(e)
      /\ VisitedBefore(e)' <=> VisitedBefore(e)
      /\ MustCopyOut(e)' <=> MustCopyOut(e)
  BY InIteration DEF Same
<1>2. \A b : Visits(e, b)' = Visits(e, b)
  BY <1>1, VisitsSame DEF Same
<1>3. RangesOK(e)'
  BY <1>1 DEF OutputOK, RangesOK, Same
<1>4. KernelOutOK(e)'
  BY <1>1, <1>2 DEF OutputOK, KernelOutOK, Same, Visits
<1>5. HbmOK(e)'
  <2>1. Revisit(e)' <=> Revisit(e)
    BY <1>1 DEF Revisit, Same
  <2> SUFFICES ASSUME pc[e] # "RuntimeError", ~Revisit(e), NEW b \in Blocks,
                      Visits(e, b) # {}, Alone(e, b)', Closed(e, b)'
               PROVE  hbmOut'[b] = Visits(e, b)
    BY <1>2, <2>1 DEF HbmOK, Same
  <2>2. Closed(e, b)
    BY <1>1 DEF Closed, Same
  <2>3. Alone(e, b)
    BY DEF Alone
  <2>4. hbmOut[b] = Visits(e, b)
    BY <2>2, <2>3 DEF OutputOK, HbmOK
  <2> QED
    BY <2>4
<1> QED
  BY <1>3, <1>4, <1>5 DEF OutputOK

\* The last thing the body did was to run for the grid point of the core.
LEMMA JustRan ==
    ASSUME LoopInv, NEW c \in Cores, pc[c] \in {"copy_out", "check"}
    PROVE  grid_point(c) \in Visits(c, block[grid_point(c)])
<1>0. ConfigOK /\ TypeOK /\ LoopOK(c)
  BY DEF LoopInv
<1> DEFINE o == initial_iteration_idx(c)
           n == Len(body[c])
<1>1. /\ o \in Nat /\ loop_bound(c) \in Nat /\ loop_bound(c) <= num_iterations
      /\ num_iterations \in Nat
  BY <1>0, Bounds DEF Sizes
<1>2. iteration_idx[c] \in Nat /\ body[c] \in Seq(Points(grid))
  BY <1>0, CoreTypes
<1>3. o <= iteration_idx[c] /\ iteration_idx[c] < loop_bound(c) /\ n = (iteration_idx[c] - o) + 1
  BY <1>0 DEF LoopOK, InLoop
<1>4. n \in 1 .. n /\ n \in DOMAIN body[c] /\ o + n - 1 = iteration_idx[c]
  BY <1>1, <1>2, <1>3
<1>5. body[c][n] = At(iteration_idx[c])
  BY <1>0, <1>4 DEF LoopOK
<1>6. loop_idx[c] = get_indices(grid, iteration_idx[c])
  BY <1>0, <1>1, <1>2, <1>3 DEF LoopOK
<1>7. body[c][n] = grid_point(c)
  BY <1>5, <1>6 DEF At, grid_point
<1> QED
  BY <1>4, <1>7 DEF Visits

\* The input copy changes nothing of the output.
LEMMA CopyInOutput ==
    ASSUME LoopInv, UNCHANGED config, NEW c \in Cores, CopyIn(c), OutputOK(c)
    PROVE  OutputOK(c)'
<1>0. /\ pc[c] = "copy_in" /\ pc'[c] = "body" /\ body' = body /\ kernelOut' = kernelOut
      /\ iteration_idx' = iteration_idx /\ loop_idx' = loop_idx /\ hbmOut' = hbmOut
      /\ output_ranges' = output_ranges
  BY DEF CopyIn, LoopInv, TypeOK
<1>1. /\ grid_point(c)' = grid_point(c) /\ block' = block
      /\ initial_iteration_idx(c)' = initial_iteration_idx(c)
      /\ InLoop(c)' <=> InLoop(c)
  BY <1>0, InIteration
<1>2. \A e, b : Visits(e, b)' = Visits(e, b)
  BY <1>0, <1>1 DEF Visits
<1>3. RangesOK(c)'
  BY <1>0, <1>1 DEF OutputOK, RangesOK
<1>4. KernelOutOK(c)'
  BY <1>0, <1>1, <1>2 DEF OutputOK, KernelOutOK, Visits
<1>5. HbmOK(c)'
  <2>1. ~Revisit(c)
    BY <1>0 DEF Revisit
  <2> SUFFICES ASSUME NEW b \in Blocks, Visits(c, b) # {}, Alone(c, b)', Closed(c, b)'
               PROVE  hbmOut[b] = Visits(c, b)
    BY <1>0, <1>2 DEF HbmOK
  <2>2. Closed(c, b)
    BY <1>0, <1>1 DEF Closed
  <2>3. Alone(c, b)
    BY <1>2 DEF Alone
  <2> QED
    BY <1>0, <2>1, <2>2, <2>3 DEF OutputOK, HbmOK
<1> QED
  BY <1>3, <1>4, <1>5 DEF OutputOK

\* The body adds to the block it computes for, which it clears if it is new.
LEMMA BodyOutput ==
    ASSUME LoopInv, UNCHANGED config, NEW c \in Cores, Body(c), OutputOK(c)
    PROVE  OutputOK(c)'
<1> DEFINE p == grid_point(c)
           r == output_ranges[c]
<1>00. ConfigOK /\ TypeOK /\ LoopOK(c)
  BY DEF LoopInv
<1>0. /\ pc[c] = "body" /\ pc'[c] = "copy_out" /\ body'[c] = Append(body[c], p)
      /\ kernelOut'[c] = (IF FirstVisit(c) THEN {} ELSE kernelOut[c]) \cup {p}
      /\ iteration_idx' = iteration_idx /\ loop_idx' = loop_idx /\ hbmOut' = hbmOut
      /\ output_ranges' = output_ranges /\ \A e \in Cores \ {c} : body'[e] = body[e]
  BY <1>00 DEF Body, TypeOK
<1>1. /\ p' = p /\ block' = block
      /\ initial_iteration_idx(c)' = initial_iteration_idx(c)
      /\ InLoop(c)' <=> InLoop(c)
      /\ VisitedBefore(c)' <=> VisitedBefore(c)
  BY <1>0, InIteration
<1>2. /\ p \in Points(grid) /\ body[c] \in Seq(Points(grid)) /\ r \in Seq(Blocks)
      /\ iteration_idx[c] \in Nat /\ block[p] \in Blocks
  BY <1>00, CoreTypes
<1>3. \A b : Visits(c, b)' = IF block[p] = b THEN Visits(c, b) \cup {p} ELSE Visits(c, b)
  <2> HIDE DEF p
  <2>1. block' = block /\ p \in Points(grid) /\ body[c] \in Seq(Points(grid))
        /\ body'[c] = Append(body[c], p)
    BY <1>0, <1>1, <1>2
  <2> QED
    BY <2>1, VisitsGrow
<1>4. /\ Len(r) = Len(body[c]) /\ InLoop(c) /\ Len(r) \in Nat
      /\ \A j \in 1 .. Len(r) : r[j] = block[body[c][j]]
  <2>1. initial_iteration_idx(c) \in Nat
    BY <1>00, Bounds
  <2>2. InLoop(c) /\ Len(body[c]) = (iteration_idx[c] - initial_iteration_idx(c)) + 0
    BY <1>0, <1>00 DEF LoopOK
  <2>3. /\ Len(r) = iteration_idx[c] - initial_iteration_idx(c)
        /\ \A j \in 1 .. Len(r) : r[j] = block[body[c][j]]
    BY DEF OutputOK, RangesOK
  <2> QED
    BY <1>2, <2>1, <2>2, <2>3
<1>5. RangesOK(c)'
  <2>1. \A j \in 1 .. Len(r) : body'[c][j] = body[c][j]
    BY <1>0, <1>2, <1>4
  <2>2. Len(r) = iteration_idx[c] - initial_iteration_idx(c)
    BY DEF OutputOK, RangesOK
  <2> QED
    BY <1>0, <1>1, <1>4, <2>1, <2>2 DEF RangesOK
<1>6. ASSUME ~VisitedBefore(c) PROVE kernelOut'[c] = Visits(c, block[p])'
  <2>1. CASE FirstVisit(c)
    <3>1. \A j \in DOMAIN r : r[j] # block[p]
      BY <1>6, <2>1 DEF VisitedBefore
    <3>2. DOMAIN body[c] = 1 .. Len(r) /\ DOMAIN r = 1 .. Len(r)
      BY <1>2, <1>4
    <3>3. Visits(c, block[p]) = {}
      BY <1>4, <3>1, <3>2 DEF Visits
    <3>4. kernelOut'[c] = {p}
      BY <1>0, <2>1
    <3>5. Visits(c, block[p])' = Visits(c, block[p]) \cup {p}
      BY <1>1, <1>3 DEF Visits
    <3> QED
      BY <3>3, <3>4, <3>5
  <2>2. CASE ~FirstVisit(c)
    <3>1. r # << >> /\ r[Len(r)] = block[p]
      BY <2>2 DEF FirstVisit
    <3>2. kernelOut[c] = Visits(c, r[Len(r)])
      BY <1>0, <3>1 DEF OutputOK, KernelOutOK
    <3>3. kernelOut'[c] = kernelOut[c] \cup {p}
      BY <1>0, <2>2
    <3>5. Visits(c, block[p])' = Visits(c, block[p]) \cup {p}
      BY <1>1, <1>3 DEF Visits
    <3> QED
      BY <3>1, <3>2, <3>3, <3>5
  <2> QED
    BY <2>1, <2>2
<1>7. KernelOutOK(c)'
  <2>1. pc'[c] \notin {"copy_in", "body"}
    BY <1>0
  <2>2. ~VisitedBefore(c) => kernelOut'[c] = Visits(c, block[grid_point(c)])'
    BY <1>6
  <2> QED
    BY <1>1, <2>1, <2>2 DEF KernelOutOK
<1>8. HbmOK(c)'
  <2>1. ~Revisit(c) /\ pc[c] # "RuntimeError"
    BY <1>0 DEF Revisit
  <2> SUFFICES ASSUME NEW b \in Blocks, Visits(c, b)' # {}, Alone(c, b)', Closed(c, b)'
               PROVE  hbmOut[b] = Visits(c, b)'
    BY <1>0 DEF HbmOK
  <2>2. b # block[p]
    BY <1>0, <1>1 DEF Closed
  <2>3. Visits(c, b)' = Visits(c, b)
    BY <1>3, <2>2
  <2>4. Closed(c, b)
    BY <1>0, <2>2 DEF Closed
  <2>5. Alone(c, b)
    <3> SUFFICES ASSUME NEW e \in Cores \ {c} PROVE Visits(e, b) = {}
      BY DEF Alone
    <3>1. Visits(e, b)' = Visits(e, b)
      BY <1>0, <1>1, VisitsSame
    <3> QED
      BY <3>1 DEF Alone
  <2> QED
    BY <2>1, <2>3, <2>4, <2>5 DEF OutputOK, HbmOK
<1> QED
  BY <1>5, <1>7, <1>8 DEF OutputOK

\* The output copy writes all that was computed for the block.
LEMMA CopyOutOutput ==
    ASSUME LoopInv, UNCHANGED config, NEW c \in Cores, CopyOut(c), OutputOK(c)
    PROVE  OutputOK(c)'
<1>00. ConfigOK /\ TypeOK
  BY DEF LoopInv
<1>0. /\ pc[c] = "copy_out" /\ pc'[c] = "check" /\ body' = body /\ kernelOut' = kernelOut
      /\ iteration_idx' = iteration_idx /\ loop_idx' = loop_idx
      /\ output_ranges' = output_ranges
      /\ hbmOut' = IF MustCopyOut(c) THEN [hbmOut EXCEPT ![block[grid_point(c)]] = kernelOut[c]]
                   ELSE hbmOut
  BY <1>00 DEF CopyOut, TypeOK
<1>1. /\ grid_point(c)' = grid_point(c) /\ block' = block
      /\ initial_iteration_idx(c)' = initial_iteration_idx(c)
      /\ VisitedBefore(c)' <=> VisitedBefore(c)
      /\ MustCopyOut(c)' <=> MustCopyOut(c)
  BY <1>0, InIteration
<1>2. \A e, b : Visits(e, b)' = Visits(e, b)
  BY <1>0, <1>1 DEF Visits
<1>3. RangesOK(c)'
  BY <1>0, <1>1 DEF OutputOK, RangesOK
<1>4. KernelOutOK(c)'
  BY <1>0, <1>1, <1>2 DEF OutputOK, KernelOutOK, Visits
<1>5. HbmOK(c)'
  <2> SUFFICES ASSUME ~VisitedBefore(c), NEW b \in Blocks,
                      Visits(c, b) # {}, Alone(c, b)', Closed(c, b)'
               PROVE  hbmOut'[b] = Visits(c, b)
    BY <1>0, <1>1, <1>2 DEF HbmOK, Revisit
  <2>1. Alone(c, b) /\ ~Revisit(c)
    BY <1>2 DEF Alone, Revisit
  <2>2. hbmOut \in [Blocks -> SUBSET Points(grid)]
    BY <1>00 DEF TypeOK
  <2>3. CASE b = block[grid_point(c)]
    <3>1. MustCopyOut(c)
      BY <1>0, <1>1, <2>3 DEF Closed
    <3>2. hbmOut'[b] = kernelOut[c]
      BY <1>0, <2>2, <2>3, <3>1
    <3>3. kernelOut[c] = Visits(c, b)
      BY <1>0, <2>3 DEF OutputOK, KernelOutOK
    <3> QED
      BY <3>2, <3>3
  <2>4. CASE b # block[grid_point(c)]
    <3>1. hbmOut'[b] = hbmOut[b]
      BY <1>0, <2>2, <2>4
    <3>2. Closed(c, b)
      BY <1>0, <2>4 DEF Closed
    <3>3. hbmOut[b] = Visits(c, b)
      BY <1>0, <2>1, <3>2 DEF OutputOK, HbmOK
    <3> QED
      BY <3>1, <3>3
  <2> QED
    BY <2>3, <2>4
<1> QED
  BY <1>3, <1>4, <1>5 DEF OutputOK

\* After the check, a block that is not the one of the next iteration is in HBM.
LEMMA CheckOutput ==
    ASSUME LoopInv, UNCHANGED config, NEW c \in Cores, CheckForRevisiting(c), OutputOK(c)
    PROVE  OutputOK(c)'
<1> DEFINE p == grid_point(c)
           r == output_ranges[c]
<1>00. ConfigOK /\ TypeOK /\ LoopOK(c)
  BY DEF LoopInv
<1>01. block' = block /\ initial_iteration_idx(c)' = initial_iteration_idx(c)
       /\ loop_bound(c)' = loop_bound(c)
  BY SameConfig
<1>0. pc[c] = "check" /\ body' = body /\ kernelOut' = kernelOut /\ hbmOut' = hbmOut
  BY DEF CheckForRevisiting
<1>1. \A e, b : Visits(e, b)' = Visits(e, b)
  BY <1>0, <1>01 DEF Visits
<1>2. CASE VisitedBefore(c)
  <2>1. /\ pc'[c] = "RuntimeError" /\ iteration_idx' = iteration_idx
        /\ output_ranges' = output_ranges
    BY <1>00, <1>2 DEF CheckForRevisiting, TypeOK
  <2>2. RangesOK(c)'
    BY <1>0, <1>01, <2>1 DEF OutputOK, RangesOK
  <2> QED
    BY <2>1, <2>2 DEF OutputOK, KernelOutOK, HbmOK
<1>3. CASE ~VisitedBefore(c)
  <2>0. /\ p \in Points(grid) /\ body[c] \in Seq(Points(grid)) /\ r \in Seq(Blocks)
        /\ iteration_idx[c] \in Nat /\ block[p] \in Blocks
    BY <1>00, CoreTypes
  <2>1. /\ pc'[c] = "copy_in" /\ iteration_idx'[c] = iteration_idx[c] + 1
        /\ output_ranges'[c] = Append(r, block[p])
        /\ loop_idx'[c] = get_next_indices(grid, loop_idx[c])
    BY <1>00, <1>3 DEF CheckForRevisiting, TypeOK
  <2>2. grid_point(c)' = next_grid_point(c)
    BY <2>1 DEF grid_point, next_grid_point, _get_grid_point, config
  <2>3. /\ output_ranges'[c] # << >> /\ Len(output_ranges'[c]) = Len(r) + 1
        /\ output_ranges'[c][Len(r) + 1] = block[p] /\ Len(r) \in Nat
        /\ \A j \in 1 .. Len(r) : output_ranges'[c][j] = r[j]
    BY <2>0, <2>1
  <2>4. /\ initial_iteration_idx(c) \in Nat /\ loop_bound(c) \in Nat
        /\ loop_bound(c) <= num_iterations /\ num_iterations \in Nat
    BY <1>00, Bounds DEF Sizes
  <2>5. /\ Len(r) = iteration_idx[c] - initial_iteration_idx(c)
        /\ \A j \in 1 .. Len(r) : r[j] = block[body[c][j]]
    BY DEF OutputOK, RangesOK
  <2>6. iteration_idx[c] < loop_bound(c)
    BY <1>0, <1>00 DEF LoopOK, InLoop
  <2>7. body[c][Len(r) + 1] = p
    <3>1. Len(body[c]) = (iteration_idx[c] - initial_iteration_idx(c)) + 1
      BY <1>0, <1>00 DEF LoopOK
    <3>2. Len(r) + 1 \in 1 .. Len(body[c]) /\ iteration_idx[c] < num_iterations
      BY <2>0, <2>3, <2>4, <2>5, <2>6, <3>1
    <3>3. initial_iteration_idx(c) + (Len(r) + 1) - 1 = iteration_idx[c]
      BY <2>0, <2>3, <2>4, <2>5
    <3>4. body[c][Len(r) + 1] = At(iteration_idx[c])
      BY <1>00, <3>2, <3>3 DEF LoopOK
    <3>5. loop_idx[c] = get_indices(grid, iteration_idx[c])
      BY <1>00, <3>2 DEF LoopOK
    <3> QED
      BY <3>4, <3>5 DEF At, grid_point
  <2>8. RangesOK(c)'
    <3>1. Len(output_ranges'[c]) = iteration_idx'[c] - initial_iteration_idx(c)
      BY <2>0, <2>1, <2>3, <2>4, <2>5
    <3>2. ASSUME NEW j \in 1 .. (Len(r) + 1) PROVE output_ranges'[c][j] = block[body[c][j]]
      <4>1. CASE j = Len(r) + 1
        BY <2>3, <2>7, <4>1
      <4>2. CASE j # Len(r) + 1
        <5>1. j \in 1 .. Len(r)
          BY <2>3, <4>2
        <5> QED
          BY <2>3, <2>5, <5>1
      <4> QED
        BY <4>1, <4>2
    <3> QED
      BY <1>0, <1>01, <2>3, <3>1, <3>2 DEF RangesOK
  <2>9. KernelOutOK(c)'
    <3>1. kernelOut[c] = Visits(c, block[p])
      BY <1>0, <1>3 DEF OutputOK, KernelOutOK
    <3>2. kernelOut'[c] = Visits(c, output_ranges[c][Len(output_ranges[c])])'
      BY <1>0, <1>01, <2>3, <3>1 DEF Visits
    <3> QED
      BY <2>1, <3>2 DEF KernelOutOK
  <2>10. HbmOK(c)'
    <3> SUFFICES ASSUME NEW b \in Blocks, Visits(c, b) # {}, Alone(c, b)', Closed(c, b)'
                 PROVE  hbmOut[b] = Visits(c, b)
      BY <1>0, <1>1 DEF HbmOK
    <3>1. Alone(c, b) /\ ~Revisit(c)
      BY <1>1, <1>3 DEF Alone, Revisit
    <3>2. b = block[p] => MustCopyOut(c)
      <4> SUFFICES ASSUME b = block[p] PROVE MustCopyOut(c)
        OBVIOUS
      <4>1. ~InLoop(c)' \/ block[next_grid_point(c)] # b
        BY <1>01, <2>1, <2>2, <2>3 DEF Closed
      <4>2. ~InLoop(c)' => iteration_idx[c] + 1 = loop_bound(c)
        BY <1>01, <2>0, <2>1, <2>4, <2>6 DEF InLoop
      <4> QED
        BY <4>1, <4>2 DEF MustCopyOut
    <3>3. Closed(c, b)
      BY <1>0, <3>2 DEF Closed
    <3> QED
      BY <1>0, <3>1, <3>3 DEF OutputOK, HbmOK
  <2> QED
    BY <2>8, <2>9, <2>10 DEF OutputOK
<1> QED
  BY <1>2, <1>3

\* No step takes a point from a block's visits.
LEMMA VisitsMonotone ==
    ASSUME LoopInv, UNCHANGED config,
           NEW c \in Cores, CopyIn(c) \/ Body(c) \/ CopyOut(c) \/ CheckForRevisiting(c),
           NEW e \in Cores, NEW b
    PROVE  Visits(e, b) \subseteq Visits(e, b)'
<1>0. ConfigOK /\ TypeOK /\ block' = block
  BY SameConfig DEF LoopInv
<1>1. CASE Body(c) /\ e = c
  <2> DEFINE p == grid_point(c)
  <2>1. p \in Points(grid) /\ body[c] \in Seq(Points(grid))
    BY <1>0, CoreTypes
  <2>2. body'[c] = Append(body[c], p)
    BY <1>0, <1>1 DEF Body, TypeOK
  <2> HIDE DEF p
  <2>3. Visits(c, b)' = IF block[p] = b THEN Visits(c, b) \cup {p} ELSE Visits(c, b)
    BY <1>0, <2>1, <2>2, VisitsGrow
  <2> QED
    BY <1>1, <2>3
<1>2. CASE ~(Body(c) /\ e = c)
  <2>1. body'[e] = body[e]
    BY <1>0, <1>2 DEF CopyIn, Body, CopyOut, CheckForRevisiting, TypeOK
  <2> QED
    BY <1>0, <2>1, VisitsSame
<1> QED
  BY <1>1, <1>2

\* A step of core c writes a block in HBM only after it has computed for it.
LEMMA WritesItsOwn ==
    ASSUME LoopInv, UNCHANGED config,
           NEW c \in Cores, CopyIn(c) \/ Body(c) \/ CopyOut(c) \/ CheckForRevisiting(c),
           NEW e \in Cores, e # c, NEW b \in Blocks
    PROVE  hbmOut'[b] = hbmOut[b] \/ ~Alone(e, b)'
<1>0. ConfigOK /\ TypeOK /\ block' = block
  BY SameConfig DEF LoopInv
<1>1. CASE CopyOut(c) /\ b = block[grid_point(c)]
  <2>1. pc[c] = "copy_out" /\ body' = body
    BY <1>1 DEF CopyOut
  <2>2. grid_point(c) \in Visits(c, b)
    BY <1>1, <2>1, JustRan
  <2>3. Visits(c, b)' = Visits(c, b)
    BY <1>0, <2>1 DEF Visits
  <2> QED
    BY <2>2, <2>3 DEF Alone
<1>2. CASE CopyOut(c) /\ b # block[grid_point(c)]
  BY <1>0, <1>2 DEF CopyOut, TypeOK
<1>3. CASE ~CopyOut(c)
  BY <1>3 DEF CopyIn, Body, CheckForRevisiting
<1> QED
  BY <1>1, <1>2, <1>3

\* Every step keeps the output blocks as they should be.
LEMMA NextOutput ==
    ASSUME LoopInv, \A e \in Cores : OutputOK(e),
           NEW c \in Cores, CopyIn(c) \/ Body(c) \/ CopyOut(c) \/ CheckForRevisiting(c)
    PROVE  \A e \in Cores : OutputOK(e)'
<1>0. TypeOK /\ UNCHANGED config
  BY NextTypes DEF LoopInv
<1>1. ASSUME NEW e \in Cores, e # c PROVE OutputOK(e)'
  <2>1. Same(e)
    BY <1>0, <1>1, OthersSame
  <2>2. \A b \in Blocks : hbmOut'[b] = hbmOut[b] \/ ~Alone(e, b)'
    BY <1>0, <1>1, WritesItsOwn
  <2>3. \A f \in Cores : \A b \in Blocks : Visits(f, b) \subseteq Visits(f, b)'
    BY <1>0, VisitsMonotone
  <2> QED
    BY <1>0, <2>1, <2>2, <2>3, SameOutput
<1>2. OutputOK(c)'
  BY <1>0, CopyInOutput, BodyOutput, CopyOutOutput, CheckOutput
<1> QED
  BY <1>1, <1>2

\* Initially nothing is in the buffers and nothing was computed.
LEMMA InitBlocks ==
    ASSUME Init, NEW c \in Cores
    PROVE  InputOK(c) /\ OutputOK(c)
<1>0. LoopInv
  BY InitTypes
<1>1. /\ pc[c] = "copy_in" /\ iteration_idx[c] = initial_iteration_idx(c)
      /\ output_ranges[c] = << >> /\ body[c] = << >>
  BY DEF Init
<1>2. InputOK(c)
  BY <1>1 DEF InputOK
<1>3. RangesOK(c)
  <2>1. initial_iteration_idx(c) \in Nat
    BY <1>0, Bounds DEF LoopInv
  <2>2. Len(output_ranges[c]) = 0 /\ 1 .. 0 = {}
    BY <1>1
  <2> QED
    BY <1>1, <2>1, <2>2 DEF RangesOK
<1>4. KernelOutOK(c)
  BY <1>1 DEF KernelOutOK
<1>5. \A b : Visits(c, b) = {}
  <2>1. DOMAIN body[c] = {}
    BY <1>1
  <2> QED
    BY <2>1 DEF Visits
<1>6. HbmOK(c)
  BY <1>5 DEF HbmOK
<1> QED
  BY <1>2, <1>3, <1>4, <1>6 DEF OutputOK

\* GridInv is an invariant.
LEMMA GridInvInductive ==
    GridInv /\ [Next]_vars => GridInv'
<1> SUFFICES ASSUME GridInv, [Next]_vars PROVE GridInv'
  OBVIOUS
<1>0. LoopInv /\ \A e \in Cores : InputOK(e) /\ OutputOK(e)
  BY DEF GridInv
<1>1. ASSUME NEW c \in Cores, CopyIn(c) \/ Body(c) \/ CopyOut(c) \/ CheckForRevisiting(c)
      PROVE  GridInv'
  <2>1. LoopInv'
    BY <1>0, <1>1, NextLoop
  <2>2. \A e \in Cores : InputOK(e)'
    BY <1>0, <1>1, NextInput
  <2>3. \A e \in Cores : OutputOK(e)'
    BY <1>0, <1>1, NextOutput
  <2> QED
    BY <2>1, <2>2, <2>3 DEF GridInv
<1>2. CASE UNCHANGED vars
  <2>1. LoopInv'
    BY <1>0, <1>2, StutterLoop
  <2>2. UNCHANGED config
    BY <1>2 DEF vars
  <2>3. ASSUME NEW e \in Cores PROVE InputOK(e)' /\ OutputOK(e)'
    <3>1. Same(e)
      BY <1>2 DEF vars, Same
    <3>2. /\ grid_point(e)' = grid_point(e) /\ block' = block
          /\ initial_iteration_idx(e)' = initial_iteration_idx(e)
      BY <2>2, <3>1, InIteration DEF Same
    <3>3. InputOK(e)'
      BY <1>0, <3>1, <3>2 DEF InputOK, Same
    <3>4. \A f \in Cores : \A b \in Blocks : Visits(f, b) \subseteq Visits(f, b)'
      BY <1>2, <3>2, VisitsSame DEF vars
    <3>5. \A b \in Blocks : hbmOut'[b] = hbmOut[b] \/ ~Alone(e, b)'
      BY <1>2 DEF vars
    <3>6. OutputOK(e)'
      BY <1>0, <2>2, <3>1, <3>4, <3>5, SameOutput
    <3> QED
      BY <3>3, <3>6
  <2> QED
    BY <2>1, <2>3 DEF GridInv
<1> QED
  BY <1>1, <1>2 DEF Next

\* What the kernel body reads and what is in HBM in the end follows.
LEMMA GridInvImplies ==
    ASSUME GridInv
    PROVE  BodySeesItsInput /\ OutputIsComplete
<1>1. BodySeesItsInput
  BY DEF GridInv, InputOK, BodySeesItsInput
<1>2. OutputIsComplete
  <2> SUFFICES ASSUME NEW c \in Cores, Ended(c), NEW b \in Blocks, Visits(c, b) # {},
                      \A e \in Cores \ {c} : Visits(e, b) = {}
               PROVE  hbmOut[b] = Visits(c, b)
    BY DEF OutputIsComplete
  <2>1. HbmOK(c) /\ pc[c] = "copy_in" /\ ~InLoop(c)
    BY DEF GridInv, OutputOK, Ended
  <2>2. Alone(c, b) /\ Closed(c, b) /\ ~Revisit(c)
    BY <2>1 DEF Alone, Closed, Revisit
  <2> QED
    BY <2>1, <2>2 DEF HbmOK
<1> QED
  BY <1>1, <1>2

\* The kernel body finds the input block of its grid point, for every index map,
\* although a block is only copied when the start indices change (_body).
THEOREM InputsAreThere == Spec => []BodySeesItsInput
<1>1. Init => GridInv
  BY InitTypes, InitBlocks DEF GridInv
<1>2. GridInv => BodySeesItsInput
  BY GridInvImplies
<1> QED
  BY <1>1, <1>2, GridInvInductive, PTL DEF Spec

\* A core that ends without an error has left in HBM all that it computed for a
\* block no other core wrote, although it only copies a block when the next
\* iteration has another one (_body, _check_for_revisiting).
THEOREM OutputsAreWhole == Spec => []OutputIsComplete
<1>1. Init => GridInv
  BY InitTypes, InitBlocks DEF GridInv
<1>2. GridInv => OutputIsComplete
  BY GridInvImplies
<1> QED
  BY <1>1, <1>2, GridInvInductive, PTL DEF Spec

-----------------------------------------------------------------------------
(* The life of the shared memory.                                          *)

Outside == {"idle", "released"}

\* The devices are in the kernel that the shared memory was made for, or have
\* ended the one before it.  When there is none they have all ended the same.
InStep ==
    /\ _shared_memory # 0 =>
          \A d \in Devices : kernel[d] = IF device_pc[d] \in Outside THEN madeFor - 1 ELSE madeFor
    /\ _shared_memory = 0 =>
          \A d \in Devices : device_pc[d] \in Outside /\ kernel[d] = madeFor

\* A device waits in a barrier of the shared memory there is.
WaitsHere ==
    \A d \in Devices :
        device_pc[d] \in {"barrier_wait", "clean_up_wait"} => memory[d] = _shared_memory

\* A device that is past its allocations, and has not failed, has its buffers.
Filled ==
    \A d \in Devices :
        device_pc[d] \notin Outside \cup {"allocate", "failed"} => buffers[d] = NumBuffers

\* The devices other than d that may have signalled it: they have their buffers.
Signallers(d) ==
    {e \in Devices \ {d} : device_pc[e] \notin Outside \cup {"allocate", "signal"}
                             /\ buffers[e] = NumBuffers}

\* The barrier semaphore counts no device twice, and none that has not allocated.
Signalled ==
    _shared_memory # 0 => \A d \in Devices : count[d] <= Cardinality(Signallers(d))

LifecycleInv ==
    LifecycleTypeOK /\ InStep /\ WaitsHere /\ Filled /\ Signalled /\ RemoteBuffersExist

-----------------------------------------------------------------------------

\* The invariant holds before the first kernel.
LEMMA InitLifecycle == LifecycleInit => LifecycleInv
  BY LifecycleAssumption
  DEF LifecycleInit, LifecycleInv, LifecycleTypeOK, InStep, WaitsHere, Filled, Signalled,
      RemoteBuffersExist, Outside

\* The devices that d may have been signalled by are finitely many, at most all others.
LEMMA SignallersBounded ==
    ASSUME NEW d \in Devices
    PROVE  /\ IsFiniteSet(Signallers(d)) /\ Cardinality(Signallers(d)) \in Nat
           /\ Cardinality(Signallers(d)) <= Cardinality(Devices) - 1
           /\ Cardinality(Signallers(d)) = Cardinality(Devices) - 1
                => Signallers(d) = Devices \ {d}
           /\ Cardinality(Devices) \in Nat \ {0}
<1>1. /\ IsFiniteSet(Devices \ {d}) /\ Cardinality(Devices \ {d}) = Cardinality(Devices) - 1
      /\ Cardinality(Devices) \in Nat
  BY FS_RemoveElement, FS_CardinalityType, LifecycleAssumption
<1>2. Signallers(d) \in SUBSET (Devices \ {d})
  BY DEF Signallers
<1>3. /\ IsFiniteSet(Signallers(d)) /\ Cardinality(Signallers(d)) <= Cardinality(Devices \ {d})
      /\ Cardinality(Devices \ {d}) = Cardinality(Signallers(d)) => Devices \ {d} = Signallers(d)
  BY <1>1, <1>2, FS_Subset
<1>4. Cardinality(Devices \ {d}) \in Nat /\ Cardinality(Signallers(d)) \in Nat
  BY <1>1, <1>3, FS_CardinalityType
<1> QED
  BY <1>1, <1>3, <1>4

\* If no device ceases to be a possible signaller, the bound does not fall.
LEMMA SignallersGrow ==
    ASSUME NEW d \in Devices, Signallers(d) \subseteq Signallers(d)'
    PROVE  Cardinality(Signallers(d)) <= Cardinality(Signallers(d)')
<1>1. IsFiniteSet(Signallers(d)')
  <2>1. Signallers(d)' \in SUBSET Devices
    BY DEF Signallers
  <2> QED
    BY <2>1, FS_Subset, LifecycleAssumption
<1> QED
  BY <1>1, FS_Subset

\* A barrier that is full holds all other devices (threading.Barrier).
LEMMA BarrierIsFull ==
    ASSUME NEW d \in Devices, NEW W \in SUBSET (Devices \ {d}),
           Cardinality(W) + 1 = num_devices
    PROVE  W = Devices \ {d}
<1>1. /\ IsFiniteSet(Devices \ {d}) /\ Cardinality(Devices \ {d}) = Cardinality(Devices) - 1
      /\ Cardinality(Devices) \in Nat
  BY FS_RemoveElement, FS_CardinalityType, LifecycleAssumption
<1>2. IsFiniteSet(W) /\ (Cardinality(Devices \ {d}) = Cardinality(W) => Devices \ {d} = W)
  BY <1>1, FS_Subset
<1>3. Cardinality(W) \in Nat
  BY <1>2, FS_CardinalityType
<1> QED
  BY <1>1, <1>2, <1>3 DEF num_devices

-----------------------------------------------------------------------------

\* A step that leaves the shared memory, its buffers and its semaphore alone and
\* takes only d from one place inside the kernel, past the signal, to another.
LEMMA MoveInside ==
    ASSUME LifecycleInv, NEW d \in Devices, NEW where,
           where \in {"barrier", "barrier_wait", "signal", "wait", "kernel", "clean_up",
                      "clean_up_wait", "failed"},
           device_pc[d] \notin Outside, device_pc' = [device_pc EXCEPT ![d] = where],
           device_pc[d] \in {"allocate", "signal"} \/ where \notin {"allocate", "signal"},
           where # "failed" => buffers[d] = NumBuffers,
           where \in {"barrier_wait", "clean_up_wait"} => memory'[d] = _shared_memory,
           \A e \in Devices : e # d => memory'[e] = memory[e],
           memory' \in [Devices -> 0 .. made],
           where = "kernel" => \A e \in Devices : buffers[e] = NumBuffers,
           \A e \in Devices : count'[e] <= count[e], count' \in [Devices -> Nat],
           failures' \in Nat,
           UNCHANGED <<collective, _shared_memory, buffers, kernel, made, madeFor>>
    PROVE  LifecycleInv'
<1>0. LifecycleTypeOK /\ InStep /\ WaitsHere /\ Filled /\ Signalled /\ RemoteBuffersExist
  BY DEF LifecycleInv
<1>1. LifecycleTypeOK'
  BY <1>0 DEF LifecycleTypeOK
<1>2. device_pc \in [Devices -> {"idle", "allocate", "barrier", "barrier_wait", "signal", "wait",
                          "kernel", "clean_up", "clean_up_wait", "released", "failed"}]
  BY <1>0 DEF LifecycleTypeOK
<1>3. InStep'
  BY <1>0, <1>2 DEF InStep, Outside
<1>4. WaitsHere'
  BY <1>0, <1>2 DEF WaitsHere
<1>5. Filled'
  BY <1>0, <1>2 DEF Filled, Outside
<1>6. RemoteBuffersExist'
  BY <1>0, <1>2 DEF RemoteBuffersExist
<1>7. Signalled'
  <2> SUFFICES ASSUME _shared_memory # 0, NEW e \in Devices
               PROVE  count'[e] <= Cardinality(Signallers(e)')
    BY DEF Signalled
  <2>1. Signallers(e) \subseteq Signallers(e)'
    BY <1>2 DEF Signallers, Outside
  <2>2. Cardinality(Signallers(e)) <= Cardinality(Signallers(e)')
    BY <2>1, SignallersGrow
  <2>3. count[e] <= Cardinality(Signallers(e))
    BY <1>0 DEF Signalled
  <2>4. Cardinality(Signallers(e)) \in Nat /\ Cardinality(Signallers(e)') \in Nat
    <3>1. Signallers(e)' \in SUBSET Devices /\ Signallers(e) \in SUBSET Devices
      BY DEF Signallers
    <3> QED
      BY <3>1, FS_Subset, FS_CardinalityType, LifecycleAssumption
  <2> QED
    BY <1>0, <2>2, <2>3, <2>4 DEF LifecycleTypeOK
<1> QED
  BY <1>1, <1>3, <1>4, <1>5, <1>6, <1>7 DEF LifecycleInv


\* The types of the parts of the state that the steps below read.
LEMMA Types ==
    ASSUME LifecycleTypeOK
    PROVE  /\ device_pc \in [Devices -> {"idle", "allocate", "barrier", "barrier_wait", "signal", "wait",
                                  "kernel", "clean_up", "clean_up_wait", "released", "failed"}]
           /\ _shared_memory \in Nat /\ made \in Nat /\ madeFor \in Nat /\ NumBuffers \in Nat
           /\ memory \in [Devices -> 0 .. made] /\ _shared_memory \in 0 .. made
           /\ buffers \in [Devices -> 0 .. NumBuffers] /\ count \in [Devices -> Nat]
           /\ kernel \in [Devices -> 0 .. MaxKernels] /\ failures \in Nat
           /\ collective \in [1 .. MaxKernels -> BOOLEAN]
  BY LifecycleAssumption DEF LifecycleTypeOK

\* The first device of a kernel makes the shared memory, the others find it.
LEMMA InitializeInv ==
    ASSUME LifecycleInv, NEW d \in Devices, _initialize_shared_memory(d), UNCHANGED collective
    PROVE  LifecycleInv'
<1>0. LifecycleTypeOK /\ InStep /\ WaitsHere /\ Filled /\ Signalled /\ RemoteBuffersExist
  BY DEF LifecycleInv
<1> USE Types, <1>0
<1>1. CASE MustMake
  <2>1. /\ device_pc[d] = "idle" /\ kernel[d] < MaxKernels /\ _shared_memory = 0
        /\ kernel' = [kernel EXCEPT ![d] = @ + 1]
        /\ device_pc' = [device_pc EXCEPT ![d] = "allocate"]
        /\ _shared_memory' = made + 1 /\ made' = made + 1 /\ madeFor' = kernel[d] + 1
        /\ buffers' = [e \in Devices |-> 0] /\ count' = [e \in Devices |-> 0]
        /\ UNCHANGED <<memory, failures, collective>>
    BY <1>1 DEF _initialize_shared_memory, MustMake, Goto
  <2>2. \A e \in Devices : device_pc[e] \in Outside /\ kernel[e] = madeFor
    BY <2>1 DEF InStep
  <2>3. LifecycleTypeOK'
    <3>1. _shared_memory' \in 0 .. made' /\ memory' \in [Devices -> 0 .. made'] /\ made' \in Nat
      BY <2>1
    <3>2. buffers' \in [Devices -> 0 .. NumBuffers] /\ count' \in [Devices -> Nat]
      BY <2>1
    <3>3. /\ kernel[d] \in 0 .. MaxKernels /\ MaxKernels \in Nat
          /\ kernel' \in [Devices -> 0 .. MaxKernels] /\ madeFor' \in Nat
      BY <2>1, LifecycleAssumption, SMTT(30)
    <3> QED
      BY <2>1, <3>1, <3>2, <3>3 DEF LifecycleTypeOK
  <2>4. InStep'
    <3>1. \A e \in Devices : device_pc'[e] = IF e = d THEN "allocate" ELSE device_pc[e]
      BY <2>1
    <3>2. \A e \in Devices : kernel'[e] = IF e = d THEN madeFor' ELSE madeFor' - 1
      BY <2>1, <2>2
    <3> QED
      BY <2>1, <2>2, <3>1, <3>2 DEF InStep, Outside
  <2>5. WaitsHere' /\ Filled' /\ RemoteBuffersExist'
    BY <2>1, <2>2 DEF WaitsHere, Filled, RemoteBuffersExist, Outside
  <2>6. Signalled'
    <3> SUFFICES ASSUME NEW e \in Devices PROVE count'[e] <= Cardinality(Signallers(e)')
      BY DEF Signalled
    <3>1. Signallers(e)' \in SUBSET Devices
      BY DEF Signallers
    <3>2. Cardinality(Signallers(e)') \in Nat
      BY <3>1, FS_Subset, FS_CardinalityType, LifecycleAssumption
    <3> QED
      BY <2>1, <3>2
  <2> QED
    BY <2>3, <2>4, <2>5, <2>6 DEF LifecycleInv
<1>2. CASE ~MustMake
  <2>1. /\ device_pc[d] = "idle" /\ kernel[d] < MaxKernels /\ _shared_memory # 0
        /\ kernel' = [kernel EXCEPT ![d] = @ + 1]
        /\ device_pc' = [device_pc EXCEPT ![d] = "allocate"]
        /\ UNCHANGED <<_shared_memory, made, madeFor, buffers, count, memory, failures, collective>>
    BY <1>2 DEF _initialize_shared_memory, MustMake, Goto
  <2>2. LifecycleTypeOK'
    BY <2>1, LifecycleAssumption, SMTT(30) DEF LifecycleTypeOK
  <2>3. InStep'
    BY <2>1 DEF InStep, Outside
  <2>4. WaitsHere' /\ Filled' /\ RemoteBuffersExist'
    BY <2>1 DEF WaitsHere, Filled, RemoteBuffersExist, Outside
  <2>5. Signalled'
    <3> SUFFICES ASSUME NEW e \in Devices PROVE count[e] <= Cardinality(Signallers(e)')
      BY <2>1 DEF Signalled
    <3>1. Signallers(e) = Signallers(e)'
      BY <2>1 DEF Signallers, Outside
    <3> QED
      BY <2>1, <3>1 DEF Signalled
  <2> QED
    BY <2>2, <2>3, <2>4, <2>5 DEF LifecycleInv
<1> QED
  BY <1>1, <1>2

\* A device allocates a buffer while no kernel relies on it (_allocate_buffer).
LEMMA AllocateInv ==
    ASSUME LifecycleInv, NEW d \in Devices, AllocateOnDevice(d), UNCHANGED collective
    PROVE  LifecycleInv'
<1>0. LifecycleTypeOK /\ InStep /\ WaitsHere /\ Filled /\ Signalled /\ RemoteBuffersExist
  BY DEF LifecycleInv
<1> USE Types, <1>0
<1>1. /\ device_pc[d] = "allocate" /\ buffers[d] < NumBuffers
      /\ buffers' = [buffers EXCEPT ![d] = @ + 1]
      /\ UNCHANGED <<_shared_memory, count, device_pc, memory, kernel, made, madeFor, failures,
                     collective>>
  BY DEF AllocateOnDevice, MoreBuffers
<1>2. LifecycleTypeOK'
  BY <1>1 DEF LifecycleTypeOK
<1>3. InStep' /\ WaitsHere' /\ Filled'
  BY <1>1 DEF InStep, WaitsHere, Filled, Outside
<1>4. RemoteBuffersExist'
  BY <1>1 DEF RemoteBuffersExist
<1>5. Signalled'
  <2> SUFFICES ASSUME _shared_memory # 0, NEW e \in Devices
               PROVE  count[e] <= Cardinality(Signallers(e)')
    BY <1>1 DEF Signalled
  <2>1. Signallers(e) = Signallers(e)'
    BY <1>1 DEF Signallers, Outside
  <2> QED
    BY <2>1 DEF Signalled
<1> QED
  BY <1>2, <1>3, <1>4, <1>5 DEF LifecycleInv

\* A device goes on to the barrier or, alone, to its kernel.
LEMMA EndAllocationInv ==
    ASSUME LifecycleInv, NEW d \in Devices, EndAllocation(d), UNCHANGED collective
    PROVE  LifecycleInv'
<1>0. LifecycleTypeOK /\ InStep /\ Filled
  BY DEF LifecycleInv
<1> DEFINE where == IF NeedsBarrier(d) THEN "barrier"
                    ELSE IF collective[kernel[d]] THEN "signal" ELSE "kernel"
<1>1. /\ device_pc[d] = "allocate" /\ buffers[d] = NumBuffers
      /\ device_pc' = [device_pc EXCEPT ![d] = where]
      /\ UNCHANGED <<_shared_memory, buffers, count, memory, kernel, made, madeFor, failures>>
  BY <1>0, Types DEF EndAllocation, MoreBuffers, Goto
<1>2. where \in {"barrier", "signal", "kernel"}
  OBVIOUS
<1>3. ASSUME where = "kernel" PROVE \A e \in Devices : buffers[e] = NumBuffers
  <2>1. ~(Cardinality(Devices) > 1)
    BY <1>3 DEF NeedsBarrier
  <2>2. Cardinality(Devices) \in Nat \ {0}
    BY SignallersBounded
  <2>3. Cardinality(Devices) = 1
    BY <2>1, <2>2
  <2>4. \A e \in Devices : e = d
    BY <2>3, FS_Singleton, LifecycleAssumption
  <2> QED
    BY <1>1, <2>4
<1>4. device_pc[d] \notin Outside
  BY <1>1 DEF Outside
<1>5. /\ \A e \in Devices : count'[e] <= count[e] /\ memory'[e] = memory[e]
      /\ memory' \in [Devices -> 0 .. made] /\ count' \in [Devices -> Nat] /\ failures' \in Nat
  BY <1>0, <1>1, Types
<1> HIDE DEF where
<1> QED
  BY <1>1, <1>2, <1>3, <1>4, <1>5, MoveInside

\* All devices leave a full barrier together.
LEMMA AllTogether ==
    ASSUME LifecycleInv, NEW d \in Devices, NEW waiting \in {"barrier_wait", "clean_up_wait"}, NEW then,
           Cardinality({e \in Devices : device_pc[e] = waiting /\ memory[e] = _shared_memory}) + 1
               = num_devices,
           device_pc[d] # waiting,
           device_pc' = [e \in Devices |->
                    IF e = d \/ e \in {x \in Devices : device_pc[x] = waiting /\ memory[x] = _shared_memory}
                    THEN then ELSE device_pc[e]]
    PROVE  /\ \A e \in Devices \ {d} : device_pc[e] = waiting
           /\ device_pc' = [e \in Devices |-> then]
<1> DEFINE W == {e \in Devices : device_pc[e] = waiting /\ memory[e] = _shared_memory}
<1>1. W \in SUBSET (Devices \ {d})
  OBVIOUS
<1>2. W = Devices \ {d}
  BY <1>1, BarrierIsFull
<1> QED
  BY <1>2

\* The barrier before the kernel opens when all have their buffers (_barrier).
LEMMA BarrierInv ==
    ASSUME LifecycleInv, NEW d \in Devices, _barrier(d), UNCHANGED collective
    PROVE  LifecycleInv'
<1>0. LifecycleTypeOK /\ InStep /\ WaitsHere /\ Filled /\ Signalled /\ RemoteBuffersExist
  BY DEF LifecycleInv
<1> USE Types, <1>0
<1> DEFINE W == {e \in Devices : device_pc[e] = "barrier_wait" /\ memory[e] = _shared_memory}
<1>1. /\ device_pc[d] = "barrier" /\ memory' = [memory EXCEPT ![d] = _shared_memory]
      /\ UNCHANGED <<_shared_memory, buffers, count, kernel, made, madeFor, failures>>
  BY DEF _barrier, BarrierWait
<1>2. buffers[d] = NumBuffers
  BY <1>1 DEF Filled, Outside
<1>3. CASE Cardinality(W) + 1 # num_devices
  <2>1. device_pc' = [device_pc EXCEPT ![d] = "barrier_wait"]
    BY <1>3 DEF _barrier, BarrierWait, Goto
  <2>2. device_pc[d] \notin Outside
    BY <1>1 DEF Outside
  <2>3. /\ \A e \in Devices : count'[e] <= count[e] /\ (e # d => memory'[e] = memory[e])
        /\ memory' \in [Devices -> 0 .. made] /\ memory'[d] = _shared_memory
        /\ count' \in [Devices -> Nat] /\ failures' \in Nat
    BY <1>1
  <2> QED
    BY <1>1, <1>2, <2>1, <2>2, <2>3, MoveInside
<1>4. CASE Cardinality(W) + 1 = num_devices
  <2>1. device_pc' = [e \in Devices |-> IF e = d \/ e \in W THEN "kernel" ELSE device_pc[e]]
    BY <1>4 DEF _barrier, BarrierWait
  <2>2. /\ \A e \in Devices \ {d} : device_pc[e] = "barrier_wait"
        /\ device_pc' = [e \in Devices |-> "kernel"]
    <3>1. device_pc[d] # "barrier_wait"
      BY <1>1
    <3> HIDE Types, <1>0
    <3> QED
      BY <1>4, <2>1, <3>1, AllTogether, ZenonT(40)
  <2>3. \A e \in Devices : buffers[e] = NumBuffers
    BY <1>2, <2>2 DEF Filled, Outside
  <2>4. LifecycleTypeOK'
    BY <1>1, <2>2 DEF LifecycleTypeOK
  <2>5. InStep'
    BY <1>1, <2>2 DEF InStep, Outside
  <2>6. WaitsHere' /\ Filled' /\ RemoteBuffersExist'
    BY <1>1, <2>2, <2>3 DEF WaitsHere, Filled, RemoteBuffersExist
  <2>7. Signalled'
    <3> SUFFICES ASSUME _shared_memory # 0, NEW e \in Devices
                 PROVE  count[e] <= Cardinality(Signallers(e)')
      BY <1>1 DEF Signalled
    <3>1. Signallers(e) = Signallers(e)'
      BY <1>1, <2>2 DEF Signallers, Outside
    <3> QED
      BY <3>1 DEF Signalled
  <2> QED
    BY <2>4, <2>5, <2>6, <2>7 DEF LifecycleInv
<1> QED
  BY <1>3, <1>4


\* A device that signals the others has its buffers, and does so once
\* (get_barrier_semaphore).
LEMMA SignalInv ==
    ASSUME LifecycleInv, NEW d \in Devices, KernelSignals(d), UNCHANGED collective
    PROVE  LifecycleInv'
<1>0. LifecycleTypeOK /\ InStep /\ WaitsHere /\ Filled /\ Signalled /\ RemoteBuffersExist
  BY DEF LifecycleInv
<1> USE Types, <1>0
<1>1. /\ device_pc[d] = "signal" /\ device_pc' = [device_pc EXCEPT ![d] = "wait"]
      /\ count' = [e \in Devices |-> IF e = d THEN count[e] ELSE count[e] + 1]
      /\ UNCHANGED <<_shared_memory, buffers, memory, kernel, made, madeFor, failures, collective>>
  BY DEF KernelSignals, Goto
<1>2. buffers[d] = NumBuffers
  BY <1>1 DEF Filled, Outside
<1>3. LifecycleTypeOK'
  BY <1>1 DEF LifecycleTypeOK
<1>4. InStep' /\ WaitsHere' /\ Filled' /\ RemoteBuffersExist'
  BY <1>1 DEF InStep, WaitsHere, Filled, RemoteBuffersExist, Outside
<1>5. Signalled'
  <2> SUFFICES ASSUME _shared_memory # 0, NEW e \in Devices
               PROVE  count'[e] <= Cardinality(Signallers(e)')
    BY <1>1 DEF Signalled
  <2>1. count[e] <= Cardinality(Signallers(e)) /\ IsFiniteSet(Signallers(e))
    BY SignallersBounded DEF Signalled
  <2>2. CASE e = d
    <3>1. Signallers(e)' = Signallers(e)
      BY <1>1, <2>2 DEF Signallers, Outside
    <3> QED
      BY <1>1, <2>1, <2>2, <3>1
  <2>3. CASE e # d
    <3>1. Signallers(e)' = Signallers(e) \cup {d} /\ d \notin Signallers(e)
      BY <1>1, <1>2, <2>3 DEF Signallers, Outside
    <3>2. Cardinality(Signallers(e)') = Cardinality(Signallers(e)) + 1
      BY <2>1, <3>1, FS_AddElement
    <3>3. Cardinality(Signallers(e)) \in Nat
      BY <2>1, FS_CardinalityType
    <3> QED
      BY <1>1, <2>1, <2>3, <3>2, <3>3, SMTT(30)
  <2> QED
    BY <2>2, <2>3
<1> QED
  BY <1>3, <1>4, <1>5 DEF LifecycleInv

\* A device that has the signals of all others knows that they have their buffers.
LEMMA WaitInv ==
    ASSUME LifecycleInv, NEW d \in Devices, KernelWaits(d), UNCHANGED collective
    PROVE  LifecycleInv'
<1>0. LifecycleTypeOK /\ InStep /\ Filled /\ Signalled
  BY DEF LifecycleInv
<1> USE Types, <1>0
<1>1. /\ device_pc[d] = "wait" /\ device_pc' = [device_pc EXCEPT ![d] = "kernel"]
      /\ count[d] >= Cardinality(Devices) - 1
      /\ count' = [count EXCEPT ![d] = @ - (Cardinality(Devices) - 1)]
      /\ UNCHANGED <<_shared_memory, buffers, memory, kernel, made, madeFor, failures>>
  BY DEF KernelWaits, Enough, others, Goto
<1>2. device_pc[d] \notin Outside /\ buffers[d] = NumBuffers
  BY <1>1 DEF Filled, Outside
<1>3. count[d] <= Cardinality(Signallers(d))
  BY <1>1, <1>2 DEF InStep, Signalled
<1>4. Signallers(d) = Devices \ {d}
  <2>1. /\ Cardinality(Signallers(d)) \in Nat /\ Cardinality(Devices) \in Nat \ {0}
        /\ Cardinality(Signallers(d)) <= Cardinality(Devices) - 1
        /\ Cardinality(Signallers(d)) = Cardinality(Devices) - 1 => Signallers(d) = Devices \ {d}
    BY SignallersBounded
  <2>2. count[d] \in Nat
    OBVIOUS
  <2> QED
    BY <1>1, <1>3, <2>1, <2>2, SMTT(30)
<1>5. \A e \in Devices : buffers[e] = NumBuffers
  BY <1>2, <1>4 DEF Signallers
<1>6. /\ \A e \in Devices : count'[e] <= count[e] /\ memory'[e] = memory[e]
      /\ memory' \in [Devices -> 0 .. made] /\ count' \in [Devices -> Nat] /\ failures' \in Nat
  <2>1. Cardinality(Devices) - 1 \in Nat
    BY SignallersBounded
  <2>2. count'[d] = count[d] - (Cardinality(Devices) - 1) /\ count'[d] \in Nat
    BY <1>1, <2>1
  <2> QED
    BY <1>1, <2>1, <2>2, SMTT(30)
<1> QED
  BY <1>1, <1>2, <1>5, <1>6, MoveInside

\* A device comes to the end of the kernel.
LEMMA EndKernelInv ==
    ASSUME LifecycleInv, NEW d \in Devices, EndKernel(d), UNCHANGED collective
    PROVE  LifecycleInv'
<1>0. LifecycleTypeOK /\ Filled
  BY DEF LifecycleInv
<1>1. /\ device_pc[d] = "kernel" /\ device_pc' = [device_pc EXCEPT ![d] = "clean_up"]
      /\ UNCHANGED <<_shared_memory, buffers, count, memory, kernel, made, madeFor, failures>>
  BY DEF EndKernel, Goto
<1>2. device_pc[d] \notin Outside /\ buffers[d] = NumBuffers
  BY <1>0, <1>1 DEF Filled, Outside
<1>3. /\ \A e \in Devices : count'[e] <= count[e] /\ memory'[e] = memory[e]
      /\ memory' \in [Devices -> 0 .. made] /\ count' \in [Devices -> Nat] /\ failures' \in Nat
  BY <1>0, <1>1, Types
<1> QED
  BY <1>1, <1>2, <1>3, MoveInside

\* The shared memory is cleared when all devices have come to the end
\* (_clear_shared_memory).
LEMMA CleanUpInv ==
    ASSUME LifecycleInv, NEW d \in Devices, _clean_up_shared_memory(d), UNCHANGED collective
    PROVE  LifecycleInv'
<1>0. LifecycleTypeOK /\ InStep /\ WaitsHere /\ Filled /\ Signalled /\ RemoteBuffersExist
  BY DEF LifecycleInv
<1> USE Types, <1>0
<1> DEFINE W == {e \in Devices : device_pc[e] = "clean_up_wait" /\ memory[e] = _shared_memory}
<1>1. /\ device_pc[d] = "clean_up" /\ memory' = [memory EXCEPT ![d] = _shared_memory]
      /\ UNCHANGED <<buffers, count, kernel, made, madeFor, failures>>
  BY DEF _clean_up_shared_memory, BarrierWait
<1>2. device_pc[d] \notin Outside /\ buffers[d] = NumBuffers
  BY <1>1 DEF Filled, Outside
<1>3. CASE Cardinality(W) + 1 # num_devices
  <2>1. device_pc' = [device_pc EXCEPT ![d] = "clean_up_wait"] /\ UNCHANGED _shared_memory
    BY <1>3 DEF _clean_up_shared_memory, BarrierWait, Goto
  <2>2. /\ \A e \in Devices : count'[e] <= count[e] /\ (e # d => memory'[e] = memory[e])
        /\ memory' \in [Devices -> 0 .. made] /\ memory'[d] = _shared_memory
        /\ count' \in [Devices -> Nat] /\ failures' \in Nat
    BY <1>1
  <2> QED
    BY <1>1, <1>2, <2>1, <2>2, MoveInside
<1>4. CASE Cardinality(W) + 1 = num_devices
  <2>1. /\ device_pc' = [e \in Devices |-> IF e = d \/ e \in W THEN "released" ELSE device_pc[e]]
        /\ _shared_memory' = 0
    BY <1>4 DEF _clean_up_shared_memory, BarrierWait
  <2>2. /\ \A e \in Devices \ {d} : device_pc[e] = "clean_up_wait"
        /\ device_pc' = [e \in Devices |-> "released"]
    <3>1. device_pc[d] # "clean_up_wait"
      BY <1>1
    <3> HIDE Types, <1>0
    <3> QED
      BY <1>4, <2>1, <3>1, AllTogether, ZenonT(40)
  <2>3. \A e \in Devices : kernel[e] = madeFor
    BY <1>1, <1>2, <2>2 DEF InStep, Outside
  <2>4. LifecycleTypeOK'
    BY <1>1, <2>1, <2>2 DEF LifecycleTypeOK
  <2>5. InStep' /\ Signalled'
    BY <1>1, <2>1, <2>2, <2>3 DEF InStep, Signalled, Outside
  <2>6. WaitsHere' /\ Filled' /\ RemoteBuffersExist'
    BY <2>2 DEF WaitsHere, Filled, RemoteBuffersExist, Outside
  <2> QED
    BY <2>4, <2>5, <2>6 DEF LifecycleInv
<1> QED
  BY <1>3, <1>4

\* A device leaves the last barrier, perhaps when others are in the next kernel.
LEMMA LeaveInv ==
    ASSUME LifecycleInv, NEW d \in Devices, Leave(d), UNCHANGED collective
    PROVE  LifecycleInv'
<1>0. LifecycleTypeOK /\ InStep /\ WaitsHere /\ Filled /\ Signalled /\ RemoteBuffersExist
  BY DEF LifecycleInv
<1> USE Types, <1>0
<1>1. /\ device_pc[d] = "released" /\ device_pc' = [device_pc EXCEPT ![d] = "idle"]
      /\ UNCHANGED <<_shared_memory, buffers, count, memory, kernel, made, madeFor, failures,
                     collective>>
  BY DEF Leave, Goto
<1>2. LifecycleTypeOK'
  BY <1>1 DEF LifecycleTypeOK
<1>3. InStep' /\ WaitsHere' /\ Filled' /\ RemoteBuffersExist'
  BY <1>1 DEF InStep, WaitsHere, Filled, RemoteBuffersExist, Outside
<1>4. Signalled'
  <2>1. \A e \in Devices : Signallers(e)' = Signallers(e)
    BY <1>1 DEF Signallers, Outside
  <2> QED
    BY <1>1, <2>1 DEF Signalled
<1> QED
  BY <1>2, <1>3, <1>4 DEF LifecycleInv

\* A callback that raises leaves everything where it is.
LEMMA RaiseInv ==
    ASSUME LifecycleInv, NEW d \in Devices, Raise(d), UNCHANGED collective
    PROVE  LifecycleInv'
<1>0. LifecycleTypeOK
  BY DEF LifecycleInv
<1>1. /\ device_pc[d] \in {"allocate", "signal", "kernel"}
      /\ device_pc' = [device_pc EXCEPT ![d] = "failed"]
      /\ failures' = failures + 1
      /\ UNCHANGED <<_shared_memory, buffers, count, memory, kernel, made, madeFor>>
  BY DEF Raise, Goto
<1>2. device_pc[d] \notin Outside
  BY <1>1 DEF Outside
<1>3. /\ \A e \in Devices : count'[e] <= count[e] /\ memory'[e] = memory[e]
      /\ memory' \in [Devices -> 0 .. made] /\ count' \in [Devices -> Nat] /\ failures' \in Nat
  BY <1>0, <1>1, Types
<1> QED
  BY <1>1, <1>2, <1>3, MoveInside

\* A reset is made when all devices have failed, in the same kernel.
LEMMA ResetInv ==
    ASSUME LifecycleInv, reset_tpu_interpret_mode_state, UNCHANGED collective
    PROVE  LifecycleInv'
<1>0. LifecycleTypeOK /\ InStep
  BY DEF LifecycleInv
<1> USE Types, <1>0
<1>1. /\ \A d \in Devices : device_pc[d] = "failed"
      /\ _shared_memory' = 0 /\ device_pc' = [d \in Devices |-> "idle"]
      /\ UNCHANGED <<buffers, count, memory, kernel, made, madeFor, failures, collective>>
  BY DEF reset_tpu_interpret_mode_state
<1>2. LifecycleTypeOK'
  BY <1>1 DEF LifecycleTypeOK
<1>3. InStep' /\ Signalled'
  BY <1>1, LifecycleAssumption DEF InStep, Signalled, Outside
<1>4. WaitsHere' /\ Filled' /\ RemoteBuffersExist'
  BY <1>1 DEF WaitsHere, Filled, RemoteBuffersExist, Outside
<1> QED
  BY <1>2, <1>3, <1>4 DEF LifecycleInv

\* Every step keeps the invariant.
LEMMA StepInv == LifecycleInv /\ [LifecycleNext]_lifecycleVars => LifecycleInv'
<1> SUFFICES ASSUME LifecycleInv, [LifecycleNext]_lifecycleVars PROVE LifecycleInv'
  OBVIOUS
<1>1. ASSUME NEW d \in Devices, DeviceStep(d) PROVE LifecycleInv'
  BY <1>1, InitializeInv, AllocateInv, EndAllocationInv, BarrierInv, SignalInv, WaitInv,
     EndKernelInv, CleanUpInv, LeaveInv DEF DeviceStep
<1>2. CASE Failure
  BY <1>2, RaiseInv, ResetInv DEF Failure
<1>3. CASE UNCHANGED lifecycleVars
  BY <1>3 DEF lifecycleVars, LifecycleInv, LifecycleTypeOK, InStep, WaitsHere, Filled, Signalled, Signallers,
              RemoteBuffersExist
<1> QED
  BY <1>1, <1>2, <1>3 DEF LifecycleNext

\* Whatever the other devices do, and whichever of them have failed, a device
\* inside a kernel finds the shared memory of this very kernel
\* (_get_shared_memory), and a kernel that runs finds the buffers of all devices.
THEOREM OwnState == LifecycleSpec => []KernelMeetsItsOwnState
<1>1. LifecycleInv => KernelMeetsItsOwnState
  <2> SUFFICES ASSUME LifecycleInv PROVE MemoryOfThisKernel
    BY DEF LifecycleInv, KernelMeetsItsOwnState
  <2> QED
    BY DEF LifecycleInv, InStep, MemoryOfThisKernel, Outside
<1> QED
  BY <1>1, InitLifecycle, StepInv, PTL DEF LifecycleSpec

=============================================================================
