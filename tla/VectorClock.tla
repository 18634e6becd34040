---------------------------- MODULE VectorClock ----------------------------
(***************************************************************************)
(* Vector clocks of the Pallas interpreters (interpret/vector_clock.py).   *)
(* A clock is a vector of ClockSize counters.  In the code the entries are *)
(* np.int32; one entry counts the operations of one (real or virtual)      *)
(* core in one kernel and 2^31 of them are out of reach, so they are       *)
(* natural numbers here.                                                   *)
(***************************************************************************)
EXTENDS Naturals

CONSTANT ClockSize  \* vector_clock_size

ASSUME ClockSizeAssumption == ClockSize \in Nat \ {0}

Entries == 0 .. (ClockSize - 1)

VectorClocks == [Entries -> Nat]

make_vector_clock == [i \in Entries |-> 0]

MaxEntry(a, b) == IF a >= b THEN a ELSE b

\* Mutant: the other clock replaces x.
update_vector_clock_replaces(x, y) == y

\* update_vector_clock(x, y): x becomes the entry-wise maximum.
update_vector_clock(x, y) == [i \in Entries |-> MaxEntry(x[i], y[i])]

\* (x <= y).all()
LeqAll(x, y) == \A i \in Entries : x[i] <= y[i]

lt(x, y) == LeqAll(x, y) /\ \E i \in Entries : x[i] < y[i]

ordered(x, y) == lt(x, y) \/ lt(y, x)

inc_vector_clock(x, i) == [x EXCEPT ![i] = @ + 1]
=============================================================================
