------------------------ MODULE MCRaceDetectionState ------------------------
(***************************************************************************)
(* Model-checking instance of RaceDetectionState: two-entry clocks that    *)
(* are pairwise ordered or not, ranges of a one-dimensional buffer that    *)
(* overlap or not.                                                         *)
(***************************************************************************)
EXTENDS RaceDetectionState

MCClock(a, b) == [e \in {0, 1} |-> IF e = 0 THEN a ELSE b]

\* (1,0) and (0,1) are unordered; both are ordered with (1,1).
MCClocks == {MCClock(1, 0), MCClock(0, 1), MCClock(1, 1)}

MCRange(a, b) == <<[start |-> a, stop |-> b]>>

\* [0,1) and [1,2) are disjoint; both overlap with [0,2).
MCRanges == {MCRange(0, 1), MCRange(1, 2), MCRange(0, 2)}

=============================================================================
