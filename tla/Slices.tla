------------------------------- MODULE Slices -------------------------------
(***************************************************************************)
(* Index ranges of buffer accesses (race_detection_state.py).  A range is  *)
(* a sequence of slice_or_idx, one per leading dimension of the buffer: an *)
(* integer index is the record [start, stop] the code replaces it with,    *)
(* and the fill value slice(None) of zip_longest is FullSlice.  Steps are  *)
(* asserted to be 1 by the code and are left out.                          *)
(***************************************************************************)
EXTENDS Integers, Sequences

FullSlice == [start |-> 0, stop |-> -1]     \* slice(None)

\* The code's name is the opposite of what it returns: whether the slice
\* holds an index (an int or slice(None) gives False).
_is_empty_slice(s) == s # FullSlice /\ s.start < s.stop

_slices_overlap(s1, s2) ==
    IF s1 = FullSlice THEN _is_empty_slice(s2)
    ELSE IF s2 = FullSlice THEN _is_empty_slice(s1)
    ELSE \/ s1.start <= s2.start /\ s2.start < s1.stop
         \/ s2.start <= s1.start /\ s1.start < s2.stop

\* itertools.zip_longest(range1, range2, fillvalue=slice(None))
DimOf(r, d) == IF d <= Len(r) THEN r[d] ELSE FullSlice

_ranges_overlap(r1, r2) ==
    \A d \in 1 .. (IF Len(r1) >= Len(r2) THEN Len(r1) ELSE Len(r2)) :
        _slices_overlap(DimOf(r1, d), DimOf(r2, d))
=============================================================================
