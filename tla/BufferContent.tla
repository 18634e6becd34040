--------------------------- MODULE BufferContent ----------------------------
(***************************************************************************)
(* The contents of one buffer of the TPU interpreter: get, store and swap  *)
(* (interpret/interpret_pallas_call.py) on get_buffer_content,             *)
(* store_buffer_content and swap_buffer_content                            *)
(* (interpret/shared_memory.py).                                           *)
(*                                                                         *)
(* The buffer is a two-dimensional numpy array and a range has a slice of  *)
(* step 1 for each dimension.  numpy cuts a slice off at the end of the    *)
(* array, and an array indexed by slices is a view: it shows later         *)
(* assignments.  The value stored is an array filled with one value.       *)
(* Each operation runs under the lock of the shared memory.                *)
(***************************************************************************)
EXTENDS Integers

CONSTANTS
    Shape,         \* <<rows, columns>> of the buffer
    Starts,        \* places where a range starts
    MaxSize,       \* bound on the size of a range in each dimension
    Values,
    uninitialized  \* the value of uninitialized memory

\* What is assumed of the constants (module Buffers).
ContentConstants ==
    /\ Shape[1] \in Nat \ {0} /\ Shape[2] \in Nat \ {0} /\ MaxSize \in Nat
    /\ Starts \subseteq (0 .. Shape[1]) \X (0 .. Shape[2])
    /\ uninitialized \notin Values

Idx(shape) == (0 .. (shape[1] - 1)) \X (0 .. (shape[2] - 1))

Ranges == [start : Starts, shape : (1 .. MaxSize) \X (1 .. MaxSize)]

VARIABLES
    out_of_bounds_reads, \* a field of InterpretParams, fixed for the kernel
    content, \* array of the buffer
    op,      \* the last operation and its arguments
    outcome, \* how it ended
    result   \* the array it returned; the empty one if it returned none

vars == <<out_of_bounds_reads, content, op, outcome, result>>

NoArray == <<>>

Init ==
    /\ out_of_bounds_reads \in {"raise", "uninitialized"}
    /\ content \in [Idx(Shape) -> Values]
    /\ op = [op |-> "none"]
    /\ outcome = "none"
    /\ result = NoArray

\* array[rnge].shape
in_bounds_shape(r) ==
    [d \in {1, 2} |-> IF r.start[d] + r.shape[d] <= Shape[d] THEN r.shape[d]
                     ELSE Shape[d] - r.start[d]]

\* The place in the buffer of place p of a range.
At(r, p) == <<r.start[1] + p[1], r.start[2] + p[2]>>

\* The array arr[rnge].
View(arr, r) == [p \in Idx(in_bounds_shape(r)) |-> arr[At(r, p)]]

\* in_bounds_shape == value.shape
IsInBounds(r) == \A d \in {1, 2} : in_bounds_shape(r)[d] = r.shape[d]

\* array[rnge] = value, where value is defined on the in-bounds part.
Assigned(r, value) ==
    [q \in Idx(Shape) |->
        LET p == <<q[1] - r.start[1], q[2] - r.start[2]>>
        IN IF p \in Idx(in_bounds_shape(r)) THEN value[p] ELSE content[q]]

-----------------------------------------------------------------------------

\* An exception leaves the operation without a result.
Raise == outcome' = "raised" /\ result' = NoArray

\* get: what is out of bounds raises, or is read as uninitialized memory.
get(r) ==
    /\ op' = [op |-> "get", rnge |-> r]
    /\ \/ IsInBounds(r) /\ outcome' = "done" /\ result' = View(content, r)
       \/ /\ ~IsInBounds(r) /\ out_of_bounds_reads = "raise" /\ Raise
       \/ /\ ~IsInBounds(r) /\ out_of_bounds_reads = "uninitialized"
          /\ outcome' = "done"
          /\ result' = [p \in Idx(r.shape) |->
                           IF p \in Idx(in_bounds_shape(r)) THEN View(content, r)[p]
                           ELSE uninitialized]
    /\ UNCHANGED content

\* store of an array filled with v.
store(r, v) ==
    /\ op' = [op |-> "store", rnge |-> r, value |-> v]
    /\ \/ /\ IsInBounds(r)
          /\ content' = Assigned(r, [p \in Idx(r.shape) |-> v])
          /\ outcome' = "done" /\ result' = NoArray
       \/ ~IsInBounds(r) /\ Raise /\ UNCHANGED content

\* swap without a mask: raw_result is a view of array, and is copied after the
\* assignment.
swap(r, v) ==
    /\ op' = [op |-> "swap", rnge |-> r, value |-> v]
    /\ \/ /\ IsInBounds(r)
          /\ content' = Assigned(r, [p \in Idx(r.shape) |-> v])
          /\ outcome' = "done" /\ result' = View(content', r)
       \/ ~IsInBounds(r) /\ Raise /\ UNCHANGED content

\* in_bounds_mask: the loop over the dimensions indexes the first one each time.
in_bounds_mask(r) ==
    [p \in Idx(r.shape) |-> \A d \in {1, 2} : p[1] < in_bounds_shape(r)[d]]

\* Mutant: the mask is ignored.
StoredMutant(r, v, mask) == [p \in Idx(in_bounds_shape(r)) |-> v]

\* np.where(mask[in_bounds_idx], value[in_bounds_idx], raw_result)
Stored(r, v, mask) ==
    [p \in Idx(in_bounds_shape(r)) |-> IF mask[p] THEN v ELSE View(content, r)[p]]

\* value, with np.where(mask[in_bounds_idx], raw_result, value[in_bounds_idx])
\* at its in-bounds part
Taken(r, v, mask) ==
    [p \in Idx(r.shape) |->
        IF p \in Idx(in_bounds_shape(r)) /\ mask[p] THEN View(content, r)[p] ELSE v]

\* swap with a mask; the two np.where are computed before the assignment.
masked_swap(r, v, mask) ==
    LET out_of_bounds == \E p \in Idx(r.shape) : ~in_bounds_mask(r)[p] /\ mask[p] IN
    /\ op' = [op |-> "masked_swap", rnge |-> r, value |-> v, mask |-> mask]
    /\ \/ out_of_bounds /\ Raise /\ UNCHANGED content
       \/ /\ ~out_of_bounds
          /\ outcome' = "done" /\ result' = Taken(r, v, mask)
          /\ content' = Assigned(r, Stored(r, v, mask))

Next ==
    /\ \E r \in Ranges :
          \/ get(r)
          \/ \E v \in Values :
                \/ store(r, v)
                \/ swap(r, v)
                \/ \E mask \in [Idx(r.shape) -> BOOLEAN] : masked_swap(r, v, mask)
    /\ UNCHANGED out_of_bounds_reads

Spec == Init /\ [][Next]_vars

-----------------------------------------------------------------------------

\* The buffer keeps its shape and holds no uninitialized value, and a result
\* has the shape of the range asked for, out-of-bounds places included.
TypeOK ==
    /\ content \in [Idx(Shape) -> Values]
    /\ outcome \in {"none", "done", "raised"}
    /\ result \in [IF outcome = "done" /\ op.op # "store" THEN Idx(op.rnge.shape) ELSE {}
                     -> Values \cup {uninitialized}]

\* The place q of the buffer is written to by operation o.
Covers(o, q) ==
    /\ o.op \in {"store", "swap", "masked_swap"}
    /\ \E p \in Idx(o.rnge.shape) :
          /\ At(o.rnge, p) = q
          /\ o.op = "masked_swap" => o.mask[p]

\* An operation that raises leaves the buffer as it was, and any other one
\* changes exactly the places in its range and under its mask, even if the
\* range goes past the end of the buffer.
WritesItsRange ==
    \A q \in Idx(Shape) :
        content'[q] = IF outcome' # "raised" /\ Covers(op', q) THEN op'.value ELSE content[q]

\* A masked swap hands out what it replaces.
HandsOutWhatItReplaces ==
    op'.op = "masked_swap" /\ outcome' # "raised" =>
        \A p \in Idx(op'.rnge.shape) :
            op'.mask[p] /\ At(op'.rnge, p) \in Idx(Shape)
                => result'[p] = content[At(op'.rnge, p)]

\* "The contents of the range of the buffer (prior to the swap)": a swap without
\* a mask returns what it replaces.
SwapReturnsPriorContents ==
    [][op'.op = "swap" /\ outcome' # "raised" => result' = View(content, op'.rnge)]_vars
=============================================================================
