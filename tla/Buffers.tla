------------------------------ MODULE Buffers -------------------------------
(***************************************************************************)
(* The buffers of a device while its cores allocate, access and free them: *)
(* module BufferAllocation, with the contents (module BufferContent) of    *)
(* one HBM buffer of a run_scoped, which the cores share.                  *)
(*                                                                         *)
(* An access holds the lock of the shared memory until it returns, and so  *)
(* does every step of an allocation.                                       *)
(***************************************************************************)
EXTENDS BufferAllocation

CONSTANTS
    Shape, Starts, MaxSize, Values, uninitialized, \* of BufferContent
    Watched   \* id of the buffer whose contents are modelled

VARIABLES
    out_of_bounds_reads, content, op, outcome, result \* of BufferContent

C == INSTANCE BufferContent

ASSUME BuffersAssumption ==
    /\ C!ContentConstants
    /\ Watched \in (NumSetup + 1) .. Len(Spaces) /\ Spaces[Watched] = "hbm"

contentVars == <<out_of_bounds_reads, content, op, outcome, result>>
allVars == <<vars, contentVars>>

BuffersInit == Init /\ C!Init

\* No access holds the lock of the shared memory.
LockFree == op.op = "none"

\* The value that a buffer is allocated with is that of C!Init.
AllocationStep == LockFree /\ Next /\ UNCHANGED contentVars

\* A core inside the run_scoped accesses its buffer.
Access(c) ==
    /\ LockFree /\ pc[c] = "run" /\ KeyOf(c, Watched) \in scope[c]
    /\ C!Next
    /\ UNCHANGED vars

\* The access returns, or raises, and releases the lock.
ReturnFromAccess ==
    /\ ~LockFree
    /\ op' = [op |-> "none"] /\ outcome' = "none" /\ result' = C!NoArray
    /\ UNCHANGED <<vars, out_of_bounds_reads, content>>

BuffersNext == AllocationStep \/ ReturnFromAccess \/ \E c \in Cores : Access(c)

BuffersSpec == BuffersInit /\ [][BuffersNext]_allVars

(***************************************************************************)
(* Properties                                                              *)
(***************************************************************************)
\* The buffer keeps its shape, and what an access returns has the shape of the
\* range asked for, also where the range goes past the end: see BufferContent.
ResultHasShapeOfRange == C!TypeOK

\* However the cores come and go, a core in a run_scoped finds its buffer, in the
\* shape it was allocated with, and a buffer goes with its last core.
BuffersLastAsLongAsNeeded ==
    TypeOK /\ InScopeIsAllocated /\ FreedAfterLastCore /\ ResultHasShapeOfRange

\* An access that raises leaves the buffer as it was, any other changes exactly
\* the places in its range and under its mask, and a masked swap hands out what
\* it replaces: see BufferContent.
AccessesAreExact == [][C!WritesItsRange /\ C!HandsOutWhatItReplaces]_contentVars
=============================================================================
