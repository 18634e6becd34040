------------------------------ MODULE GridLoop ------------------------------
(***************************************************************************)
(* How the cores of one device run a kernel over its grid                  *)
(* (interpret_pallas_call, _execute_grid_for_core and _body in             *)
(* interpret/interpret_pallas_call.py; get_indices and get_next_indices in *)
(* interpret/utils.py).                                                    *)
(*                                                                         *)
(* Every core gets a range of the iterations.  It copies an input block    *)
(* from HBM when its start indices differ from those of the previous       *)
(* iteration, and the output block to HBM when those of the next one       *)
(* differ.  The coordinates of parallel dimensions are permuted at random. *)
(*                                                                         *)
(* The kernel has one input and one output that are not aliased, with the  *)
(* same, arbitrary index map, and adds the grid point to the output block, *)
(* which it clears at its first visit.  Blocks are opaque: the start       *)
(* indices of a block, and with them its range, differ from those of every *)
(* other block.                                                            *)
(***************************************************************************)
EXTENDS Integers, Sequences, FiniteSets

CONSTANTS
    Grids,                \* pairs <<grid, parallel_dim_semantics>>
    num_cores_per_device,
    Blocks,
    NoBlock

\* _get_parallel_dim_semantics raises unless the parallel dimensions come first.
_get_parallel_dim_semantics(par) == \A d \in 2 .. Len(par) : par[d] => par[d - 1]

ASSUME GridAssumption ==
    /\ num_cores_per_device \in Nat \ {0} /\ NoBlock \notin Blocks
    /\ \A g \in Grids : /\ g[1] \in Seq(Nat \ {0})
                        /\ g[2] \in Seq(BOOLEAN) /\ Len(g[2]) = Len(g[1])
                        /\ _get_parallel_dim_semantics(g[2])

Cores == 0 .. (num_cores_per_device - 1)

VARIABLES
    grid, parallel, \* the grid and its parallel dimensions
    coordinates,    \* randomized_grid_coordinates of every dimension
    block,          \* the index map: grid point -> block
    pc,
    iteration_idx, loop_idx,
    prev_in,        \* prev_start_indices of the input
    kernelIn,       \* the block in the core's kernel input buffer
    kernelOut,      \* the core's kernel output buffer: a set of grid points
    hbmOut,         \* the output in HBM: per block
    output_ranges,  \* the blocks the core has visited
    body            \* history: per core, the grid points of its iterations

config == <<grid, parallel, coordinates, block>>
vars == <<config, pc, iteration_idx, loop_idx, prev_in, kernelIn, kernelOut,
          hbmOut, output_ranges, body>>

-----------------------------------------------------------------------------
(* Index arithmetic.                                                       *)

\* math.prod(g[d] for the dimensions d in D)
Prod(g, D) ==
    LET p[d \in 0 .. Len(g)] ==
          IF d = 0 THEN 1 ELSE p[d - 1] * (IF d \in D THEN g[d] ELSE 1)
    IN p[Len(g)]

\* The loop goes from the last dimension to the first; rest[d] is loop_index
\* when it comes to dimension d.
get_indices(g, loop_index) ==
    LET rest[d \in 0 .. Len(g)] ==
          IF d = Len(g) THEN loop_index ELSE rest[d + 1] \div g[d + 1]
    IN [d \in 1 .. Len(g) |-> rest[d] % g[d]]

\* carry[d] is the carry into dimension d.
get_next_indices(g, idx) ==
    LET carry[d \in 0 .. Len(g)] ==
          IF d = Len(g) THEN TRUE
          ELSE g[d + 1] = (IF carry[d + 1] THEN idx[d + 1] + 1 ELSE idx[d + 1])
        i(d) == IF carry[d] THEN idx[d] + 1 ELSE idx[d]
    IN [d \in 1 .. Len(g) |-> IF g[d] = i(d) THEN 0 ELSE i(d)]

\* Permuted in the parallel dimensions, the loop index itself in the others.
_get_grid_point(idx) ==
    [d \in 1 .. Len(grid) |->
        IF coordinates[d] = << >> THEN idx[d] ELSE coordinates[d][idx[d] + 1]]

num_iterations == Prod(grid, 1 .. Len(grid))

_get_parallel_subgrid_size == Prod(grid, {d \in 1 .. Len(grid) : parallel[d]})

\* Mutant: rounded down.
per_core_rounded_down ==
    (_get_parallel_subgrid_size \div num_cores_per_device)
      * (num_iterations \div _get_parallel_subgrid_size)

\* Points of the parallel subgrid per core, rounded up, times the iterations
\* of one point.
num_iterations_per_core ==
    ((_get_parallel_subgrid_size + num_cores_per_device - 1) \div num_cores_per_device)
      * (num_iterations \div _get_parallel_subgrid_size)

initial_iteration_idx(c) == c * num_iterations_per_core

loop_bound(c) ==
    IF (c + 1) * num_iterations_per_core < num_iterations
    THEN (c + 1) * num_iterations_per_core ELSE num_iterations

-----------------------------------------------------------------------------

Points(g) ==
    LET top == UNION {0 .. (g[d] - 1) : d \in 1 .. Len(g)}
    IN {p \in [1 .. Len(g) -> top] : \A d \in 1 .. Len(g) : p[d] < g[d]}

\* jax.random.permutation of arange(n)
Permutation(n) ==
    {s \in [1 .. n -> 0 .. (n - 1)] : \A a, b \in 1 .. n : s[a] = s[b] => a = b}

_get_randomized_grid_coordinates(g, par) ==
    {co \in [1 .. Len(g) -> UNION {Permutation(g[d]) : d \in 1 .. Len(g)} \cup {<< >>}] :
        \A d \in 1 .. Len(g) : co[d] \in (IF par[d] THEN Permutation(g[d]) ELSE {<< >>})}

Init ==
    /\ \E g \in Grids :
          /\ grid = g[1] /\ parallel = g[2]
          /\ coordinates \in _get_randomized_grid_coordinates(g[1], g[2])
          /\ block \in [Points(g[1]) -> Blocks]
    /\ pc = [c \in Cores |-> "copy_in"]
    /\ iteration_idx = [c \in Cores |-> initial_iteration_idx(c)]
    /\ loop_idx = [c \in Cores |-> get_indices(grid, initial_iteration_idx(c))]
    /\ prev_in = [c \in Cores |-> block[_get_grid_point(loop_idx[c])]]
    /\ kernelIn = [c \in Cores |-> NoBlock]
    /\ kernelOut = [c \in Cores |-> {}]
    /\ hbmOut = [b \in Blocks |-> {}]
    /\ output_ranges = [c \in Cores |-> << >>]
    /\ body = [c \in Cores |-> << >>]

grid_point(c) == _get_grid_point(loop_idx[c])
next_grid_point(c) == _get_grid_point(get_next_indices(grid, loop_idx[c]))

InLoop(c) == iteration_idx[c] < loop_bound(c)

\* Mutant: the first iteration does not copy unless the indices differ.
MustCopyInMutant(c) == block[grid_point(c)] # prev_in[c]

MustCopyIn(c) ==
    \/ iteration_idx[c] = initial_iteration_idx(c)
    \/ block[grid_point(c)] # prev_in[c]

\* _store_slice_to_kernel_input, if the block is not there already.
CopyIn(c) ==
    /\ pc[c] = "copy_in" /\ InLoop(c)
    /\ kernelIn' = [kernelIn EXCEPT ![c] = IF MustCopyIn(c) THEN block[grid_point(c)] ELSE @]
    /\ pc' = [pc EXCEPT ![c] = "body"]
    /\ UNCHANGED <<config, iteration_idx, loop_idx, prev_in, kernelOut, hbmOut,
                   output_ranges, body>>

\* The kernel's first visit of its output block.
FirstVisit(c) ==
    output_ranges[c] # << >> =>
        output_ranges[c][Len(output_ranges[c])] # block[grid_point(c)]

\* _interpret_jaxpr of the kernel body.
Body(c) ==
    /\ pc[c] = "body"
    /\ kernelOut' = [kernelOut EXCEPT ![c] =
                        (IF FirstVisit(c) THEN {} ELSE @) \cup {grid_point(c)}]
    /\ body' = [body EXCEPT ![c] = Append(@, grid_point(c))]
    /\ pc' = [pc EXCEPT ![c] = "copy_out"]
    /\ UNCHANGED <<config, iteration_idx, loop_idx, prev_in, kernelIn, hbmOut, output_ranges>>

\* Mutant: the last block is not copied unless the indices differ.
MustCopyOutMutant(c) == block[grid_point(c)] # block[next_grid_point(c)]

MustCopyOut(c) ==
    \/ iteration_idx[c] + 1 = loop_bound(c)
    \/ block[grid_point(c)] # block[next_grid_point(c)]

\* _store_to_output_buffer, if the next iteration has another block.
CopyOut(c) ==
    /\ pc[c] = "copy_out"
    /\ hbmOut' = IF MustCopyOut(c)
                 THEN [hbmOut EXCEPT ![block[grid_point(c)]] = kernelOut[c]]
                 ELSE hbmOut
    /\ pc' = [pc EXCEPT ![c] = "check"]
    /\ UNCHANGED <<config, iteration_idx, loop_idx, prev_in, kernelIn, kernelOut,
                   output_ranges, body>>

\* The block was visited before, but not just before.
VisitedBefore(c) ==
    LET b == block[grid_point(c)] IN
    /\ FirstVisit(c)
    /\ \E j \in DOMAIN output_ranges[c] : output_ranges[c][j] = b

\* _check_for_revisiting raises, or the loop goes on with the next iteration.
CheckForRevisiting(c) ==
    /\ pc[c] = "check"
    /\ \/ VisitedBefore(c) /\ pc' = [pc EXCEPT ![c] = "RuntimeError"]
          /\ UNCHANGED <<iteration_idx, loop_idx, prev_in, output_ranges>>
       \/ /\ ~VisitedBefore(c)
          /\ output_ranges' = [output_ranges EXCEPT ![c] = Append(@, block[grid_point(c)])]
          /\ iteration_idx' = [iteration_idx EXCEPT ![c] = @ + 1]
          /\ loop_idx' = [loop_idx EXCEPT ![c] = get_next_indices(grid, @)]
          /\ prev_in' = [prev_in EXCEPT ![c] = block[grid_point(c)]]
          /\ pc' = [pc EXCEPT ![c] = "copy_in"]
    /\ UNCHANGED <<config, kernelIn, kernelOut, hbmOut, body>>

Next ==
    \E c \in Cores :
        \/ CopyIn(c) \/ Body(c) \/ CopyOut(c) \/ CheckForRevisiting(c)

Spec == Init /\ [][Next]_vars

-----------------------------------------------------------------------------

\* The types of the loop state; the loop index of a core stays inside the grid
\* (get_next_indices).
TypeOK ==
    /\ block \in [Points(grid) -> Blocks]
    /\ pc \in [Cores -> {"copy_in", "body", "copy_out", "check", "RuntimeError"}]
    /\ iteration_idx \in [Cores -> Nat] /\ loop_idx \in [Cores -> Points(grid)]
    /\ prev_in \in [Cores -> Blocks] /\ kernelIn \in [Cores -> Blocks \cup {NoBlock}]
    /\ kernelOut \in [Cores -> SUBSET Points(grid)] /\ hbmOut \in [Blocks -> SUBSET Points(grid)]
    /\ output_ranges \in [Cores -> Seq(Blocks)] /\ body \in [Cores -> Seq(Points(grid))]

Ended(c) == pc[c] = "copy_in" /\ ~InLoop(c)

\* The kernel body finds the input block of its grid point, although blocks
\* are only copied when the start indices change.
BodySeesItsInput ==
    \A c \in Cores : pc[c] = "body" => kernelIn[c] = block[grid_point(c)]

\* When all cores have ended, the body ran once for every point of the grid,
\* however the parallel subgrid is divided among the cores.
EveryPointOnce ==
    (\A c \in Cores : Ended(c)) =>
        \A p \in Points(grid) :
            Cardinality({x \in Cores \X (1 .. num_iterations) :
                            x[2] \in DOMAIN body[x[1]] /\ body[x[1]][x[2]] = p}) = 1

SameParallelPoint(p, q) == \A d \in 1 .. Len(grid) : parallel[d] => p[d] = q[d]

Before(p, q) ==
    \E d \in 1 .. Len(grid) : p[d] < q[d] /\ \A e \in 1 .. (d - 1) : p[e] = q[e]

\* The dimensions that are not parallel are run in order, by a single core:
\* what the body of one iteration leaves in the kernel's buffers is there in the next.
ArbitraryDimensionsInOrder ==
    \A c, e \in Cores : \A i \in DOMAIN body[c], j \in DOMAIN body[e] :
        SameParallelPoint(body[c][i], body[e][j]) =>
            /\ c = e
            /\ i < j => Before(body[c][i], body[e][j])

Visits(c, b) == {body[c][i] : i \in {k \in DOMAIN body[c] : block[body[c][k]] = b}}

\* A core that ends without an error has left in HBM what it computed for
\* each of its output blocks in all iterations, unless another core has
\* written that block too (which is a race).
OutputIsComplete ==
    \A c \in Cores : Ended(c) =>
        \A b \in Blocks :
            Visits(c, b) # {} /\ (\A e \in Cores \ {c} : Visits(e, b) = {})
              => hbmOut[b] = Visits(c, b)

\* The loops of the cores together are one pass over the grid (_get_grid_point,
\* get_next_indices): no index leaves it, every point is visited once, and the
\* arbitrary dimensions are visited in order.
OnePassOverGrid == TypeOK /\ EveryPointOnce /\ ArbitraryDimensionsInOrder
=============================================================================
