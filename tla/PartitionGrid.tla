--------------------------- MODULE PartitionGrid ---------------------------
(***************************************************************************)
(* How emit_pipeline divides its grid among the cores (_partition_grid in  *)
(* pallas/mosaic/pipeline.py).  A dimension of the grid is a record with   *)
(* its size, whether its semantics is PARALLEL, and whether its size is    *)
(* known statically.                                                       *)
(***************************************************************************)
EXTENDS Integers, Sequences, FiniteSets, FiniteSetsExt

Dims == [size : Nat, parallel : BOOLEAN, static : BOOLEAN]

parallel_dimensions(grid) == {i \in DOMAIN grid : grid[i].parallel}

divisible_dimensions(grid, num_cores) ==
    {i \in parallel_dimensions(grid) : grid[i].static /\ grid[i].size % num_cores = 0}

dynamic_dims(grid) == {i \in parallel_dimensions(grid) : ~grid[i].static}
static_dims(grid) == {i \in parallel_dimensions(grid) : grid[i].static}

\* The calls that do not raise NotImplementedError.
CanPartition(grid, num_cores) ==
    \/ num_cores = 1
    \/ /\ parallel_dimensions(grid) # {}
       /\ divisible_dimensions(grid, num_cores) = {} => Cardinality(dynamic_dims(grid)) <= 1

\* The first dimension that the cores divide evenly; else the only dynamic
\* one, if there is no static one; else the first of the largest static ones.
partition_dimension(grid, num_cores) ==
    LET divisible == divisible_dimensions(grid, num_cores)
        static == static_dims(grid)
    IN IF divisible # {} THEN Min(divisible)
       ELSE IF static = {} THEN Min(dynamic_dims(grid))
       ELSE Min({i \in static : \A j \in static : grid[j].size <= grid[i].size})

\* Mutant: the remainder is not added to the offsets of the later cores.
PartOfMutant(size, num_cores, core_id) ==
    LET base == size \div num_cores
        rem == size % num_cores
    IN [size |-> IF core_id < rem THEN base + 1 ELSE base,
        offset |-> core_id * (IF core_id < rem THEN base + 1 ELSE base)]

\* The part of a dimension that core_id gets: the first `rem` cores take one
\* iteration more.  If the cores divide the size, rem is 0.
PartOf(size, num_cores, core_id) ==
    LET base == size \div num_cores
        rem == size % num_cores
    IN [size |-> IF core_id < rem THEN base + 1 ELSE base,
        offset |-> IF core_id < rem THEN core_id * (base + 1) ELSE core_id * base + rem]

\* The new grid and the offsets, as one [size, offset] for each dimension.
_partition_grid(grid, num_cores, core_id) ==
    [i \in DOMAIN grid |->
        IF num_cores > 1 /\ i = partition_dimension(grid, num_cores)
        THEN PartOf(grid[i].size, num_cores, core_id)
        ELSE [size |-> grid[i].size, offset |-> 0]]

\* The grid points of a core: what its indices are with the offsets added.
PointsOf(grid, num_cores, core_id) ==
    LET part == _partition_grid(grid, num_cores, core_id)
        top == UNION {0 .. grid[i].size : i \in DOMAIN grid}
    IN {p \in [DOMAIN grid -> top] :
          \A i \in DOMAIN grid : p[i] \in part[i].offset .. (part[i].offset + part[i].size - 1)}

GridPoints(grid) ==
    LET top == UNION {0 .. grid[i].size : i \in DOMAIN grid}
    IN {p \in [DOMAIN grid -> top] : \A i \in DOMAIN grid : p[i] < grid[i].size}

\* The grid points of a core number the steps of its pipeline.
_grid_size(grid, num_cores, core_id) == Cardinality(PointsOf(grid, num_cores, core_id))
=============================================================================
