SPECIFICATION Spec
CONSTANTS
    Grids <- MCGrids
    num_cores_per_device = 2
    Blocks = {b1, b2, b3}
    NoBlock = NoBlock
SYMMETRY Symmetry
CHECK_DEADLOCK FALSE
INVARIANTS
    BodySeesItsInput
    OnePassOverGrid
    OutputIsComplete
