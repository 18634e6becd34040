SPECIFICATION BuffersSpec
CONSTANTS
    num_cores_per_device = 2
    Spaces <- MCSpaces
    NumSetup = 1
    Shape <- MCShape
    Starts <- MCStarts
    MaxSize = 2
    Values = {0, 1}
    uninitialized = 2
    Watched = 3
CHECK_DEADLOCK FALSE
INVARIANT
    BuffersLastAsLongAsNeeded
PROPERTY
    AccessesAreExact
