SPECIFICATION Spec
CONSTANTS
    Shape <- MCShape
    Starts <- MCStarts
    MaxSize = 2
    Values = {0, 1}
    uninitialized = 2
PROPERTY
    SwapReturnsPriorContents
CHECK_DEADLOCK FALSE
