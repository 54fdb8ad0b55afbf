CONSTANTS
    Extents = {3, 5}
    MaxSwapchains = 5
SPECIFICATION TargetSpec
INVARIANTS TransitionsAccepted
