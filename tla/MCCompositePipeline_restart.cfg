CONSTANTS
    N <- DiamondN
    Deps <- DiamondDeps
    StaticTasks <- DiamondTasks
    DynamicTasks = {0}
    MaxFrames = 3
    MaxStarts = 2
SPECIFICATION Spec
INVARIANT DependencyOrder
