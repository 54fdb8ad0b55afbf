CONSTANTS
    CoreModules <- ThreeCore
    SubModules <- OneSub
    Editor = FALSE
    MaxStage = 3
    MaxStarts = 1
SPECIFICATION Spec
INVARIANT NoAssertionFails
