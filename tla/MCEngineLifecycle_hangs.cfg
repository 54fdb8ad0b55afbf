CONSTANTS
    CoreModules <- ThreeCore
    SubModules <- TwoSub
    Editor = FALSE
    MaxStage = 3
    MaxStarts = 1
SPECIFICATION FairSpec
PROPERTIES CallsReturn
