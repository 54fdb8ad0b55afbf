CONSTANTS
    CoreModules <- ThreeCore
    SubModules <- TwoSub
    Editor = TRUE
    MaxStage = 3
    MaxStarts = 1
SPECIFICATION FairSpec
INVARIANTS TypeOK ModulesFollowEngine TasksWithinCall
PROPERTIES NothingDropped CallsReturn
