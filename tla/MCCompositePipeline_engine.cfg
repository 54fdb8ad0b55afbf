CONSTANTS
    N <- EngineN
    Deps <- EngineDeps
    StaticTasks <- EngineTasks
    DynamicTasks = {0, 1}
    MaxFrames = 3
    MaxStarts = 1
SPECIFICATION FairSpec
INVARIANTS TypeOK DependencyOrder NoStageForgotten
PROPERTIES SubmitOnlyIdleSlots ImplementsFrames FrameProgress StopTerminates
