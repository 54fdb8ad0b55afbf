CONSTANTS
    Mounts <- AllMounts
    None = "none"
    CoreKey <- SmallCore
    SubKey <- SmallSub
    Declarations <- SmallDeclarations
SPECIFICATION ResolveSpec
INVARIANTS ResolveTypeOK RequiredBefore FailsOnlyIfUnsolvable ResolvedForRunTime OrderedIfAddedInOrder
