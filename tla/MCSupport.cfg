CONSTANTS
    Extents = {3, 5}
    MaxSwapchains = 5
    move = move import = import auto = auto bad = bad
    Client = {k1, k2}
    Action = {move, import, auto, bad}
    NoAction = NoAction
    Inner <- MCInner
    Fails = {bad}
    Reversible = {move}
    Suspends = {move, auto}
    LogSize = 2
    MaxCalls = 3
    Sizes = {1, 4}
    PoolSizes = {1, 4}
    Align = 1
    MaxRoots = 3
    h1 = h1 h2 = h2 h3 = h3 h4 = h4
    Handle = {h1, h2, h3, h4}
    Thread = {t1, t2, t3}
    NoHandle = NoHandle
    RefLimit = 5
    Requester = {r1, r2, r3}
    Once = {r3}
    Nobody = Nobody
    RingSize = 3
    a1 = a1 a2 = a2 b1 = b1 c1 = c1
    User = {1, 2, 3}
    Resource = {"resource"}
    NoResource = NoResource
    Guard = {a1, a2, b1, c1}
    NoGuard = NoGuard
    UserOf <- MCUserOf
    Nesting <- MCNesting
SPECIFICATION SupportSpec
INVARIANTS
    SupportTypeOK QueuesInStep TargetsCurrent LogInOrder ResultReachesCaller Tiled Coalesced
    NoLateUse PromisesKept LockOwned NoLostWakeup
PROPERTIES
    TransitionCompletes CallsReturnOrPanic TidyReturns ImplementsOwned LastOneDestroys AwaitsEnd
