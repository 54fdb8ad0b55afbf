CONSTANTS
    s1 = s1 s2 = s2 wait = wait low = low poll = poll
    NoTask = NoTask
    Chain <- MCChain
    Job = {wait, low}
    Poller = {poll}
    MaskOf <- MCMask
    Suspends = {s2, low}
    Awaits = {wait}
    PoolCapacity = 1
SPECIFICATION FairSpec
INVARIANTS TypeOK OnePlaceEach FibersOwned
PROPERTIES SameMaskInOrder JobsFinish StagesGoRound
