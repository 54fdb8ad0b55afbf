CONSTANTS
    Requester = {r1, r2}
    Once = {}
    Nobody = Nobody
    RingSize = 3
SPECIFICATION QueueSpec
INVARIANTS AwaitReturnsValue
