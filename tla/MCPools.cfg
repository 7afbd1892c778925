CONSTANTS
    j1 = j1 j2 = j2 j3 = j3 wa = wa
    Jobs = {j1, j2, j3}
    Workers = {wa}
    Capacity = 2
    NoJob = NoJob
    ra = ra rb = rb p1 = p1 c1 = c1 p2 = p2 c2 = c2 ca = ca cb = cb
    Children = {p1, c1, p2, c2}
    Roots = {ra, rb}
    Parent <- Mixed
    PoolWorkers = {ca, cb}
    PoolCapacity = 2
    Parallel = 1
    Assisting = TRUE
    NoHost = NoHost
SPECIFICATION PoolsSpec
INVARIANTS PoolsTypeOK CountersAreExact ClosedPoolsAreDrained
PROPERTIES PoolsImplementLedger
PROPERTIES CommittedWorkStarts CloseReturns PoolComesToRest
CHECK_DEADLOCK FALSE
