CONSTANTS
    ra = ra rb = rb p1 = p1 c1 = c1 p2 = p2 c2 = c2 ca = ca cb = cb
    Children = {p1, c1, p2, c2}
    Roots = {ra, rb}
    Parent <- BothNested
    PoolWorkers = {ca, cb}
    PoolCapacity = 4
    Parallel = 1
    Assisting = FALSE
    NoHost = NoHost
SPECIFICATION PoolSpec
PROPERTY CancelledChildRetires
CHECK_DEADLOCK FALSE
