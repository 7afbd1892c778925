CONSTANTS
    Root = Root
    A = A
    B = B
    L = L
    hA = hA
    hB = hB
    Leaves = {L}
    Planners = {A, B}
    Humans = {hA, hB}
    Nobody = Nobody
    Trees <- AllTrees
    MaxParallel = 2
SPECIFICATION Spec
CHECK_DEADLOCK FALSE
INVARIANT CancelDrains
